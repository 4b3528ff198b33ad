----------------------- MODULE ActiveEdgesOutputProofs -----------------------
(***************************************************************************)
(* The sweep of ActiveEdges draws the boundary of the result, for every    *)
(* number of edges, every clip type, fill rule and schedule.               *)
(*                                                                         *)
(* No handler looks at the result: it looks at the counts of the edges it  *)
(* has in hand, which ActiveEdgesProofs shows are those of the             *)
(* regions.  The invariant says position by position what the edges must   *)
(* be (DrawnAt, PairedAt), and record by record its holder (Coupled).  The *)
(* proof has three layers: what an operation on the records does to them   *)
(* (Opened, Exchanged, Closed, Merged), keeping them coupled; how a        *)
(* handler changes the regions, and that the edges it leaves hot are the   *)
(* ones the invariant asks for (a split, a crossing, a join, a maximum, a  *)
(* minimum); and the invariant of the sweep, action by action.  That       *)
(* owners never turn in a circle is carried along (OwnersStay): what a     *)
(* handler joins depends on who holds the sides.                           *)
(***************************************************************************)
EXTENDS ActiveEdgesProofs

-----------------------------------------------------------------------------
(* What an operation on the records leaves alone.                          *)

\* Two edges differ at most in the record they name.
LabelKept(x, y) ==
  /\ x.polytype = y.polytype /\ x.wind_dx = y.wind_dx
  /\ x.winding_count = y.winding_count /\ x.wind_cnt2 = y.wind_cnt2
  /\ x.join_with = y.join_with /\ x.horizontal = y.horizontal

SameButRecords(s, t) ==
  /\ StateType(s) /\ StateType(t)
  /\ t.actives = s.actives /\ t.cliptype = s.cliptype /\ t.fillrule = s.fillrule
  /\ t.succeeded = s.succeeded
  /\ \A x \in Edge : LabelKept(s.edge[x], t.edge[x])

TablesKept(s, t) == t.front = s.front /\ t.back = s.back /\ t.has_points = s.has_points

SameOutrecs(s, t) == \A x \in Edge : t.edge[x].outrec = s.edge[x].outrec

\* Only owners differ.
OwnersOnly(s, t) == SameButRecords(s, t) /\ TablesKept(s, t) /\ SameOutrecs(s, t)

LEMMA SameButReflexive ==
  ASSUME NEW s, StateType(s)
  PROVE  SameButRecords(s, s)
  BY DEF SameButRecords, LabelKept

LEMMA SameButTransitive ==
  ASSUME NEW s, NEW t, NEW u, SameButRecords(s, t), SameButRecords(t, u)
  PROVE  SameButRecords(s, u)
  BY DEF SameButRecords, LabelKept

LEMMA OwnersReflexive ==
  ASSUME NEW s, StateType(s)
  PROVE  OwnersOnly(s, s)
  BY SameButReflexive DEF OwnersOnly, TablesKept, SameOutrecs

LEMMA OwnersTransitive ==
  ASSUME NEW s, NEW t, NEW u, OwnersOnly(s, t), OwnersOnly(t, u)
  PROVE  OwnersOnly(s, u)
<1>1. SameButRecords(s, u)
  BY SameButTransitive DEF OwnersOnly
<1> QED BY <1>1 DEF OwnersOnly, TablesKept, SameOutrecs

LEMMA OwnersWritten ==
  ASSUME NEW s, StateType(s), NEW r, NEW o
  PROVE  /\ OwnersOnly(s, [s EXCEPT !.owner[r] = o])
         /\ OwnersOnly(s, SetOwner(s, r, o))
<1> DEFINE F == {"actives", "cliptype", "fillrule", "succeeded", "edge", "front", "back",
                 "has_points"}
<1>0. ASSUME NEW t, StateType(t), \A f \in F : t[f] = s[f]
      PROVE  OwnersOnly(s, t)
  <2>1. /\ t.actives = s.actives /\ t.cliptype = s.cliptype /\ t.fillrule = s.fillrule
        /\ t.succeeded = s.succeeded /\ t.edge = s.edge
        /\ t.front = s.front /\ t.back = s.back /\ t.has_points = s.has_points
    BY <1>0
  <2> QED BY <1>0, <2>1 DEF OwnersOnly, SameButRecords, LabelKept, TablesKept, SameOutrecs
<1>1. OwnersOnly(s, [s EXCEPT !.owner[r] = o])
  <2>1. StateType([s EXCEPT !.owner[r] = o])
    BY OwnerType
  <2>2. \A f \in F : [s EXCEPT !.owner[r] = o][f] = s[f]
    BY DEF StateType
  <2> QED BY <1>0, <2>1, <2>2
<1>2. OwnersOnly(s, SetOwner(s, r, o))
  <2>1. StateType(SetOwner(s, r, o))
    BY SetOwnerType
  <2>2. \A f \in F : SetOwner(s, r, o)[f] = s[f]
    BY DEF StateType, SetOwner
  <2> QED BY <1>0, <2>1, <2>2
<1> QED BY <1>1, <1>2

\* One edge names another record.
LEMMA OutrecWritten ==
  ASSUME NEW s, StateType(s), NEW e \in Edge, NEW r \in 0 .. Len(s.front)
  PROVE  LET t == [s EXCEPT !.edge[e].outrec = r]
         IN  /\ SameButRecords(s, t) /\ TablesKept(s, t) /\ t.owner = s.owner
             /\ \A x \in Edge : t.edge[x].outrec = IF x = e THEN r ELSE s.edge[x].outrec
<1> DEFINE t == [s EXCEPT !.edge[e].outrec = r]
           o == [s.edge[e] EXCEPT !.outrec = r]
<1>1. StateType(t)
  BY OutrecType
<1>2. /\ t.actives = s.actives /\ t.cliptype = s.cliptype /\ t.fillrule = s.fillrule
      /\ t.succeeded = s.succeeded /\ t.front = s.front /\ t.back = s.back
      /\ t.has_points = s.has_points /\ t.owner = s.owner /\ t.edge = [s.edge EXCEPT ![e] = o]
  BY DEF StateType
<1>3. s.edge \in [Edge -> EdgeType]
  BY DEF StateType
<1>4. LabelKept(s.edge[e], o) /\ o.outrec = r
  BY <1>3 DEF EdgeType, LabelKept
<1> HIDE DEF o, t
<1>5. \A x \in Edge : t.edge[x] = IF x = e THEN o ELSE s.edge[x]
  BY <1>2, <1>3
<1>6. \A x \in Edge : LabelKept(s.edge[x], t.edge[x])
  BY <1>4, <1>5 DEF LabelKept
<1>7. SameButRecords(s, t) /\ TablesKept(s, t)
  BY <1>1, <1>2, <1>6 DEF SameButRecords, TablesKept
<1>8. \A x \in Edge : t.edge[x].outrec = IF x = e THEN r ELSE s.edge[x].outrec
  BY <1>4, <1>5
<1> QED BY <1>2, <1>7, <1>8 DEF t

\* Two edges do.
Renamed(s, t, d, e, q, r) ==
  /\ SameButRecords(s, t) /\ TablesKept(s, t) /\ t.owner = s.owner
  /\ \A x \in Edge : t.edge[x].outrec = IF x = e THEN r ELSE IF x = d THEN q ELSE s.edge[x].outrec

WithOutrecs(s, d, e, q, r) == [s EXCEPT !.edge[d].outrec = q, !.edge[e].outrec = r]

LEMMA OutrecsWritten ==
  ASSUME NEW s, StateType(s), NEW d \in Edge, NEW e \in Edge,
         NEW q \in 0 .. Len(s.front), NEW r \in 0 .. Len(s.front)
  PROVE  Renamed(s, WithOutrecs(s, d, e, q, r), d, e, q, r)
<1> DEFINE t == [s EXCEPT !.edge[d].outrec = q]
           u == [t EXCEPT !.edge[e].outrec = r]
<1>1. /\ SameButRecords(s, t) /\ TablesKept(s, t) /\ t.owner = s.owner
      /\ \A x \in Edge : t.edge[x].outrec = IF x = d THEN q ELSE s.edge[x].outrec
  BY OutrecWritten
<1>2. WithOutrecs(s, d, e, q, r) = u
  BY DEF WithOutrecs
<1> HIDE DEF t
<1>3. StateType(t) /\ Len(t.front) = Len(s.front)
  BY <1>1 DEF SameButRecords, TablesKept
<1>4. /\ SameButRecords(t, u) /\ TablesKept(t, u) /\ u.owner = t.owner
      /\ \A x \in Edge : u.edge[x].outrec = IF x = e THEN r ELSE t.edge[x].outrec
  <2>1. r \in 0 .. Len(t.front) /\ StateType(t)
    BY <1>3
  <2> QED BY <2>1, OutrecWritten
<1> HIDE DEF u
<1>5. SameButRecords(s, u)
  BY <1>1, <1>4, SameButTransitive
<1>6. Renamed(s, u, d, e, q, r)
  BY <1>1, <1>4, <1>5 DEF Renamed, TablesKept
<1> QED BY <1>2, <1>6

-----------------------------------------------------------------------------
(* A local minimum opens a record.                                         *)

LeftOf(s, d, e) ==
  /\ IsInjective(s.actives)
  /\ \E i \in 1 .. Count(s), j \in 1 .. Count(s) : i < j /\ d = s.actives[i] /\ e = s.actives[j]

\* The hot edge on the left of d, from which a record gets its owner.
LEMMA HotOnTheLeft ==
  ASSUME NEW s, StateType(s), NEW d, NEW e, LeftOf(s, d, e)
  PROVE  LET hot == PreviousHotEdge(s, d)
         IN  hot = NoEdge \/ (hot \in Edge \ {d, e} /\ IsHot(s, hot))
<1>1. PICK i \in 1 .. Count(s), j \in 1 .. Count(s) : i < j /\ d = s.actives[i] /\ e = s.actives[j]
  BY DEF LeftOf
<1>2. Count(s) \in Nat /\ DOMAIN s.actives = 1 .. Count(s) /\ IsInjective(s.actives)
  BY ListDomain DEF LeftOf
<1> DEFINE P == {k \in 1 .. i - 1 : IsHot(s, s.actives[k])}
           hot == PreviousHotEdge(s, d)
<1>3. hot = LastOf(s, P)
  <2>1. PositionOf(s, d) = i
    BY <1>1, <1>2, PositionIsUnique
  <2> QED BY <2>1 DEF PreviousHotEdge
<1>4. P \in SUBSET (1 .. Count(s))
  BY <1>2
<1> HIDE DEF hot
<1>5. hot = NoEdge \/ \E k \in P : hot = s.actives[k]
  <2> HIDE DEF P
  <2> QED BY <1>3, <1>4, LastIsGreatest
<1>6. ASSUME NEW k \in P PROVE s.actives[k] \in Edge \ {d, e}
  <2>1. k \in 1 .. Count(s) /\ k # i /\ k # j
    BY <1>1, <1>2
  <2>2. s.actives[k] \in Edge
    BY <2>1, EdgeOfPosition
  <2> QED BY <1>1, <1>2, <2>1, <2>2 DEF IsInjective
<1>7. \A k \in P : IsHot(s, s.actives[k])
  OBVIOUS
<1> HIDE DEF P
<1> QED BY <1>5, <1>6, <1>7 DEF hot

\* A record is added whose sides are d and e, d in front if is_front.
Opened(s, t, d, e, is_front) ==
  LET record == Len(s.front) + 1
  IN  /\ SameButRecords(s, t) /\ OwnersStay(s, t)
      /\ Len(t.front) = record
      /\ \A r \in 1 .. Len(s.front) :
           t.front[r] = s.front[r] /\ t.back[r] = s.back[r] /\ t.has_points[r] = s.has_points[r]
      /\ t.front[record] = (IF is_front THEN d ELSE e)
      /\ t.back[record] = (IF is_front THEN e ELSE d)
      /\ t.has_points[record] = TRUE
      /\ \A x \in Edge : t.edge[x].outrec = IF x \in {d, e} THEN record ELSE s.edge[x].outrec

\* The state in which add_local_min_polygon looks for the hot edge on the left.
Named(s, d, e) ==
  LET record == Len(s.front) + 1
  IN  [CreateOutrec(s) EXCEPT !.edge[d].outrec = record, !.edge[e].outrec = record]

\* What it decides from it: does d become the front side?
OpensInFront(s, d, e, is_new) ==
  LET t == Named(s, d, e)
      hot == PreviousHotEdge(t, d)
  IN  IF hot = NoEdge THEN is_new ELSE IsFront(t, hot) # is_new

LEMMA AppendShape ==
  ASSUME NEW S, NEW q \in Seq(S), NEW x \in S
  PROVE  /\ Len(Append(q, x)) = Len(q) + 1 /\ Append(q, x)[Len(q) + 1] = x
         /\ \A r \in 1 .. Len(q) : Append(q, x)[r] = q[r]
  OBVIOUS

LEMMA RecordCreated ==
  ASSUME NEW s, StateType(s)
  PROVE  LET t == CreateOutrec(s)
             record == Len(s.front) + 1
         IN  /\ SameButRecords(s, t) /\ SameOutrecs(s, t) /\ OwnersStay(s, t)
             /\ Len(t.front) = record /\ record \in Nat
             /\ \A r \in 1 .. Len(s.front) :
                  t.front[r] = s.front[r] /\ t.back[r] = s.back[r] /\ t.has_points[r] = s.has_points[r]
             /\ t.has_points[record] = TRUE
<1> DEFINE t == CreateOutrec(s)
<1>1. StateType(t) /\ Len(t.front) = Len(s.front) + 1 /\ OwnersStay(s, t)
  BY CreateOutrecType, CreateStays
<1>2. /\ t.actives = s.actives /\ t.cliptype = s.cliptype /\ t.fillrule = s.fillrule
      /\ t.succeeded = s.succeeded /\ t.edge = s.edge
      /\ t.front = Append(s.front, NoEdge) /\ t.back = Append(s.back, NoEdge)
      /\ t.has_points = Append(s.has_points, TRUE)
  BY DEF StateType, CreateOutrec
<1> HIDE DEF t
<1>3. SameButRecords(s, t) /\ SameOutrecs(s, t)
  BY <1>1, <1>2 DEF SameButRecords, LabelKept, SameOutrecs
<1>4. /\ s.front \in Seq(MaybeEdge) /\ s.back \in Seq(MaybeEdge) /\ s.has_points \in Seq(BOOLEAN)
      /\ Len(s.back) = Len(s.front) /\ Len(s.has_points) = Len(s.front)
  BY DEF StateType, MaybeEdge
<1>5. Len(s.front) \in Nat
  BY <1>4
<1>6. \A r \in 1 .. Len(s.front) :
        t.front[r] = s.front[r] /\ t.back[r] = s.back[r] /\ t.has_points[r] = s.has_points[r]
  <2>1. NoEdge \in MaybeEdge
    BY DEF MaybeEdge
  <2>2. \A r \in 1 .. Len(s.front) : t.front[r] = s.front[r]
    BY <1>2, <1>4, <2>1, AppendShape
  <2>3. \A r \in 1 .. Len(s.back) : t.back[r] = s.back[r]
    BY <1>2, <1>4, <2>1, AppendShape
  <2>4. \A r \in 1 .. Len(s.has_points) : t.has_points[r] = s.has_points[r]
    <3>1. TRUE \in BOOLEAN
      OBVIOUS
    <3>2. \A r \in 1 .. Len(s.has_points) : Append(s.has_points, TRUE)[r] = s.has_points[r]
      BY <1>4, <3>1, AppendShape, ZenonT(30)
    <3> QED BY <1>2, <3>2, Zenon
  <2>5. \A r \in 1 .. Len(s.front) : t.has_points[r] = s.has_points[r]
    BY <1>4, <2>4, Zenon
  <2>6. \A r \in 1 .. Len(s.front) : t.back[r] = s.back[r]
    BY <1>4, <2>3, Zenon
  <2> QED BY <2>2, <2>5, <2>6, Zenon
<1>7. t.has_points[Len(s.front) + 1] = TRUE
  <2>1. TRUE \in BOOLEAN
    OBVIOUS
  <2>2. Append(s.has_points, TRUE)[Len(s.has_points) + 1] = TRUE
    BY <1>4, <2>1, AppendShape, Zenon
  <2> QED BY <1>2, <1>4, <2>2
<1> QED BY <1>1, <1>3, <1>5, <1>6, <1>7 DEF t

LEMMA SidesWritten ==
  ASSUME NEW s, StateType(s), NEW record \in 1 .. Len(s.front),
         NEW d \in MaybeEdge, NEW e \in MaybeEdge
  PROVE  LET t == SetSides(s, record, d, e)
         IN  /\ SameButRecords(s, t) /\ SameOutrecs(s, t) /\ t.owner = s.owner
             /\ Len(t.front) = Len(s.front) /\ t.has_points = s.has_points
             /\ \A r \in 1 .. Len(s.front) :
                  /\ t.front[r] = IF r = record THEN d ELSE s.front[r]
                  /\ t.back[r] = IF r = record THEN e ELSE s.back[r]
<1> DEFINE t == SetSides(s, record, d, e)
<1>1. StateType(t)
  BY SetSidesType
<1>2. /\ t.actives = s.actives /\ t.cliptype = s.cliptype /\ t.fillrule = s.fillrule
      /\ t.succeeded = s.succeeded /\ t.edge = s.edge /\ t.has_points = s.has_points
      /\ t.owner = s.owner
      /\ t.front = [s.front EXCEPT ![record] = d] /\ t.back = [s.back EXCEPT ![record] = e]
  BY DEF StateType, SetSides
<1> HIDE DEF t
<1>3. SameButRecords(s, t) /\ SameOutrecs(s, t)
  BY <1>1, <1>2 DEF SameButRecords, LabelKept, SameOutrecs
<1>4. /\ s.front \in Seq(MaybeEdge) /\ s.back \in Seq(MaybeEdge) /\ Len(s.back) = Len(s.front)
  BY DEF StateType, MaybeEdge
<1>5. /\ Len(t.front) = Len(s.front)
      /\ \A r \in 1 .. Len(s.front) :
           /\ t.front[r] = IF r = record THEN d ELSE s.front[r]
           /\ t.back[r] = IF r = record THEN e ELSE s.back[r]
  BY <1>2, <1>4
<1> QED BY <1>2, <1>3, <1>5 DEF t

LEMMA NamedRecord ==
  ASSUME NEW s, StateType(s), NEW d \in Edge, NEW e \in Edge
  PROVE  LET t == Named(s, d, e)
             record == Len(s.front) + 1
         IN  /\ SameButRecords(s, t) /\ OwnersStay(s, t)
             /\ Len(t.front) = record /\ record \in Nat
             /\ \A r \in 1 .. Len(s.front) :
                  t.front[r] = s.front[r] /\ t.back[r] = s.back[r] /\ t.has_points[r] = s.has_points[r]
             /\ t.has_points[record] = TRUE
             /\ \A x \in Edge : t.edge[x].outrec = IF x \in {d, e} THEN record ELSE s.edge[x].outrec
<1> DEFINE c == CreateOutrec(s)
           record == Len(s.front) + 1
           t == Named(s, d, e)
<1>1. /\ SameButRecords(s, c) /\ SameOutrecs(s, c) /\ OwnersStay(s, c)
      /\ Len(c.front) = record /\ record \in Nat
      /\ \A r \in 1 .. Len(s.front) :
           c.front[r] = s.front[r] /\ c.back[r] = s.back[r] /\ c.has_points[r] = s.has_points[r]
      /\ c.has_points[record] = TRUE
  BY RecordCreated
<1>2. t = WithOutrecs(c, d, e, record, record)
  BY DEF Named, WithOutrecs
<1> HIDE DEF c
<1>3. StateType(c) /\ record \in 0 .. Len(c.front)
  BY <1>1 DEF SameButRecords
<1> HIDE DEF record, t
<1>4. Renamed(c, t, d, e, record, record)
  BY <1>2, <1>3, OutrecsWritten
<1>5. SameButRecords(s, t)
  BY <1>1, <1>4, SameButTransitive DEF Renamed
<1>6. \A x \in Edge : t.edge[x].outrec = IF x \in {d, e} THEN record ELSE s.edge[x].outrec
  BY <1>1, <1>4 DEF Renamed, SameOutrecs
<1>7. t.front = c.front /\ t.back = c.back /\ t.has_points = c.has_points /\ t.owner = c.owner
  BY <1>4 DEF Renamed, TablesKept
<1>8. OwnersStay(s, t)
  BY <1>1, <1>7, SameOwners DEF OwnersStay
<1> QED BY <1>1, <1>5, <1>6, <1>7, <1>8 DEF t, record

\* The new record gets another record as its owner, one that was there before.
LEMMA MinimumOpens ==
  ASSUME NEW s, StateType(s), NEW d \in Edge, NEW e \in Edge, LeftOf(s, d, e), NEW is_new
  PROVE  Opened(s, AddLocalMinPolygon(s, d, e, is_new), d, e, OpensInFront(s, d, e, is_new))
<1> DEFINE record == Len(s.front) + 1
           t == Named(s, d, e)
           hot == PreviousHotEdge(t, d)
           o == IF hot # NoEdge /\ UsingPolytree THEN SetOwner(t, record, t.edge[hot].outrec) ELSE t
           front == OpensInFront(s, d, e, is_new)
           f == IF front THEN d ELSE e
           b == IF front THEN e ELSE d
           u == SetSides(o, record, f, b)
<1>1. /\ SameButRecords(s, t) /\ OwnersStay(s, t)
      /\ Len(t.front) = record /\ record \in Nat
      /\ \A r \in 1 .. Len(s.front) :
           t.front[r] = s.front[r] /\ t.back[r] = s.back[r] /\ t.has_points[r] = s.has_points[r]
      /\ t.has_points[record] = TRUE
      /\ \A x \in Edge : t.edge[x].outrec = IF x \in {d, e} THEN record ELSE s.edge[x].outrec
  BY NamedRecord
<1>2. AddLocalMinPolygon(s, d, e, is_new) = u
  BY DEF AddLocalMinPolygon, Named, OpensInFront
<1>3. OwnersOnly(t, o)
  <2>1. StateType(t)
    BY <1>1 DEF SameButRecords
  <2> HIDE DEF t, hot, record
  <2> QED BY <2>1, OwnersWritten, OwnersReflexive
<1>4. OwnersStay(t, o)
  <2>1. StateType(t) /\ t.actives = s.actives
    BY <1>1 DEF SameButRecords
  <2> HIDE DEF t
  <2>2. LeftOf(t, d, e)
    BY <2>1 DEF LeftOf, Count
  <2>3. hot = NoEdge \/ (hot \in Edge \ {d, e} /\ IsHot(t, hot))
    BY <2>1, <2>2, HotOnTheLeft
  <2> HIDE DEF hot
  <2>4. CASE hot # NoEdge /\ UsingPolytree
    <3>1. t.edge[hot].outrec = s.edge[hot].outrec /\ s.edge[hot].outrec # NoRecord
      BY <1>1, <2>3, <2>4 DEF IsHot
    <3>2. t.edge[hot].outrec \in 1 .. Len(s.front)
      BY <2>3, <2>4, <3>1, HotRecord DEF IsHot
    <3>3. t.edge[hot].outrec \in 1 .. Len(t.front) /\ record \in 1 .. Len(t.front)
          /\ record # t.edge[hot].outrec
      <4>1. Len(s.front) \in Nat
        BY TableLength
      <4> QED BY <1>1, <3>2, <4>1
    <3> HIDE DEF record
    <3> QED BY <2>1, <2>4, <3>3, SetOwnerStays
  <2>5. CASE ~(hot # NoEdge /\ UsingPolytree)
    <3>1. o = t
      BY <2>5
    <3> QED BY <3>1, SameOwners
  <2> QED BY <2>4, <2>5
<1>5. Len(s.front) \in Nat /\ f \in Edge /\ b \in Edge
  BY TableLength
<1> HIDE DEF t, o, front
<1>6. StateType(o) /\ record \in 1 .. Len(o.front)
  BY <1>1, <1>3, <1>5 DEF OwnersOnly, SameButRecords, TablesKept
<1> HIDE DEF f, b, record
<1>7. /\ SameButRecords(o, u) /\ SameOutrecs(o, u) /\ u.owner = o.owner
      /\ Len(u.front) = Len(o.front) /\ u.has_points = o.has_points
      /\ \A r \in 1 .. Len(o.front) :
           /\ u.front[r] = IF r = record THEN f ELSE o.front[r]
           /\ u.back[r] = IF r = record THEN b ELSE o.back[r]
  BY <1>5, <1>6, SidesWritten DEF MaybeEdge
<1> HIDE DEF u
<1>8. SameButRecords(s, u)
  BY <1>1, <1>3, <1>7, SameButTransitive DEF OwnersOnly
<1>9. \A x \in Edge : u.edge[x].outrec = IF x \in {d, e} THEN record ELSE s.edge[x].outrec
  BY <1>1, <1>3, <1>7 DEF OwnersOnly, SameOutrecs
<1>10. /\ o.front = t.front /\ o.back = t.back /\ o.has_points = t.has_points
      /\ Len(u.front) = record
  BY <1>1, <1>3, <1>7 DEF OwnersOnly, TablesKept
<1>11. ASSUME NEW r \in 1 .. Len(s.front)
       PROVE  u.front[r] = s.front[r] /\ u.back[r] = s.back[r] /\ u.has_points[r] = s.has_points[r]
  <2>1. r \in 1 .. Len(o.front) /\ r # record
    BY <1>1, <1>5, <1>10 DEF record
  <2> QED BY <1>1, <1>7, <1>10, <2>1
<1>12. u.front[record] = f /\ u.back[record] = b /\ u.has_points[record] = TRUE
  BY <1>1, <1>6, <1>7, <1>10
<1>13. OwnersStay(s, u)
  <2>1. OwnersStay(o, u)
    BY <1>7, SameOwners
  <2> QED BY <1>1, <1>4, <2>1 DEF OwnersStay
<1>14. Opened(s, u, d, e, front)
  BY <1>8, <1>9, <1>10, <1>11, <1>12, <1>13 DEF Opened, record, f, b
<1> QED BY <1>2, <1>14 DEF front

-----------------------------------------------------------------------------
(* The coupling of edges and records.                                      *)

RecordClosed(s, r) == s.front[r] = NoEdge /\ s.back[r] = NoEdge

RecordOpen(s, r) ==
  /\ NoEdge \notin {s.front[r], s.back[r]} /\ s.front[r] # s.back[r] /\ s.has_points[r]
  /\ s.edge[s.front[r]].outrec = r /\ s.edge[s.back[r]].outrec = r

HoldsSide(s, e) ==
  e \in Active(s) /\ e \in {s.front[s.edge[e].outrec], s.back[s.edge[e].outrec]}

\* RecordsCoupled, of any state.
Coupled(s) ==
  /\ \A e \in Edge : IsHot(s, e) => HoldsSide(s, e)
  /\ \A r \in 1 .. Len(s.front) : RecordClosed(s, r) \/ RecordOpen(s, r)

\* No record that is closed or empty in s is open or filled in t, and the
\* owners go on leading to records without an owner.
RecordsStay(s, t) ==
  /\ OwnersStay(s, t) /\ Len(s.front) <= Len(t.front)
  /\ \A r \in 1 .. Len(s.front) :
       /\ s.front[r] = NoEdge => RecordClosed(t, r)
       /\ ~s.has_points[r] => ~t.has_points[r]

SameSide(s, t, x) == (IsHot(t, x) <=> IsHot(s, x)) /\ (IsFront(t, x) <=> IsFront(s, x))

\* The records of the edges in D were changed, in a way that leaves sides and
\* edges coupled; all other edges keep their side.
Redrawn(s, t, D) ==
  /\ SameButRecords(s, t) /\ Coupled(t) /\ RecordsStay(s, t)
  /\ \A x \in Edge \ D : SameSide(s, t, x)

LEMMA RedrawnReflexive ==
  ASSUME NEW s, StateType(s), Coupled(s), NEW D
  PROVE  Redrawn(s, s, D)
<1>1. RecordsStay(s, s)
  <2>1. Len(s.front) \in Nat
    BY TableLength
  <2> QED BY <2>1 DEF RecordsStay, OwnersStay, Coupled, RecordOpen, RecordClosed
<1> QED BY <1>1, SameButReflexive DEF Redrawn, SameSide

LEMMA StaysTransitive ==
  ASSUME NEW s, NEW t, NEW u, StateType(s), StateType(t), StateType(u),
         RecordsStay(s, t), RecordsStay(t, u)
  PROVE  RecordsStay(s, u)
<1>1. Len(s.front) \in Nat /\ Len(t.front) \in Nat /\ Len(u.front) \in Nat
  BY TableLength
<1> QED BY <1>1 DEF RecordsStay, OwnersStay, RecordClosed

LEMMA RedrawnTransitive ==
  ASSUME NEW s, NEW t, NEW u, NEW D, NEW E, Redrawn(s, t, D), Redrawn(t, u, E)
  PROVE  Redrawn(s, u, D \cup E)
<1>1. SameButRecords(s, u) /\ Coupled(u)
  BY SameButTransitive DEF Redrawn
<1>2. RecordsStay(s, u)
  BY StaysTransitive DEF Redrawn, SameButRecords
<1> QED BY <1>1, <1>2 DEF Redrawn, SameSide

\* The facts that the proofs about sides use.
LEMMA HotSide ==
  ASSUME NEW s, StateType(s), Coupled(s), NEW e \in Edge, IsHot(s, e)
  PROVE  LET r == s.edge[e].outrec
         IN  /\ r \in 1 .. Len(s.front) /\ RecordOpen(s, r) /\ e \in Active(s)
             /\ s.front[r] \in Edge /\ s.back[r] \in Edge
             /\ IsFront(s, e) => s.front[r] = e
             /\ ~IsFront(s, e) => s.back[r] = e
<1> DEFINE r == s.edge[e].outrec
<1>1. r \in 1 .. Len(s.front)
  BY HotRecord
<1>2. HoldsSide(s, e) /\ (RecordClosed(s, r) \/ RecordOpen(s, r))
  BY <1>1 DEF Coupled
<1>3. RecordOpen(s, r)
  BY <1>2, ActiveEdgesAssumption DEF HoldsSide, RecordClosed
<1>4. s.front[r] \in MaybeEdge /\ s.back[r] \in MaybeEdge
  BY <1>1, SideType
<1>5. s.front[r] \in Edge /\ s.back[r] \in Edge
  BY <1>3, <1>4 DEF RecordOpen, MaybeEdge
<1> QED BY <1>1, <1>2, <1>3, <1>5 DEF IsFront, HoldsSide

LEMMA MinimumDraws ==
  ASSUME NEW s, StateType(s), Coupled(s), NEW d \in Active(s), NEW e \in Active(s), d # e,
         ~IsHot(s, d), ~IsHot(s, e), NEW t, NEW F, Opened(s, t, d, e, F)
  PROVE  /\ Redrawn(s, t, {d, e}) /\ IsHot(t, d) /\ IsHot(t, e)
         /\ IsFront(t, d) <=> F
         /\ IsFront(t, e) <=> ~F
<1> DEFINE record == Len(s.front) + 1
<1>1. d \in Edge /\ e \in Edge /\ Len(s.front) \in Nat /\ NoEdge \notin Edge
  BY ActiveEdge, TableLength, ActiveEdgesAssumption
<1>2. /\ SameButRecords(s, t) /\ Len(t.front) = record /\ OwnersStay(s, t)
      /\ \A r \in 1 .. Len(s.front) :
           t.front[r] = s.front[r] /\ t.back[r] = s.back[r] /\ t.has_points[r] = s.has_points[r]
      /\ t.front[record] = (IF F THEN d ELSE e)
      /\ t.back[record] = (IF F THEN e ELSE d)
      /\ t.has_points[record] = TRUE
      /\ \A x \in Edge : t.edge[x].outrec = IF x \in {d, e} THEN record ELSE s.edge[x].outrec
  BY DEF Opened
<1>3. Active(t) = Active(s)
  BY <1>2 DEF SameButRecords, Active
<1>4. record # NoRecord /\ record \in 1 .. Len(t.front)
  BY <1>1, <1>2 DEF NoRecord
<1> HIDE DEF record
<1>5. IsHot(t, d) /\ IsHot(t, e)
  BY <1>1, <1>2, <1>4 DEF IsHot
<1>6. /\ IsFront(t, d) <=> F
      /\ IsFront(t, e) <=> ~F
  BY <1>1, <1>2, <1>5 DEF IsFront
<1>7. ASSUME NEW x \in Edge \ {d, e} PROVE SameSide(s, t, x)
  <2>1. t.edge[x].outrec = s.edge[x].outrec
    BY <1>2
  <2>2. IsHot(t, x) <=> IsHot(s, x)
    BY <2>1 DEF IsHot
  <2>3. IsHot(s, x) => t.front[t.edge[x].outrec] = s.front[s.edge[x].outrec]
    BY <1>2, <2>1, HotRecord
  <2> QED BY <2>2, <2>3 DEF SameSide, IsFront
<1>8. ASSUME NEW x \in Edge, IsHot(t, x) PROVE HoldsSide(t, x)
  <2>1. CASE x \in {d, e}
    <3>1. x \in Active(t) /\ t.edge[x].outrec = record
      BY <1>2, <1>3, <2>1
    <3>2. x \in {t.front[record], t.back[record]}
      BY <1>2, <2>1
    <3> QED BY <3>1, <3>2 DEF HoldsSide
  <2>2. CASE x \notin {d, e}
    <3>1. IsHot(s, x) /\ t.edge[x].outrec = s.edge[x].outrec
      BY <1>2, <1>8, <2>2 DEF IsHot
    <3>2. HoldsSide(s, x) /\ s.edge[x].outrec \in 1 .. Len(s.front)
      BY <3>1, HotRecord DEF Coupled
    <3> QED BY <1>2, <1>3, <3>1, <3>2 DEF HoldsSide
  <2> QED BY <2>1, <2>2
<1>9. ASSUME NEW r \in 1 .. Len(t.front) PROVE RecordClosed(t, r) \/ RecordOpen(t, r)
  <2>1. CASE r = record
    <3>1. /\ t.edge[d].outrec = record /\ t.edge[e].outrec = record
          /\ {t.front[record], t.back[record]} = {d, e} /\ t.front[record] # t.back[record]
          /\ t.front[record] \in {d, e} /\ t.back[record] \in {d, e}
      BY <1>1, <1>2
    <3>2. t.edge[t.front[record]].outrec = record /\ t.edge[t.back[record]].outrec = record
      BY <3>1
    <3> QED BY <1>1, <1>2, <2>1, <3>1, <3>2 DEF RecordOpen
  <2>2. CASE r # record
    <3>1. r \in 1 .. Len(s.front)
      BY <1>1, <1>2, <2>2 DEF record
    <3>2. CASE RecordClosed(s, r)
      BY <1>2, <3>1, <3>2 DEF RecordClosed
    <3>3. CASE RecordOpen(s, r)
      <4>1. s.front[r] \in Edge /\ s.back[r] \in Edge
        BY <3>1, <3>3, SideType DEF RecordOpen, MaybeEdge
      <4>2. s.front[r] \notin {d, e} /\ s.back[r] \notin {d, e}
        BY <1>1, <3>1, <3>3 DEF RecordOpen, IsHot, NoRecord
      <4>3. t.edge[s.front[r]].outrec = r /\ t.edge[s.back[r]].outrec = r
        BY <1>2, <3>3, <4>1, <4>2 DEF RecordOpen
      <4>4. t.front[r] = s.front[r] /\ t.back[r] = s.back[r] /\ t.has_points[r] = s.has_points[r]
        BY <1>2, <3>1
      <4> QED BY <3>3, <4>3, <4>4 DEF RecordOpen
    <3> QED BY <3>1, <3>2, <3>3 DEF Coupled
  <2> QED BY <2>1, <2>2
<1>10. Coupled(t)
  BY <1>8, <1>9 DEF Coupled
<1>11. RecordsStay(s, t)
  <2>1. Len(s.front) <= Len(t.front)
    BY <1>1, <1>2 DEF record
  <2>2. ASSUME NEW r \in 1 .. Len(s.front), s.front[r] = NoEdge PROVE RecordClosed(t, r)
    BY <1>2, <2>2 DEF Coupled, RecordClosed, RecordOpen
  <2>3. ASSUME NEW r \in 1 .. Len(s.front) PROVE ~s.has_points[r] => ~t.has_points[r]
    BY <1>2
  <2> QED BY <1>2, <2>1, <2>2, <2>3 DEF RecordsStay
<1> QED BY <1>2, <1>5, <1>6, <1>7, <1>10, <1>11 DEF Redrawn

-----------------------------------------------------------------------------
(* Two edges exchange their records.                                       *)

Replaced(side, r, old, new) == [side EXCEPT ![r] = IF @ = old THEN new ELSE @]

LEMMA ReplaceShape ==
  ASSUME NEW side \in Seq(MaybeEdge), NEW r, NEW old, NEW new \in Edge
  PROVE  LET t == Replaced(side, r, old, new)
         IN  /\ t \in Seq(MaybeEdge) /\ Len(t) = Len(side)
             /\ \A k \in 1 .. Len(side) : t[k] = IF k = r /\ side[k] = old THEN new ELSE side[k]
<1> DEFINE t == Replaced(side, r, old, new)
<1>1. t \in Seq(MaybeEdge) /\ Len(t) = Len(side)
  BY ReplaceType DEF Replaced
<1>2. \A k \in 1 .. Len(side) : t[k] = IF k = r /\ side[k] = old THEN new ELSE side[k]
  BY DEF Replaced
<1> QED BY <1>1, <1>2

\* A side of a table of which d and e exchanged the records q and r.
ExchangedSide(side, k, d, e, q, r) ==
  IF k = q /\ side[k] = d THEN e ELSE IF k = r /\ side[k] = e THEN d ELSE side[k]

Exchanged(s, t, d, e) ==
  LET q == s.edge[d].outrec
      r == s.edge[e].outrec
  IN  /\ SameButRecords(s, t) /\ Len(t.front) = Len(s.front) /\ t.has_points = s.has_points
      /\ OwnersStay(s, t)
      /\ \A k \in 1 .. Len(s.front) :
           /\ t.front[k] = ExchangedSide(s.front, k, d, e, q, r)
           /\ t.back[k] = ExchangedSide(s.back, k, d, e, q, r)
      /\ \A x \in Edge :
           t.edge[x].outrec = IF x = e THEN q ELSE IF x = d THEN r ELSE s.edge[x].outrec

LEMMA SwapExchanges ==
  ASSUME NEW s, StateType(s), NEW d \in Edge, NEW e \in Edge, d # e,
         s.edge[d].outrec # s.edge[e].outrec
  PROVE  Exchanged(s, SwapOutrecs(s, d, e), d, e)
<1> DEFINE q == s.edge[d].outrec
           r == s.edge[e].outrec
           replace(side, n, old, new) == [side EXCEPT ![n] = IF @ = old THEN new ELSE @]
           in1(side) == IF q = NoRecord THEN side ELSE replace(side, q, d, e)
           in2(side) == IF r = NoRecord THEN side ELSE replace(side, r, e, d)
           f == in2(in1(s.front))
           b == in2(in1(s.back))
           s1 == [s EXCEPT !.front = f, !.back = b]
           t == WithOutrecs(s1, d, e, r, q)
<1>1. /\ s.front \in Seq(MaybeEdge) /\ s.back \in Seq(MaybeEdge) /\ Len(s.back) = Len(s.front)
      /\ q \in 0 .. Len(s.front) /\ r \in 0 .. Len(s.front) /\ Len(s.front) \in Nat
  BY DEF StateType, MaybeEdge, EdgeType
<1>2. ASSUME NEW side \in Seq(MaybeEdge)
      PROVE  /\ in2(in1(side)) \in Seq(MaybeEdge) /\ Len(in2(in1(side))) = Len(side)
             /\ \A k \in 1 .. Len(side) : in2(in1(side))[k] = ExchangedSide(side, k, d, e, q, r)
  <2> DEFINE one == in1(side)
             two == in2(one)
  <2> HIDE DEF q, r
  <2>1. /\ one \in Seq(MaybeEdge) /\ Len(one) = Len(side)
        /\ \A k \in 1 .. Len(side) : one[k] = IF k = q /\ side[k] = d THEN e ELSE side[k]
    <3>1. CASE q = NoRecord
      BY <3>1 DEF NoRecord
    <3>2. CASE q # NoRecord
      <4> DEFINE o == Replaced(side, q, d, e)
      <4>1. /\ o \in Seq(MaybeEdge) /\ Len(o) = Len(side)
            /\ \A k \in 1 .. Len(side) : o[k] = IF k = q /\ side[k] = d THEN e ELSE side[k]
        BY ReplaceShape
      <4>2. one = o
        BY <3>2 DEF Replaced
      <4> HIDE DEF o, one
      <4> QED BY <4>1, <4>2
    <3> QED BY <3>1, <3>2
  <2> HIDE DEF one
  <2>2. /\ two \in Seq(MaybeEdge) /\ Len(two) = Len(one)
        /\ \A k \in 1 .. Len(one) : two[k] = IF k = r /\ one[k] = e THEN d ELSE one[k]
    <3>1. CASE r = NoRecord
      BY <2>1, <3>1 DEF NoRecord
    <3>2. CASE r # NoRecord
      <4> DEFINE o == Replaced(one, r, e, d)
      <4>1. /\ o \in Seq(MaybeEdge) /\ Len(o) = Len(one)
            /\ \A k \in 1 .. Len(one) : o[k] = IF k = r /\ one[k] = e THEN d ELSE one[k]
        BY <2>1, ReplaceShape
      <4>2. two = o
        BY <3>2 DEF Replaced
      <4> HIDE DEF o, two
      <4> QED BY <4>1, <4>2
    <3> QED BY <3>1, <3>2
  <2> HIDE DEF two
  <2>3. q # r
    BY DEF q, r
  <2>4. \A k \in 1 .. Len(side) : two[k] = ExchangedSide(side, k, d, e, q, r)
    BY <2>1, <2>2, <2>3 DEF ExchangedSide
  <2>5. two \in Seq(MaybeEdge) /\ Len(two) = Len(side)
    BY <2>1, <2>2
  <2> QED BY <2>4, <2>5 DEF two, one
<1>3. /\ f \in Seq(MaybeEdge) /\ Len(f) = Len(s.front)
      /\ \A k \in 1 .. Len(s.front) : f[k] = ExchangedSide(s.front, k, d, e, q, r)
  <2> HIDE DEF q, r, in1, in2
  <2> QED BY <1>1, <1>2
<1>4. /\ b \in Seq(MaybeEdge) /\ Len(b) = Len(s.front)
      /\ \A k \in 1 .. Len(s.front) : b[k] = ExchangedSide(s.back, k, d, e, q, r)
  <2> HIDE DEF q, r, in1, in2
  <2> QED BY <1>1, <1>2
<1>5. SwapOutrecs(s, d, e) = t
  BY DEF SwapOutrecs, WithOutrecs
<1> HIDE DEF f, b
<1>6. /\ SameButRecords(s, s1) /\ SameOutrecs(s, s1) /\ s1.front = f /\ s1.back = b
      /\ s1.has_points = s.has_points /\ s1.owner = s.owner
  <2>1. StateType(s1)
    BY <1>3, <1>4, SidesType
  <2>2. /\ s1.actives = s.actives /\ s1.cliptype = s.cliptype /\ s1.fillrule = s.fillrule
        /\ s1.succeeded = s.succeeded /\ s1.edge = s.edge
        /\ s1.front = f /\ s1.back = b /\ s1.has_points = s.has_points /\ s1.owner = s.owner
    BY DEF StateType
  <2> HIDE DEF s1
  <2> QED BY <2>1, <2>2 DEF SameButRecords, LabelKept, SameOutrecs
<1> HIDE DEF s1, q, r
<1>7. Renamed(s1, t, d, e, r, q)
  <2>1. StateType(s1) /\ Len(s1.front) = Len(s.front)
    BY <1>3, <1>6 DEF SameButRecords
  <2> QED BY <1>1, <2>1, OutrecsWritten
<1> HIDE DEF t
<1>8. SameButRecords(s, t)
  BY <1>6, <1>7, SameButTransitive DEF Renamed
<1>9. t.front = f /\ t.back = b /\ t.has_points = s.has_points /\ t.owner = s.owner
  BY <1>6, <1>7 DEF Renamed, TablesKept
<1>10. \A x \in Edge :
         t.edge[x].outrec = IF x = e THEN q ELSE IF x = d THEN r ELSE s.edge[x].outrec
  BY <1>6, <1>7 DEF Renamed, SameOutrecs
<1>11. OwnersStay(s, t)
  BY <1>3, <1>9, SameOwners
<1>12. Exchanged(s, t, d, e)
  BY <1>3, <1>4, <1>8, <1>9, <1>10, <1>11 DEF Exchanged, q, r
<1> QED BY <1>5, <1>12

LEMMA ExchangeDraws ==
  ASSUME NEW s, StateType(s), Coupled(s), NEW d \in Active(s), NEW e \in Active(s), d # e,
         s.edge[d].outrec # s.edge[e].outrec, NEW t, Exchanged(s, t, d, e)
  PROVE  /\ Redrawn(s, t, {d, e})
         /\ IsHot(t, d) <=> IsHot(s, e)
         /\ IsHot(t, e) <=> IsHot(s, d)
         /\ IsFront(t, d) <=> IsFront(s, e)
         /\ IsFront(t, e) <=> IsFront(s, d)
<1> DEFINE q == s.edge[d].outrec
           r == s.edge[e].outrec
<1>1. d \in Edge /\ e \in Edge /\ Len(s.front) \in Nat /\ NoEdge \notin Edge
  BY ActiveEdge, TableLength, ActiveEdgesAssumption
<1>2. /\ SameButRecords(s, t) /\ Len(t.front) = Len(s.front) /\ t.has_points = s.has_points
      /\ OwnersStay(s, t)
      /\ \A k \in 1 .. Len(s.front) :
           /\ t.front[k] = ExchangedSide(s.front, k, d, e, q, r)
           /\ t.back[k] = ExchangedSide(s.back, k, d, e, q, r)
      /\ \A x \in Edge :
           t.edge[x].outrec = IF x = e THEN q ELSE IF x = d THEN r ELSE s.edge[x].outrec
  BY DEF Exchanged
<1>3. Active(t) = Active(s)
  BY <1>2 DEF SameButRecords, Active
<1>4. /\ IsHot(t, d) <=> IsHot(s, e)
      /\ IsHot(t, e) <=> IsHot(s, d)
  BY <1>1, <1>2 DEF IsHot
\* d and e are sides of their own records only.
<1>5. \A k \in 1 .. Len(s.front) :
        /\ d \in {s.front[k], s.back[k]} => k = q
        /\ e \in {s.front[k], s.back[k]} => k = r
  BY <1>1 DEF Coupled, RecordClosed, RecordOpen
<1>6. q # r /\ t.edge[d].outrec = r /\ t.edge[e].outrec = q
  BY <1>1, <1>2
<1>7. ASSUME NEW k \in 1 .. Len(s.front)
      PROVE  /\ t.front[k] = (IF s.front[k] = d THEN e ELSE IF s.front[k] = e THEN d ELSE s.front[k])
             /\ t.back[k] = (IF s.back[k] = d THEN e ELSE IF s.back[k] = e THEN d ELSE s.back[k])
  BY <1>2, <1>5, <1>6 DEF ExchangedSide
<1>8. IsFront(t, d) <=> IsFront(s, e)
  <2>1. CASE ~IsHot(s, e)
    BY <1>4, <2>1 DEF IsFront
  <2>2. CASE IsHot(s, e)
    <3>1. r \in 1 .. Len(s.front)
      BY <1>1, <2>2, HotRecord
    <3>2. s.front[r] # d
      BY <1>5, <1>6, <3>1
    <3> QED BY <1>4, <1>6, <1>7, <2>2, <3>1, <3>2 DEF IsFront
  <2> QED BY <2>1, <2>2
<1>9. IsFront(t, e) <=> IsFront(s, d)
  <2>1. CASE ~IsHot(s, d)
    BY <1>4, <2>1 DEF IsFront
  <2>2. CASE IsHot(s, d)
    <3>1. q \in 1 .. Len(s.front)
      BY <1>1, <2>2, HotRecord
    <3>2. s.front[q] # e
      BY <1>5, <1>6, <3>1
    <3> QED BY <1>4, <1>6, <1>7, <2>2, <3>1, <3>2 DEF IsFront
  <2> QED BY <2>1, <2>2
<1>10. ASSUME NEW x \in Edge \ {d, e} PROVE SameSide(s, t, x)
  <2>1. t.edge[x].outrec = s.edge[x].outrec
    BY <1>2
  <2>2. IsHot(t, x) <=> IsHot(s, x)
    BY <2>1 DEF IsHot
  <2>3. IsHot(s, x) => (t.front[t.edge[x].outrec] = x <=> s.front[s.edge[x].outrec] = x)
    BY <1>7, <2>1, HotRecord
  <2> QED BY <2>2, <2>3 DEF SameSide, IsFront
<1> HIDE DEF q, r
<1>11. ASSUME NEW x \in Edge, IsHot(t, x) PROVE HoldsSide(t, x)
  <2>1. PICK y \in Edge : /\ IsHot(s, y) /\ t.edge[x].outrec = s.edge[y].outrec
                          /\ \A z : z = y => (IF z = d THEN e ELSE IF z = e THEN d ELSE z) = x
    <3>1. CASE x = d
      BY <1>1, <1>2, <1>4, <1>6, <1>11, <3>1 DEF r
    <3>2. CASE x = e
      BY <1>1, <1>2, <1>4, <1>6, <1>11, <3>2 DEF q
    <3>3. CASE x \notin {d, e}
      BY <1>2, <1>10, <1>11, <3>3 DEF SameSide
    <3> QED BY <3>1, <3>2, <3>3
  <2>2. HoldsSide(s, y) /\ s.edge[y].outrec \in 1 .. Len(s.front)
    BY <2>1, HotRecord DEF Coupled
  <2>3. x \in Active(t)
    BY <1>3, <2>1, <2>2 DEF HoldsSide
  <2>4. x \in {t.front[s.edge[y].outrec], t.back[s.edge[y].outrec]}
    BY <1>7, <2>1, <2>2 DEF HoldsSide
  <2> QED BY <2>1, <2>3, <2>4 DEF HoldsSide
<1>12. ASSUME NEW k \in 1 .. Len(t.front) PROVE RecordClosed(t, k) \/ RecordOpen(t, k)
  <2>0. k \in 1 .. Len(s.front)
    BY <1>2
  <2>1. CASE RecordClosed(s, k)
    BY <1>1, <1>7, <2>0, <2>1 DEF RecordClosed
  <2>2. CASE RecordOpen(s, k)
    <3>1. s.front[k] \in Edge /\ s.back[k] \in Edge /\ s.front[k] # s.back[k]
      BY <2>0, <2>2, SideType DEF RecordOpen, MaybeEdge
    <3>2. ASSUME NEW y \in {s.front[k], s.back[k]},
                 NEW x, x = (IF y = d THEN e ELSE IF y = e THEN d ELSE y)
          PROVE  t.edge[x].outrec = k /\ x # NoEdge
      <4>1. s.edge[y].outrec = k /\ y \in Edge
        BY <2>2, <3>1, <3>2 DEF RecordOpen
      <4>2. CASE y = d
        BY <1>1, <1>6, <3>2, <4>1, <4>2 DEF q
      <4>3. CASE y = e
        BY <1>1, <1>6, <3>2, <4>1, <4>3 DEF r
      <4>4. CASE y \notin {d, e}
        BY <1>1, <1>2, <3>2, <4>1, <4>4
      <4> QED BY <4>2, <4>3, <4>4
    <3>3. t.edge[t.front[k]].outrec = k /\ t.front[k] # NoEdge
      BY <1>7, <2>0, <3>2
    <3>4. t.edge[t.back[k]].outrec = k /\ t.back[k] # NoEdge
      BY <1>7, <2>0, <3>2
    <3>5. t.front[k] # t.back[k]
      BY <1>7, <2>0, <3>1
    <3> QED BY <1>2, <2>2, <3>3, <3>4, <3>5 DEF RecordOpen
  <2> QED BY <2>0, <2>1, <2>2 DEF Coupled
<1>13. Coupled(t)
  BY <1>11, <1>12 DEF Coupled
<1>14. RecordsStay(s, t)
  <2>1. ASSUME NEW k \in 1 .. Len(s.front), s.front[k] = NoEdge PROVE RecordClosed(t, k)
    <3>1. RecordClosed(s, k)
      BY <2>1 DEF Coupled, RecordOpen
    <3> QED BY <1>1, <1>7, <3>1 DEF RecordClosed
  <2> QED BY <1>1, <1>2, <2>1 DEF RecordsStay
<1> QED BY <1>2, <1>4, <1>8, <1>9, <1>10, <1>13, <1>14 DEF Redrawn

-----------------------------------------------------------------------------
(* Two edges of one record meet, and close it.                             *)

LEMMA SidesCleared ==
  ASSUME NEW s, StateType(s), NEW record \in 1 .. Len(s.front)
  PROVE  LET t == SetSides(s, record, NoEdge, NoEdge)
         IN  /\ SameButRecords(s, t) /\ SameOutrecs(s, t) /\ t.owner = s.owner
             /\ Len(t.front) = Len(s.front) /\ t.has_points = s.has_points
             /\ \A r \in 1 .. Len(s.front) :
                  /\ t.front[r] = IF r = record THEN NoEdge ELSE s.front[r]
                  /\ t.back[r] = IF r = record THEN NoEdge ELSE s.back[r]
<1>1. NoEdge \in MaybeEdge
  BY DEF MaybeEdge
<1> QED BY <1>1, SidesWritten

Closed(s, t, d, e) ==
  LET record == s.edge[d].outrec
  IN  /\ SameButRecords(s, t) /\ Len(t.front) = Len(s.front) /\ t.has_points = s.has_points
      /\ OwnersStay(s, t)
      /\ \A k \in 1 .. Len(s.front) :
           /\ t.front[k] = IF k = record THEN NoEdge ELSE s.front[k]
           /\ t.back[k] = IF k = record THEN NoEdge ELSE s.back[k]
      /\ \A x \in Edge : t.edge[x].outrec = IF x \in {d, e} THEN NoRecord ELSE s.edge[x].outrec

LEMMA RecordCloses ==
  ASSUME NEW s, StateType(s), Coupled(s), NEW d \in Edge, NEW e \in Edge, LeftOf(s, d, e),
         IsHot(s, d), s.edge[d].outrec = s.edge[e].outrec, ~(IsFront(s, d) <=> IsFront(s, e))
  PROVE  Closed(s, CloseRecord(s, d), d, e)
<1> DEFINE record == s.edge[d].outrec
           hot == PreviousHotEdge(s, d)
           s1 == IF ~UsingPolytree THEN s
                 ELSE IF hot = NoEdge THEN [s EXCEPT !.owner[record] = NoRecord]
                 ELSE SetOwner(s, record, s.edge[hot].outrec)
           front == s1.front[record]
           back == s1.back[record]
           s2 == WithOutrecs(s1, front, back, NoRecord, NoRecord)
           s3 == SetSides(s2, record, NoEdge, NoEdge)
           owner == s3.owner[record]
           t == CloseRecord(s, d)
<1>1. IsHot(s, e)
  BY DEF IsHot
<1>2. /\ record \in 1 .. Len(s.front) /\ s.front[record] \in Edge /\ s.back[record] \in Edge
      /\ {s.front[record], s.back[record]} = {d, e}
  BY <1>1, HotSide
<1>3. OwnersOnly(s, s1)
  <2> HIDE DEF record, hot
  <2> QED BY OwnersWritten, OwnersReflexive
\* The hot edge on the left holds a side of another record.
<1>4. OwnersStay(s, s1)
  <2>1. hot = NoEdge \/ (hot \in Edge \ {d, e} /\ IsHot(s, hot))
    BY HotOnTheLeft
  <2> HIDE DEF hot
  <2>2. CASE hot # NoEdge
    <3>1. HoldsSide(s, hot) /\ s.edge[hot].outrec \in 1 .. Len(s.front)
      BY <2>1, <2>2, HotRecord DEF Coupled
    <3>2. s.edge[hot].outrec # record
      BY <1>2, <2>1, <2>2, <3>1 DEF HoldsSide
    <3> HIDE DEF record
    <3>3. OwnersStay(s, SetOwner(s, record, s.edge[hot].outrec))
      BY <1>2, <3>1, <3>2, SetOwnerStays
    <3> QED BY <2>2, <3>3, SameOwners
  <2>3. CASE hot = NoEdge
    <3> HIDE DEF record
    <3>1. OwnersStay(s, [s EXCEPT !.owner[record] = NoRecord])
      BY <1>2, DisownStays DEF WithOwner
    <3> QED BY <2>3, <3>1, SameOwners
  <2> QED BY <2>2, <2>3
<1>5. /\ UncoupleOutrec(s1, record) = s3
      /\ t = s3 \/ t = [s3 EXCEPT !.owner[record] = GetRealOutrec(s3, owner)]
  BY DEF CloseRecord, UncoupleOutrec, SetSides, WithOutrecs
<1> HIDE DEF s1, t
<1>6. /\ StateType(s1) /\ record \in 1 .. Len(s1.front)
      /\ front = s.front[record] /\ back = s.back[record]
  BY <1>2, <1>3 DEF OwnersOnly, SameButRecords, TablesKept
<1> HIDE DEF front, back, record
<1>7. Renamed(s1, s2, front, back, NoRecord, NoRecord)
  <2>1. front \in Edge /\ back \in Edge /\ NoRecord \in 0 .. Len(s1.front)
    BY <1>2, <1>6, TableLength
  <2> QED BY <1>6, <2>1, OutrecsWritten
<1> HIDE DEF s2
<1>8. StateType(s2) /\ record \in 1 .. Len(s2.front)
  BY <1>6, <1>7 DEF Renamed, SameButRecords, TablesKept
<1>9. /\ SameButRecords(s2, s3) /\ SameOutrecs(s2, s3) /\ s3.owner = s2.owner
      /\ Len(s3.front) = Len(s2.front) /\ s3.has_points = s2.has_points
      /\ \A k \in 1 .. Len(s2.front) :
           /\ s3.front[k] = IF k = record THEN NoEdge ELSE s2.front[k]
           /\ s3.back[k] = IF k = record THEN NoEdge ELSE s2.back[k]
  BY <1>8, SidesCleared
<1> HIDE DEF s3
<1>10. OwnersStay(s3, t)
  <2>1. StateType(s3) /\ record \in 1 .. Len(s3.front)
    BY <1>8, <1>9 DEF SameButRecords
  <2>2. OwnersStay(s3, [s3 EXCEPT !.owner[record] = GetRealOutrec(s3, @)])
    BY <2>1, RealStays
  <2>3. [s3 EXCEPT !.owner[record] = GetRealOutrec(s3, @)]
          = [s3 EXCEPT !.owner[record] = GetRealOutrec(s3, owner)]
    BY <2>1 DEF StateType
  <2> HIDE DEF owner
  <2> QED BY <1>5, <2>2, <2>3, SameOwners
<1>11. OwnersOnly(s3, t)
  <2>1. StateType(s3)
    BY <1>9 DEF SameButRecords
  <2> HIDE DEF owner
  <2>2. OwnersOnly(s3, s3) /\ OwnersOnly(s3, [s3 EXCEPT !.owner[record] = GetRealOutrec(s3, owner)])
    BY <2>1, OwnersWritten, OwnersReflexive
  <2> QED BY <1>5, <2>2, Zenon
<1>12. SameButRecords(s, t)
  <2>1. SameButRecords(s, s1) /\ SameButRecords(s1, s2) /\ SameButRecords(s3, t)
    BY <1>3, <1>7, <1>11 DEF OwnersOnly, Renamed
  <2> QED BY <1>9, <2>1, SameButTransitive
<1>13. \A x \in Edge : t.edge[x].outrec = IF x \in {d, e} THEN NoRecord ELSE s.edge[x].outrec
  <2>1. {front, back} = {d, e}
    BY <1>2, <1>6
  <2>2. \A x \in Edge : t.edge[x].outrec = IF x \in {front, back} THEN NoRecord ELSE s.edge[x].outrec
    BY <1>3, <1>7, <1>9, <1>11 DEF OwnersOnly, SameOutrecs, Renamed
  <2> QED BY <2>1, <2>2
<1>14. /\ s2.front = s.front /\ s2.back = s.back /\ s2.has_points = s.has_points
       /\ t.front = s3.front /\ t.back = s3.back /\ t.has_points = s3.has_points
  BY <1>3, <1>7, <1>11 DEF OwnersOnly, TablesKept, Renamed
<1>15. OwnersStay(s, t)
  <2>1. OwnersStay(s1, s2)
    BY <1>7, SameOwners DEF Renamed, TablesKept
  <2>2. OwnersStay(s2, s3)
    BY <1>9, SameOwners
  <2> QED BY <1>4, <1>10, <2>1, <2>2 DEF OwnersStay
<1>16. Closed(s, t, d, e)
  BY <1>9, <1>12, <1>13, <1>14, <1>15 DEF Closed, record
<1> QED BY <1>16 DEF t

LEMMA CloseDraws ==
  ASSUME NEW s, StateType(s), Coupled(s), NEW d \in Edge, NEW e \in Edge,
         IsHot(s, d), s.edge[d].outrec = s.edge[e].outrec, ~(IsFront(s, d) <=> IsFront(s, e)),
         NEW t, Closed(s, t, d, e)
  PROVE  Redrawn(s, t, {d, e}) /\ ~IsHot(t, d) /\ ~IsHot(t, e)
<1> DEFINE record == s.edge[d].outrec
<1>1. IsHot(s, e) /\ Len(s.front) \in Nat
  BY TableLength DEF IsHot
<1>2. /\ record \in 1 .. Len(s.front) /\ s.front[record] \in Edge /\ s.back[record] \in Edge
      /\ {s.front[record], s.back[record]} = {d, e}
  BY <1>1, HotSide
<1>3. /\ SameButRecords(s, t) /\ Len(t.front) = Len(s.front) /\ t.has_points = s.has_points
      /\ OwnersStay(s, t)
      /\ \A k \in 1 .. Len(s.front) :
           /\ t.front[k] = IF k = record THEN NoEdge ELSE s.front[k]
           /\ t.back[k] = IF k = record THEN NoEdge ELSE s.back[k]
      /\ \A x \in Edge : t.edge[x].outrec = IF x \in {d, e} THEN NoRecord ELSE s.edge[x].outrec
  BY DEF Closed
<1>4. Active(t) = Active(s)
  BY <1>3 DEF SameButRecords, Active
<1>5. ~IsHot(t, d) /\ ~IsHot(t, e)
  BY <1>3 DEF IsHot
\* The other edges are sides of other records.
<1>6. ASSUME NEW x \in Edge \ {d, e}, IsHot(s, x)
      PROVE  /\ s.edge[x].outrec \in 1 .. Len(s.front) /\ s.edge[x].outrec # record
             /\ HoldsSide(s, x)
  <2>1. s.edge[x].outrec \in 1 .. Len(s.front) /\ HoldsSide(s, x)
    BY <1>6, HotRecord DEF Coupled
  <2> QED BY <1>2, <2>1 DEF HoldsSide
<1> HIDE DEF record
<1>7. ASSUME NEW x \in Edge \ {d, e}
      PROVE  SameSide(s, t, x) /\ (IsHot(t, x) => HoldsSide(t, x))
  <2>1. t.edge[x].outrec = s.edge[x].outrec
    BY <1>3
  <2>2. IsHot(t, x) <=> IsHot(s, x)
    BY <2>1 DEF IsHot
  <2>3. IsHot(s, x) => /\ t.front[t.edge[x].outrec] = s.front[s.edge[x].outrec]
                       /\ t.back[t.edge[x].outrec] = s.back[s.edge[x].outrec]
                       /\ HoldsSide(s, x)
    BY <1>3, <1>6, <2>1
  <2> QED BY <1>4, <2>2, <2>3 DEF SameSide, IsFront, HoldsSide
<1>8. ASSUME NEW k \in 1 .. Len(t.front) PROVE RecordClosed(t, k) \/ RecordOpen(t, k)
  <2>0. k \in 1 .. Len(s.front)
    BY <1>3
  <2>1. CASE k = record
    BY <1>3, <2>0, <2>1 DEF RecordClosed
  <2>2. CASE k # record /\ RecordClosed(s, k)
    BY <1>3, <2>0, <2>2 DEF RecordClosed
  <2>3. CASE k # record /\ RecordOpen(s, k)
    <3>1. s.front[k] \in Edge /\ s.back[k] \in Edge
      BY <2>0, <2>3, SideType DEF RecordOpen, MaybeEdge
    <3>2. s.front[k] \notin {d, e} /\ s.back[k] \notin {d, e}
      BY <2>3 DEF RecordOpen, record
    <3>3. t.edge[s.front[k]].outrec = k /\ t.edge[s.back[k]].outrec = k
      BY <1>3, <2>3, <3>1, <3>2 DEF RecordOpen
    <3>4. t.front[k] = s.front[k] /\ t.back[k] = s.back[k]
      BY <1>3, <2>0, <2>3
    <3> QED BY <1>3, <2>3, <3>3, <3>4 DEF RecordOpen
  <2> QED BY <2>0, <2>1, <2>2, <2>3 DEF Coupled
<1>9. Coupled(t)
  BY <1>5, <1>7, <1>8 DEF Coupled
<1>10. RecordsStay(s, t)
  <2>1. ASSUME NEW k \in 1 .. Len(s.front), s.front[k] = NoEdge PROVE RecordClosed(t, k)
    <3>1. RecordClosed(s, k)
      BY <2>1 DEF Coupled, RecordOpen
    <3> QED BY <1>3, <3>1 DEF RecordClosed
  <2> QED BY <1>1, <1>3, <2>1 DEF RecordsStay
<1> QED BY <1>3, <1>5, <1>7, <1>9, <1>10 DEF Redrawn

-----------------------------------------------------------------------------
(* Two edges of different records meet, and the first record takes over    *)
(* the other side of the second.                                           *)

\* The edge that keeps the side of d when the records are joined.
Heir(s, d, e) ==
  IF IsFront(s, d) THEN s.front[s.edge[e].outrec] ELSE s.back[s.edge[e].outrec]

Merged(s, t, d, e) ==
  LET q == s.edge[d].outrec
      r == s.edge[e].outrec
      heir == Heir(s, d, e)
  IN  /\ SameButRecords(s, t) /\ Len(t.front) = Len(s.front) /\ OwnersStay(s, t)
      /\ \A k \in 1 .. Len(s.front) :
           /\ t.front[k] = IF k = r THEN NoEdge
                           ELSE IF k = q /\ IsFront(s, d) THEN heir ELSE s.front[k]
           /\ t.back[k] = IF k = r THEN NoEdge
                          ELSE IF k = q /\ ~IsFront(s, d) THEN heir ELSE s.back[k]
           /\ k # r => t.has_points[k] = s.has_points[k]
      /\ \A x \in Edge : t.edge[x].outrec = IF x \in {d, e} THEN NoRecord
                                            ELSE IF x = heir THEN q ELSE s.edge[x].outrec
      /\ ~t.has_points[r]

\* One side of one record is rewritten.
LEMMA SideWritten ==
  ASSUME NEW s, StateType(s), NEW r \in 1 .. Len(s.front), NEW e \in MaybeEdge
  PROVE  /\ LET t == [s EXCEPT !.front[r] = e]
            IN  /\ SameButRecords(s, t) /\ SameOutrecs(s, t) /\ Len(t.front) = Len(s.front)
                /\ t.back = s.back /\ t.has_points = s.has_points
                /\ \A k \in 1 .. Len(s.front) : t.front[k] = IF k = r THEN e ELSE s.front[k]
         /\ LET t == [s EXCEPT !.back[r] = e]
            IN  /\ SameButRecords(s, t) /\ SameOutrecs(s, t)
                /\ t.front = s.front /\ t.has_points = s.has_points
                /\ \A k \in 1 .. Len(s.front) : t.back[k] = IF k = r THEN e ELSE s.back[k]
<1> DEFINE f == [s EXCEPT !.front[r] = e]
           b == [s EXCEPT !.back[r] = e]
<1>1. StateType(f) /\ Len(f.front) = Len(s.front) /\ StateType(b)
  BY FrontType, BackType
<1>2. /\ f.actives = s.actives /\ f.cliptype = s.cliptype /\ f.fillrule = s.fillrule
      /\ f.succeeded = s.succeeded /\ f.edge = s.edge
      /\ f.front = [s.front EXCEPT ![r] = e] /\ f.back = s.back /\ f.has_points = s.has_points
  BY DEF StateType
<1>3. /\ b.actives = s.actives /\ b.cliptype = s.cliptype /\ b.fillrule = s.fillrule
      /\ b.succeeded = s.succeeded /\ b.edge = s.edge
      /\ b.back = [s.back EXCEPT ![r] = e] /\ b.front = s.front /\ b.has_points = s.has_points
  BY DEF StateType
<1> HIDE DEF f, b
<1>4. /\ s.front \in Seq(MaybeEdge) /\ s.back \in Seq(MaybeEdge) /\ Len(s.back) = Len(s.front)
  BY DEF StateType, MaybeEdge
<1>5. \A k \in 1 .. Len(s.front) : f.front[k] = IF k = r THEN e ELSE s.front[k]
  BY <1>2, <1>4
<1>6. \A k \in 1 .. Len(s.front) : b.back[k] = IF k = r THEN e ELSE s.back[k]
  BY <1>3, <1>4
<1>7. SameButRecords(s, f) /\ SameOutrecs(s, f)
  BY <1>1, <1>2 DEF SameButRecords, LabelKept, SameOutrecs
<1>8. SameButRecords(s, b) /\ SameOutrecs(s, b)
  BY <1>1, <1>3 DEF SameButRecords, LabelKept, SameOutrecs
<1> QED BY <1>1, <1>2, <1>3, <1>5, <1>6, <1>7, <1>8 DEF f, b

LEMMA RecordEmptied ==
  ASSUME NEW s, StateType(s), NEW record \in 1 .. Len(s.front)
  PROVE  LET t == EmptyRecord(s, record)
         IN  /\ SameButRecords(s, t) /\ SameOutrecs(s, t) /\ t.owner = s.owner
             /\ Len(t.front) = Len(s.front) /\ ~t.has_points[record]
             /\ \A r \in 1 .. Len(s.front) :
                  /\ t.front[r] = IF r = record THEN NoEdge ELSE s.front[r]
                  /\ t.back[r] = IF r = record THEN NoEdge ELSE s.back[r]
                  /\ r # record => t.has_points[r] = s.has_points[r]
<1> DEFINE t == EmptyRecord(s, record)
<1>1. StateType(t)
  BY EmptyRecordType
<1>2. /\ t.actives = s.actives /\ t.cliptype = s.cliptype /\ t.fillrule = s.fillrule
      /\ t.succeeded = s.succeeded /\ t.edge = s.edge /\ t.owner = s.owner
      /\ t.front = [s.front EXCEPT ![record] = NoEdge]
      /\ t.back = [s.back EXCEPT ![record] = NoEdge]
      /\ t.has_points = [s.has_points EXCEPT ![record] = FALSE]
  BY DEF StateType, EmptyRecord
<1> HIDE DEF t
<1>3. SameButRecords(s, t) /\ SameOutrecs(s, t)
  BY <1>1, <1>2 DEF SameButRecords, LabelKept, SameOutrecs
<1>4. /\ s.front \in Seq(MaybeEdge) /\ s.back \in Seq(MaybeEdge) /\ Len(s.back) = Len(s.front)
      /\ s.has_points \in Seq(BOOLEAN) /\ Len(s.has_points) = Len(s.front) /\ NoEdge \in MaybeEdge
  BY DEF StateType, MaybeEdge
<1>5. /\ Len(t.front) = Len(s.front)
      /\ \A r \in 1 .. Len(s.front) :
           /\ t.front[r] = IF r = record THEN NoEdge ELSE s.front[r]
           /\ t.back[r] = IF r = record THEN NoEdge ELSE s.back[r]
  BY <1>2, <1>4
<1>6. DOMAIN s.has_points = 1 .. Len(s.front)
  BY <1>4
<1>7. t.has_points[record] = FALSE
  BY <1>2, <1>6, Zenon
<1>8. \A r \in 1 .. Len(s.front) : r # record => t.has_points[r] = s.has_points[r]
  BY <1>2, <1>6, Zenon
<1> QED BY <1>2, <1>3, <1>5, <1>7, <1>8 DEF t

\* What is known of the records of two edges on opposite sides.
LEMMA OppositeSides ==
  ASSUME NEW s, StateType(s), Coupled(s), NEW d \in Edge, NEW e \in Edge,
         IsHot(s, d), IsHot(s, e), s.edge[d].outrec # s.edge[e].outrec,
         ~(IsFront(s, d) <=> IsFront(s, e))
  PROVE  LET q == s.edge[d].outrec
             r == s.edge[e].outrec
             heir == Heir(s, d, e)
         IN  /\ q \in 1 .. Len(s.front) /\ r \in 1 .. Len(s.front)
             /\ RecordOpen(s, q) /\ RecordOpen(s, r)
             /\ heir \in Edge /\ heir \notin {d, e} /\ s.edge[heir].outrec = r
             /\ IsFront(s, d) => s.front[q] = d /\ s.back[q] \in Edge
                                 /\ s.front[r] = heir /\ s.back[r] = e
             /\ ~IsFront(s, d) => s.back[q] = d /\ s.front[q] \in Edge
                                  /\ s.back[r] = heir /\ s.front[r] = e
<1> DEFINE q == s.edge[d].outrec
           r == s.edge[e].outrec
           heir == Heir(s, d, e)
<1>1. /\ q \in 1 .. Len(s.front) /\ RecordOpen(s, q) /\ s.front[q] \in Edge /\ s.back[q] \in Edge
      /\ IsFront(s, d) => s.front[q] = d
      /\ ~IsFront(s, d) => s.back[q] = d
  BY HotSide
<1>2. /\ r \in 1 .. Len(s.front) /\ RecordOpen(s, r) /\ s.front[r] \in Edge /\ s.back[r] \in Edge
      /\ IsFront(s, e) => s.front[r] = e
      /\ ~IsFront(s, e) => s.back[r] = e
  BY HotSide
<1>3. heir = IF IsFront(s, d) THEN s.front[r] ELSE s.back[r]
  BY DEF Heir
<1> HIDE DEF q, r, heir
<1>4. heir \in Edge /\ s.edge[heir].outrec = r /\ heir # e
  BY <1>2, <1>3 DEF RecordOpen
<1>5. heir # d
  BY <1>4 DEF q, r
<1> QED BY <1>1, <1>2, <1>3, <1>4, <1>5 DEF q, r, heir

LEMMA RecordsMerge ==
  ASSUME NEW s, StateType(s), Coupled(s), NEW d \in Edge, NEW e \in Edge,
         IsHot(s, d), IsHot(s, e), s.edge[d].outrec # s.edge[e].outrec,
         ~(IsFront(s, d) <=> IsFront(s, e))
  PROVE  Merged(s, JoinOutrecPaths(s, d, e), d, e)
<1> DEFINE q == s.edge[d].outrec
           r == s.edge[e].outrec
           heir == Heir(s, d, e)
           s1 == IF IsFront(s, d) THEN [s EXCEPT !.front[q] = heir] ELSE [s EXCEPT !.back[q] = heir]
           s2 == [s1 EXCEPT !.edge[heir].outrec = q]
           s3 == EmptyRecord(s2, r)
           s4 == SetOwner(s3, r, q)
           t == WithOutrecs(s4, d, e, NoRecord, NoRecord)
<1>1. /\ q \in 1 .. Len(s.front) /\ r \in 1 .. Len(s.front)
      /\ heir \in Edge /\ heir \notin {d, e} /\ heir \in MaybeEdge
      /\ q \in 0 .. Len(s.front)
  BY OppositeSides DEF MaybeEdge
<1>2. InheritSide(s, d, e) = s2
  <2>1. heir # NoEdge
    BY <1>1, ActiveEdgesAssumption
  <2> QED BY <2>1 DEF InheritSide, Heir
<1>3. JoinOutrecPaths(s, d, e) = t
  BY <1>2 DEF JoinOutrecPaths, WithOutrecs
<1> HIDE DEF q, r, heir
<1>4. /\ SameButRecords(s, s1) /\ SameOutrecs(s, s1) /\ Len(s1.front) = Len(s.front)
      /\ s1.has_points = s.has_points /\ s1.owner = s.owner
      /\ \A k \in 1 .. Len(s.front) :
           /\ s1.front[k] = IF k = q /\ IsFront(s, d) THEN heir ELSE s.front[k]
           /\ s1.back[k] = IF k = q /\ ~IsFront(s, d) THEN heir ELSE s.back[k]
  <2> DEFINE f == [s EXCEPT !.front[q] = heir]
             b == [s EXCEPT !.back[q] = heir]
  <2>1. /\ SameButRecords(s, f) /\ SameOutrecs(s, f) /\ Len(f.front) = Len(s.front)
        /\ f.back = s.back /\ f.has_points = s.has_points
        /\ \A k \in 1 .. Len(s.front) : f.front[k] = IF k = q THEN heir ELSE s.front[k]
    BY <1>1, SideWritten, ZenonT(30)
  <2>2. /\ SameButRecords(s, b) /\ SameOutrecs(s, b)
        /\ b.front = s.front /\ b.has_points = s.has_points
        /\ \A k \in 1 .. Len(s.front) : b.back[k] = IF k = q THEN heir ELSE s.back[k]
    BY <1>1, SideWritten, ZenonT(30)
  <2>3. f.owner = s.owner /\ b.owner = s.owner
    BY DEF StateType
  <2>4. s1 = IF IsFront(s, d) THEN f ELSE b
    OBVIOUS
  <2> HIDE DEF f, b, s1
  <2>5. CASE IsFront(s, d)
    BY <2>1, <2>3, <2>4, <2>5
  <2>6. CASE ~IsFront(s, d)
    BY <2>2, <2>3, <2>4, <2>6
  <2> QED BY <2>5, <2>6
<1> HIDE DEF s1
<1>5. /\ SameButRecords(s1, s2) /\ TablesKept(s1, s2) /\ s2.owner = s1.owner
      /\ \A x \in Edge : s2.edge[x].outrec = IF x = heir THEN q ELSE s1.edge[x].outrec
  <2>1. StateType(s1) /\ q \in 0 .. Len(s1.front)
    BY <1>1, <1>4 DEF SameButRecords
  <2> QED BY <1>1, <2>1, OutrecWritten
<1> HIDE DEF s2
<1>6. /\ SameButRecords(s2, s3) /\ SameOutrecs(s2, s3) /\ s3.owner = s2.owner
      /\ Len(s3.front) = Len(s2.front) /\ ~s3.has_points[r]
      /\ \A k \in 1 .. Len(s2.front) :
           /\ s3.front[k] = IF k = r THEN NoEdge ELSE s2.front[k]
           /\ s3.back[k] = IF k = r THEN NoEdge ELSE s2.back[k]
           /\ k # r => s3.has_points[k] = s2.has_points[k]
  <2>1. StateType(s2) /\ r \in 1 .. Len(s2.front)
    BY <1>1, <1>4, <1>5 DEF SameButRecords, TablesKept
  <2> QED BY <2>1, RecordEmptied
<1> HIDE DEF s3
<1>7. OwnersOnly(s3, s4)
  <2>1. StateType(s3)
    BY <1>6 DEF SameButRecords
  <2> QED BY <2>1, OwnersWritten
<1>8. OwnersStay(s3, s4)
  <2>1. StateType(s3) /\ Len(s3.front) = Len(s.front)
    BY <1>4, <1>5, <1>6 DEF SameButRecords, TablesKept
  <2>2. r # q
    BY DEF q, r
  <2> QED BY <1>1, <2>1, <2>2, SetOwnerStays
<1> HIDE DEF s4
<1>9. Renamed(s4, t, d, e, NoRecord, NoRecord)
  <2>1. StateType(s4)
    BY <1>7 DEF OwnersOnly, SameButRecords
  <2>2. NoRecord \in 0 .. Len(s4.front)
    BY <2>1, TableLength
  <2> QED BY <2>1, <2>2, OutrecsWritten
<1> HIDE DEF t
<1>10. SameButRecords(s, t)
  <2>1. SameButRecords(s, s2)
    BY <1>4, <1>5, SameButTransitive
  <2>2. SameButRecords(s, s3)
    BY <1>6, <2>1, SameButTransitive
  <2>3. SameButRecords(s, s4)
    BY <1>7, <2>2, SameButTransitive DEF OwnersOnly
  <2> QED BY <1>9, <2>3, SameButTransitive DEF Renamed
<1>11. /\ t.front = s3.front /\ t.back = s3.back /\ t.has_points = s3.has_points
       /\ s2.front = s1.front /\ s2.back = s1.back /\ s2.has_points = s.has_points
  BY <1>4, <1>5, <1>7, <1>9 DEF OwnersOnly, Renamed, TablesKept
<1>12. \A x \in Edge : t.edge[x].outrec = IF x \in {d, e} THEN NoRecord
                                          ELSE IF x = heir THEN q ELSE s.edge[x].outrec
  BY <1>4, <1>5, <1>6, <1>7, <1>9 DEF OwnersOnly, Renamed, SameOutrecs
<1>13. \A k \in 1 .. Len(s.front) :
         /\ t.front[k] = IF k = r THEN NoEdge
                         ELSE IF k = q /\ IsFront(s, d) THEN heir ELSE s.front[k]
         /\ t.back[k] = IF k = r THEN NoEdge
                        ELSE IF k = q /\ ~IsFront(s, d) THEN heir ELSE s.back[k]
         /\ k # r => t.has_points[k] = s.has_points[k]
  BY <1>4, <1>6, <1>11
<1>14. Len(t.front) = Len(s.front) /\ ~t.has_points[r]
  BY <1>4, <1>6, <1>11
<1>15. OwnersStay(s, t)
  <2>1. s3.owner = s.owner /\ Len(s3.front) = Len(s.front)
    BY <1>4, <1>5, <1>6 DEF TablesKept
  <2>2. OwnersStay(s, s3)
    BY <2>1, SameOwners
  <2>3. OwnersStay(s4, t)
    BY <1>9, SameOwners DEF Renamed, TablesKept
  <2> QED BY <1>8, <2>2, <2>3 DEF OwnersStay
<1>16. Merged(s, t, d, e)
  BY <1>10, <1>12, <1>13, <1>14, <1>15 DEF Merged, q, r, heir
<1> QED BY <1>3, <1>16

LEMMA MergeDraws ==
  ASSUME NEW s, StateType(s), Coupled(s), NEW d \in Edge, NEW e \in Edge,
         IsHot(s, d), IsHot(s, e), s.edge[d].outrec # s.edge[e].outrec,
         ~(IsFront(s, d) <=> IsFront(s, e)), NEW t, Merged(s, t, d, e)
  PROVE  Redrawn(s, t, {d, e}) /\ ~IsHot(t, d) /\ ~IsHot(t, e)
<1> DEFINE q == s.edge[d].outrec
           r == s.edge[e].outrec
           heir == Heir(s, d, e)
<1>1. /\ q \in 1 .. Len(s.front) /\ r \in 1 .. Len(s.front) /\ q # r
      /\ RecordOpen(s, q) /\ RecordOpen(s, r)
      /\ heir \in Edge /\ heir \notin {d, e} /\ s.edge[heir].outrec = r
      /\ IsFront(s, d) => s.front[q] = d /\ s.back[q] \in Edge /\ s.front[r] = heir /\ s.back[r] = e
      /\ ~IsFront(s, d) => s.back[q] = d /\ s.front[q] \in Edge /\ s.back[r] = heir /\ s.front[r] = e
  BY OppositeSides
<1>2. /\ SameButRecords(s, t) /\ Len(t.front) = Len(s.front) /\ ~t.has_points[r] /\ OwnersStay(s, t)
      /\ \A k \in 1 .. Len(s.front) :
           /\ t.front[k] = IF k = r THEN NoEdge
                           ELSE IF k = q /\ IsFront(s, d) THEN heir ELSE s.front[k]
           /\ t.back[k] = IF k = r THEN NoEdge
                          ELSE IF k = q /\ ~IsFront(s, d) THEN heir ELSE s.back[k]
           /\ k # r => t.has_points[k] = s.has_points[k]
      /\ \A x \in Edge : t.edge[x].outrec = IF x \in {d, e} THEN NoRecord
                                            ELSE IF x = heir THEN q ELSE s.edge[x].outrec
  BY DEF Merged
<1>3. Active(t) = Active(s) /\ Len(s.front) \in Nat /\ NoEdge \notin Edge
  BY <1>2, TableLength, ActiveEdgesAssumption DEF SameButRecords, Active
<1>4. s.edge[d].outrec = q /\ s.edge[e].outrec = r
  OBVIOUS
<1> HIDE DEF q, r, heir
<1>5. ~IsHot(t, d) /\ ~IsHot(t, e)
  BY <1>2 DEF IsHot
<1>6. heir \in Active(s) /\ IsHot(s, heir)
  <2>1. IsHot(s, heir)
    BY <1>1 DEF IsHot, NoRecord
  <2> QED BY <1>1, <2>1 DEF Coupled, HoldsSide
\* The edges that hold sides of the two records.
<1>7. ASSUME NEW x \in Edge \ {d, e}, x # heir, IsHot(s, x)
      PROVE  /\ s.edge[x].outrec \in 1 .. Len(s.front) /\ s.edge[x].outrec # r
             /\ HoldsSide(s, x)
  <2>1. s.edge[x].outrec \in 1 .. Len(s.front) /\ HoldsSide(s, x)
    BY <1>7, HotRecord DEF Coupled
  <2>2. x \notin {s.front[r], s.back[r]}
    BY <1>1, <1>7
  <2> QED BY <2>1, <2>2 DEF HoldsSide
<1>8. SameSide(s, t, heir) /\ HoldsSide(t, heir)
  <2>1. t.edge[heir].outrec = q
    BY <1>1, <1>2
  <2>2. IsHot(t, heir)
    BY <1>1, <2>1 DEF IsHot, NoRecord
  <2>3. CASE IsFront(s, d)
    <3>1. t.front[q] = heir /\ s.front[r] = heir
      BY <1>1, <1>2, <2>3
    <3> QED BY <1>1, <1>3, <1>6, <2>1, <2>2, <3>1 DEF SameSide, IsFront, HoldsSide
  <2>4. CASE ~IsFront(s, d)
    <3>1. /\ t.front[q] = s.front[q] /\ t.back[q] = heir /\ s.front[r] = e
          /\ s.edge[s.front[q]].outrec = q
      BY <1>1, <1>2, <2>4 DEF RecordOpen
    <3>2. t.front[q] # heir /\ s.front[r] # heir
      BY <1>1, <3>1
    <3> QED BY <1>1, <1>3, <1>6, <2>1, <2>2, <3>1, <3>2 DEF SameSide, IsFront, HoldsSide
  <2> QED BY <2>3, <2>4
<1>9. ASSUME NEW x \in Edge \ {d, e}, x # heir
      PROVE  SameSide(s, t, x) /\ (IsHot(t, x) => HoldsSide(t, x))
  <2>1. t.edge[x].outrec = s.edge[x].outrec
    BY <1>2, <1>9
  <2>2. IsHot(t, x) <=> IsHot(s, x)
    BY <2>1 DEF IsHot
  <2>3. CASE ~IsHot(s, x)
    BY <2>2, <2>3 DEF SameSide, IsFront
  <2>4. CASE IsHot(s, x) /\ s.edge[x].outrec # q
    <3>1. /\ t.front[t.edge[x].outrec] = s.front[s.edge[x].outrec]
          /\ t.back[t.edge[x].outrec] = s.back[s.edge[x].outrec]
          /\ HoldsSide(s, x)
      BY <1>2, <1>7, <1>9, <2>1, <2>4
    <3> QED BY <1>3, <2>2, <3>1 DEF SameSide, IsFront, HoldsSide
  <2>5. CASE IsHot(s, x) /\ s.edge[x].outrec = q
    <3>1. HoldsSide(s, x) /\ x \in {s.front[q], s.back[q]} /\ x \in Active(s)
      BY <1>7, <1>9, <2>5 DEF HoldsSide
    <3>2. CASE IsFront(s, d)
      <4>1. x = s.back[q] /\ t.back[q] = s.back[q] /\ t.front[q] = heir /\ s.front[q] = d
        BY <1>1, <1>2, <3>1, <3>2
      <4> QED BY <1>3, <1>9, <2>1, <2>2, <2>5, <3>1, <4>1 DEF SameSide, IsFront, HoldsSide
    <3>3. CASE ~IsFront(s, d)
      <4>1. x = s.front[q] /\ t.front[q] = s.front[q]
        BY <1>1, <1>2, <3>1, <3>3
      <4> QED BY <1>3, <2>1, <2>2, <2>5, <3>1, <4>1 DEF SameSide, IsFront, HoldsSide
    <3> QED BY <3>2, <3>3
  <2> QED BY <2>3, <2>4, <2>5
<1>10. ASSUME NEW k \in 1 .. Len(t.front) PROVE RecordClosed(t, k) \/ RecordOpen(t, k)
  <2>0. k \in 1 .. Len(s.front)
    BY <1>2
  <2>1. CASE k = r
    BY <1>2, <2>0, <2>1 DEF RecordClosed
  <2>2. CASE k = q
    <3>1. t.edge[heir].outrec = q /\ heir # NoEdge /\ t.has_points[q]
      BY <1>1, <1>2, <1>3 DEF RecordOpen
    <3>2. CASE IsFront(s, d)
      <4> DEFINE x == s.back[q]
      <4>1. t.front[q] = heir /\ t.back[q] = x /\ x \in Edge /\ s.edge[x].outrec = q /\ x # d
        BY <1>1, <1>2, <3>2 DEF RecordOpen
      <4>2. x # heir /\ x # e
        BY <1>1, <1>4, <4>1
      <4>3. t.edge[x].outrec = q /\ x # NoEdge
        BY <1>2, <1>3, <4>1, <4>2
      <4> QED BY <2>2, <3>1, <4>1, <4>2, <4>3 DEF RecordOpen
    <3>3. CASE ~IsFront(s, d)
      <4> DEFINE x == s.front[q]
      <4>1. t.back[q] = heir /\ t.front[q] = x /\ x \in Edge /\ s.edge[x].outrec = q /\ x # d
        BY <1>1, <1>2, <3>3 DEF RecordOpen
      <4>2. x # heir /\ x # e
        BY <1>1, <1>4, <4>1
      <4>3. t.edge[x].outrec = q /\ x # NoEdge
        BY <1>2, <1>3, <4>1, <4>2
      <4> QED BY <2>2, <3>1, <4>1, <4>2, <4>3 DEF RecordOpen
    <3> QED BY <3>2, <3>3
  <2>3. CASE k \notin {q, r} /\ RecordClosed(s, k)
    BY <1>2, <2>0, <2>3 DEF RecordClosed
  <2>4. CASE k \notin {q, r} /\ RecordOpen(s, k)
    <3>1. s.front[k] \in Edge /\ s.back[k] \in Edge
      BY <2>0, <2>4, SideType DEF RecordOpen, MaybeEdge
    <3>2. s.front[k] \notin {d, e, heir} /\ s.back[k] \notin {d, e, heir}
      BY <1>1, <1>4, <2>4 DEF RecordOpen
    <3>3. t.edge[s.front[k]].outrec = k /\ t.edge[s.back[k]].outrec = k
      BY <1>2, <2>4, <3>1, <3>2 DEF RecordOpen
    <3>4. t.front[k] = s.front[k] /\ t.back[k] = s.back[k] /\ t.has_points[k] = s.has_points[k]
      BY <1>2, <2>0, <2>4
    <3> QED BY <2>4, <3>3, <3>4 DEF RecordOpen
  <2> QED BY <2>0, <2>1, <2>2, <2>3, <2>4 DEF Coupled
<1>11. Coupled(t)
  BY <1>5, <1>8, <1>9, <1>10 DEF Coupled
<1>12. RecordsStay(s, t)
  <2>1. ASSUME NEW k \in 1 .. Len(s.front), s.front[k] = NoEdge PROVE RecordClosed(t, k)
    <3>1. RecordClosed(s, k)
      BY <2>1 DEF Coupled, RecordOpen
    <3>2. k # q
      BY <1>1, <2>1 DEF RecordOpen
    <3> QED BY <1>2, <3>1, <3>2 DEF RecordClosed
  <2>2. ASSUME NEW k \in 1 .. Len(s.front), ~s.has_points[k] PROVE ~t.has_points[k]
    BY <1>2, <2>2
  <2> QED BY <1>2, <1>3, <2>1, <2>2 DEF RecordsStay
<1> QED BY <1>2, <1>5, <1>8, <1>9, <1>11, <1>12 DEF Redrawn

\* Two hot edges on opposite sides meet: whichever branch is taken, both are
\* cold and the others keep their sides.
LEMMA MeetingDraws ==
  ASSUME NEW s, StateType(s), Coupled(s), NEW d \in Edge, NEW e \in Edge, LeftOf(s, d, e),
         IsHot(s, d), IsHot(s, e), ~(IsFront(s, d) <=> IsFront(s, e)),
         NEW t, \/ s.edge[d].outrec = s.edge[e].outrec /\ t = CloseRecord(s, d)
                \/ s.edge[d].outrec < s.edge[e].outrec /\ t = JoinOutrecPaths(s, d, e)
                \/ s.edge[d].outrec > s.edge[e].outrec /\ t = JoinOutrecPaths(s, e, d)
  PROVE  Redrawn(s, t, {d, e}) /\ ~IsHot(t, d) /\ ~IsHot(t, e)
<1>1. s.edge[d].outrec \in Nat /\ s.edge[e].outrec \in Nat
  BY HotRecord
<1>2. CASE s.edge[d].outrec = s.edge[e].outrec
  <2>1. t = CloseRecord(s, d)
    BY <1>1, <1>2
  <2> QED BY <1>2, <2>1, RecordCloses, CloseDraws
<1>3. CASE s.edge[d].outrec < s.edge[e].outrec
  <2>1. t = JoinOutrecPaths(s, d, e) /\ s.edge[d].outrec # s.edge[e].outrec
    BY <1>1, <1>3
  <2> QED BY <2>1, RecordsMerge, MergeDraws
<1>4. CASE s.edge[d].outrec > s.edge[e].outrec
  <2>1. t = JoinOutrecPaths(s, e, d) /\ s.edge[e].outrec # s.edge[d].outrec
    BY <1>1, <1>4
  <2>2. Redrawn(s, t, {e, d}) /\ ~IsHot(t, d) /\ ~IsHot(t, e)
    BY <2>1, RecordsMerge, MergeDraws
  <2>3. {e, d} = {d, e}
    OBVIOUS
  <2> QED BY <2>2, <2>3
<1> QED BY <1>1, <1>2, <1>3, <1>4

-----------------------------------------------------------------------------
(* The drawing: what the edges of the list must be, position by position,  *)
(* for the records to trace the boundary of the result.                    *)

JoinAt(s, i) == IF i \in 1 .. Count(s) THEN s.edge[s.actives[i]].join_with ELSE "NoJoin"

\* The clauses of HotEdgesBoundTheResult and FrontHasResultOnRight at a position.
DrawnAt(s, i) ==
  LET e == s.actives[i]
  IN  /\ (IsHot(s, e) \/ IsJoined(s, e)) <=> ~(InResult(s, i - 1) <=> InResult(s, i))
      /\ IsHot(s, e) => (IsFront(s, e) <=> InResult(s, i))

\* The clause of JoinsPaired.
PairedAt(s, i) ==
  /\ JoinAt(s, i) = "Right" <=> JoinAt(s, i + 1) = "Left"
  /\ JoinAt(s, i) = "Left" => i > 1
  /\ IsJoined(s, s.actives[i]) => ~IsHot(s, s.actives[i])

DrawnUpTo(s, n) == \A k \in 1 .. n : DrawnAt(s, k) /\ PairedAt(s, k)

InResultOf(cliptype, subject, clip) ==
  CASE cliptype = "Intersection" -> subject /\ clip
    [] cliptype = "Union"        -> subject \/ clip
    [] cliptype = "Difference"   -> subject /\ ~clip
    [] cliptype = "Xor"          -> ~(subject <=> clip)

LEMMA FilledIsBoolean ==
  ASSUME NEW fillrule \in {"EvenOdd", "NonZero", "Positive", "Negative"}, NEW n \in Int
  PROVE  Filled(fillrule, n) \in BOOLEAN
<1>1. CASE fillrule = "EvenOdd"
  BY <1>1 DEF Filled
<1>2. CASE fillrule = "NonZero"
  BY <1>2 DEF Filled
<1>3. CASE fillrule = "Positive"
  BY <1>3 DEF Filled
<1>4. CASE fillrule = "Negative"
  BY <1>4 DEF Filled
<1> QED BY <1>1, <1>2, <1>3, <1>4

LEMMA ResultOfFills ==
  ASSUME NEW s, StateType(s), NEW i \in 0 .. Count(s)
  PROVE  /\ InResult(s, i) \in BOOLEAN
         /\ InResult(s, i) <=> InResultOf(s.cliptype, Filled(s.fillrule, RegionWinding(s, i, "Subject")),
                                          Filled(s.fillrule, RegionWinding(s, i, "Clip")))
<1> DEFINE S == Filled(s.fillrule, RegionWinding(s, i, "Subject"))
           C == Filled(s.fillrule, RegionWinding(s, i, "Clip"))
<1>1. S \in BOOLEAN /\ C \in BOOLEAN
  <2>1. s.fillrule \in {"EvenOdd", "NonZero", "Positive", "Negative"}
    BY DEF StateType
  <2>2. RegionWinding(s, i, "Subject") \in Int /\ RegionWinding(s, i, "Clip") \in Int
    BY RegionStep
  <2> QED BY <2>1, <2>2, FilledIsBoolean
<1>2. InResult(s, i) = CASE s.cliptype = "Intersection" -> S /\ C
                         [] s.cliptype = "Union"        -> S \/ C
                         [] s.cliptype = "Difference"   -> S /\ ~C
                         [] s.cliptype = "Xor"          -> S # C
  BY DEF InResult
<1> HIDE DEF S, C
<1>3. s.cliptype \in {"Intersection", "Union", "Difference", "Xor"}
  BY DEF StateType
<1>4. /\ InResult(s, i) \in BOOLEAN
      /\ InResult(s, i) <=> InResultOf(s.cliptype, S, C)
  <2>1. CASE s.cliptype = "Intersection"
    BY <1>1, <1>2, <2>1 DEF InResultOf
  <2>2. CASE s.cliptype = "Union"
    BY <1>1, <1>2, <2>2 DEF InResultOf
  <2>3. CASE s.cliptype = "Difference"
    BY <1>1, <1>2, <2>3 DEF InResultOf
  <2>4. CASE s.cliptype = "Xor"
    BY <1>1, <1>2, <2>4 DEF InResultOf
  <2> QED BY <1>3, <2>1, <2>2, <2>3, <2>4
<1> QED BY <1>4 DEF S, C

\* Nothing is left of the first edge.
LEMMA ResultStartsOutside ==
  ASSUME NEW s, StateType(s)
  PROVE  ~InResult(s, 0)
<1>1. 0 \in 0 .. Count(s) /\ RegionWinding(s, 0, "Subject") = 0 /\ RegionWinding(s, 0, "Clip") = 0
  BY ListDomain, RegionStep
<1>2. ~Filled(s.fillrule, 0)
  <2>1. s.fillrule \in {"EvenOdd", "NonZero", "Positive", "Negative"}
    BY DEF StateType
  <2>2. ~Filled("EvenOdd", 0) /\ ~Filled("NonZero", 0)
    BY DEF Filled
  <2>3. ~Filled("Positive", 0) /\ ~Filled("Negative", 0)
    BY DEF Filled
  <2> QED BY <2>1, <2>2, <2>3
<1>3. InResult(s, 0) <=> InResultOf(s.cliptype, Filled(s.fillrule, 0), Filled(s.fillrule, 0))
  BY <1>1, ResultOfFills
<1>4. s.cliptype \in {"Intersection", "Union", "Difference", "Xor"}
  BY DEF StateType
<1> QED BY <1>2, <1>3, <1>4 DEF InResultOf

\* The result is that of the list: what the edges carry does not matter.
SameStage(s, u) ==
  /\ u.actives = s.actives /\ u.cliptype = s.cliptype /\ u.fillrule = s.fillrule
  /\ SameBounds(s, u)

LEMMA SumsGiveResult ==
  ASSUME NEW s, StateType(s), NEW u, StateType(u), u.cliptype = s.cliptype, u.fillrule = s.fillrule,
         NEW i \in 0 .. Count(s), NEW j \in 0 .. Count(u),
         \A t \in {"Subject", "Clip"} : RegionWinding(u, j, t) = RegionWinding(s, i, t)
  PROVE  InResult(u, j) <=> InResult(s, i)
<1>1. /\ RegionWinding(u, j, "Subject") = RegionWinding(s, i, "Subject")
      /\ RegionWinding(u, j, "Clip") = RegionWinding(s, i, "Clip")
  OBVIOUS
<1>2. InResult(u, j) <=> InResultOf(u.cliptype, Filled(u.fillrule, RegionWinding(u, j, "Subject")),
                                    Filled(u.fillrule, RegionWinding(u, j, "Clip")))
  BY ResultOfFills
<1>3. InResult(s, i) <=> InResultOf(s.cliptype, Filled(s.fillrule, RegionWinding(s, i, "Subject")),
                                    Filled(s.fillrule, RegionWinding(s, i, "Clip")))
  BY ResultOfFills
<1> QED BY <1>1, <1>2, <1>3

LEMMA SameResult ==
  ASSUME NEW s, StateType(s), NEW u, StateType(u), SameStage(s, u)
  PROVE  /\ Count(u) = Count(s)
         /\ \A k \in 0 .. Count(s) : InResult(u, k) <=> InResult(s, k)
<1>1. Count(u) = Count(s) /\ Count(s) \in Nat
  BY ListDomain DEF SameStage, Count
<1>2. ASSUME NEW t \in {"Subject", "Clip"}
      PROVE  \A k \in 0 .. Count(s) : RegionWinding(u, k, t) = RegionWinding(s, k, t)
  <2>1. \A k \in 1 .. Count(s) : Term(u, k, t) = Term(s, k, t)
    BY EdgeOfPosition DEF Term, SameStage, SameBounds
  <2> QED BY <1>1, <2>1, SumsBefore
<1>3. \A k \in 0 .. Count(s) : InResult(u, k) <=> InResult(s, k)
  BY <1>1, <1>2, SumsGiveResult DEF SameStage
<1> QED BY <1>1, <1>3

-----------------------------------------------------------------------------
(* The hot edge on the left tells on which side of the result an edge      *)
(* stands.                                                                 *)

\* Between hot edges the result changes at the two edges of a joined pair only.
CarriedTo(s, q, k) ==
  IF JoinAt(s, k) = "Right" THEN ~(InResult(s, k) <=> InResult(s, q))
                            ELSE InResult(s, k) <=> InResult(s, q)

LEMMA JoinType ==
  ASSUME NEW s, StateType(s)
  PROVE  /\ \A k : JoinAt(s, k) \in {"NoJoin", "Left", "Right"}
         /\ \A k \in 1 .. Count(s) :
              /\ JoinAt(s, k) = s.edge[s.actives[k]].join_with
              /\ IsJoined(s, s.actives[k]) <=> JoinAt(s, k) # "NoJoin"
         /\ JoinAt(s, 0) = "NoJoin" /\ JoinAt(s, Count(s) + 1) = "NoJoin"
<1>1. Count(s) \in Nat
  BY ListDomain
<1>2. \A k \in 1 .. Count(s) : s.edge[s.actives[k]].join_with \in {"NoJoin", "Left", "Right"}
  <2>1. \A k \in 1 .. Count(s) : s.actives[k] \in Edge
    BY EdgeOfPosition
  <2>2. s.edge \in [Edge -> EdgeType]
    BY DEF StateType
  <2> QED BY <2>1, <2>2 DEF EdgeType, JoinStates
<1> QED BY <1>1, <1>2 DEF JoinAt, IsJoined

LEMMA Carried ==
  ASSUME NEW s, StateType(s), NEW i \in 1 .. Count(s), DrawnUpTo(s, i - 1),
         NEW q \in 0 .. i - 1, JoinAt(s, q) = "NoJoin",
         \A k \in q + 1 .. i - 1 : ~IsHot(s, s.actives[k])
  PROVE  \A k \in q .. i - 1 : CarriedTo(s, q, k)
<1> DEFINE T == {k \in q .. i - 1 : ~CarriedTo(s, q, k)}
<1>0. Count(s) \in Nat
  BY ListDomain
<1>1. SUFFICES ASSUME T # {} PROVE FALSE
  OBVIOUS
<1>2. T \subseteq Nat
  BY <1>0
<1>3. PICK n \in T : \A m \in T : n <= m
  <2> HIDE DEF T
  <2> QED BY <1>1, <1>2, Least
<1>4. n # q
  BY <1>3 DEF CarriedTo
<1> DEFINE p == n - 1
<1>5. n \in q + 1 .. i - 1 /\ p \in q .. i - 1 /\ n = p + 1 /\ p \in Nat /\ n \in 1 .. Count(s)
  BY <1>0, <1>3, <1>4
<1>6. CarriedTo(s, q, p)
  BY <1>3, <1>5
<1>7. DrawnAt(s, n) /\ ~IsHot(s, s.actives[n])
  BY <1>5 DEF DrawnUpTo
<1>8. /\ JoinAt(s, p) = "Right" <=> JoinAt(s, n) = "Left"
  <2>1. CASE p = 0
    <3>1. JoinAt(s, p) = "NoJoin"
      BY <2>1, JoinType
    <3>2. PairedAt(s, n) /\ n = 1
      BY <1>5, <2>1 DEF DrawnUpTo
    <3> QED BY <3>1, <3>2 DEF PairedAt
  <2>2. CASE p # 0
    <3>1. p \in 1 .. i - 1
      BY <1>5, <2>2
    <3>2. PairedAt(s, p)
      BY <3>1 DEF DrawnUpTo
    <3> QED BY <1>5, <3>2 DEF PairedAt
  <2> QED BY <2>1, <2>2
<1>9. JoinAt(s, n) # "NoJoin" <=> ~(InResult(s, p) <=> InResult(s, n))
  BY <1>5, <1>7, JoinType DEF DrawnAt
<1>10. JoinAt(s, n) \in {"NoJoin", "Left", "Right"}
  BY JoinType
<1>11. ~CarriedTo(s, q, n)
  BY <1>3
<1> QED BY <1>6, <1>8, <1>9, <1>10, <1>11 DEF CarriedTo

LEMMA PreviousHotSide ==
  ASSUME NEW s, StateType(s), IsInjective(s.actives), NEW i \in 1 .. Count(s),
         DrawnUpTo(s, i - 1), JoinAt(s, i - 1) # "Right"
  PROVE  LET hot == PreviousHotEdge(s, s.actives[i])
         IN  \/ hot = NoEdge /\ ~InResult(s, i - 1)
             \/ \E q \in 1 .. i - 1 : /\ hot = s.actives[q] /\ IsHot(s, hot)
                                      /\ IsFront(s, hot) <=> InResult(s, i - 1)
<1> DEFINE P == {k \in 1 .. i - 1 : IsHot(s, s.actives[k])}
           hot == PreviousHotEdge(s, s.actives[i])
<1>0. Count(s) \in Nat /\ DOMAIN s.actives = 1 .. Count(s)
  BY ListDomain
<1>1. hot = LastOf(s, P)
  <2>1. PositionOf(s, s.actives[i]) = i
    BY <1>0, PositionIsUnique
  <2> QED BY <2>1 DEF PreviousHotEdge
<1>2. P \in SUBSET (1 .. Count(s))
  BY <1>0
<1>3. CASE P = {}
  <2>1. hot = NoEdge
    <3> HIDE DEF P
    <3> QED BY <1>1, <1>2, <1>3, LastIsGreatest
  <2>2. \A k \in 0 + 1 .. i - 1 : ~IsHot(s, s.actives[k])
    BY <1>3
  <2>3. 0 \in 0 .. i - 1 /\ i - 1 \in 0 .. i - 1
    BY <1>0
  <2> DEFINE z == 0
  <2>4. z \in 0 .. i - 1 /\ JoinAt(s, z) = "NoJoin"
        /\ \A k \in z + 1 .. i - 1 : ~IsHot(s, s.actives[k])
    BY <2>2, <2>3, JoinType
  <2>5. ~InResult(s, z)
    BY ResultStartsOutside
  <2>6. i - 1 \in z .. i - 1
    BY <2>3
  <2> HIDE DEF z
  <2>7. CarriedTo(s, z, i - 1)
    BY <2>4, <2>6, Carried
  <2> QED BY <2>1, <2>5, <2>7 DEF CarriedTo
<1>4. CASE P # {}
  <2>1. PICK q \in P : (\A j \in P : j <= q) /\ hot = s.actives[q]
    <3> HIDE DEF P, hot
    <3> QED BY <1>1, <1>2, <1>4, LastIsGreatest
  <2>2. q \in 1 .. i - 1 /\ q \in 0 .. i - 1 /\ IsHot(s, hot) /\ q \in 1 .. Count(s)
    BY <1>0, <2>1
  <2>3. DrawnAt(s, q) /\ PairedAt(s, q)
    BY <2>2 DEF DrawnUpTo
  <2>4. JoinAt(s, q) = "NoJoin" /\ (IsFront(s, hot) <=> InResult(s, q))
    <3> HIDE DEF hot, P
    <3> QED BY <2>1, <2>2, <2>3, JoinType DEF DrawnAt, PairedAt
  <2>5. \A k \in q + 1 .. i - 1 : ~IsHot(s, s.actives[k])
    <3> SUFFICES ASSUME NEW k \in q + 1 .. i - 1, IsHot(s, s.actives[k]) PROVE FALSE
      OBVIOUS
    <3>1. k \in P /\ ~(k <= q)
      BY <2>2
    <3> QED BY <2>1, <3>1
  <2>6. i - 1 \in q .. i - 1
    BY <2>2
  <2>7. CarriedTo(s, q, i - 1)
    <3> HIDE DEF hot, P
    <3> QED BY <2>2, <2>4, <2>5, <2>6, Carried
  <2>8. IsFront(s, hot) <=> InResult(s, i - 1)
    <3> HIDE DEF hot, P
    <3> QED BY <2>4, <2>7 DEF CarriedTo
  <2> QED BY <2>1, <2>2, <2>8
<1> QED BY <1>3, <1>4

LEMMA NamedOthers ==
  ASSUME NEW s, StateType(s), NEW d \in Edge, NEW e \in Edge
  PROVE  LET t == Named(s, d, e)
         IN  /\ SameButRecords(s, t)
             /\ \A r \in 1 .. Len(s.front) : t.front[r] = s.front[r]
             /\ \A x \in Edge : x \notin {d, e} => t.edge[x].outrec = s.edge[x].outrec
<1> DEFINE t == Named(s, d, e)
           record == Len(s.front) + 1
<1>1. /\ SameButRecords(s, t)
      /\ Len(t.front) = record /\ record \in Nat
      /\ \A r \in 1 .. Len(s.front) :
           t.front[r] = s.front[r] /\ t.back[r] = s.back[r] /\ t.has_points[r] = s.has_points[r]
      /\ t.has_points[record] = TRUE
      /\ \A x \in Edge : t.edge[x].outrec = IF x \in {d, e} THEN record ELSE s.edge[x].outrec
  BY NamedRecord
<1> HIDE DEF t
<1>2. \A x \in Edge : x \notin {d, e} => t.edge[x].outrec = s.edge[x].outrec
  BY <1>1
<1> QED BY <1>1, <1>2 DEF t

\* A record opened at position i has the side that the result asks for.
LEMMA OpensWithTheResult ==
  ASSUME NEW s, StateType(s), IsInjective(s.actives), NEW i \in 1 .. Count(s),
         DrawnUpTo(s, i - 1), JoinAt(s, i - 1) # "Right",
         NEW j \in 1 .. Count(s), j > i, NEW is_new \in BOOLEAN
  PROVE  OpensInFront(s, s.actives[i], s.actives[j], is_new) <=> ~(InResult(s, i - 1) <=> is_new)
<1> DEFINE d == s.actives[i]
           e == s.actives[j]
           t == Named(s, d, e)
           hot == PreviousHotEdge(s, d)
<1>0. Count(s) \in Nat /\ DOMAIN s.actives = 1 .. Count(s) /\ d \in Edge /\ e \in Edge
  BY ListDomain, EdgeOfPosition
<1>1. /\ SameButRecords(s, t)
      /\ \A r \in 1 .. Len(s.front) : t.front[r] = s.front[r]
      /\ \A x \in Edge : x \notin {d, e} => t.edge[x].outrec = s.edge[x].outrec
  <2> HIDE DEF d, e
  <2> QED BY <1>0, NamedOthers
<1> HIDE DEF t
<1>2. \A k \in 1 .. i - 1 : s.actives[k] \in Edge \ {d, e}
  <2> SUFFICES ASSUME NEW k \in 1 .. i - 1 PROVE s.actives[k] \in Edge \ {d, e}
    OBVIOUS
  <2>1. k \in 1 .. Count(s) /\ k # i /\ k # j
    BY <1>0
  <2>2. s.actives[k] \in Edge
    BY <2>1, EdgeOfPosition
  <2> QED BY <1>0, <2>1, <2>2 DEF IsInjective
<1>3. \A k \in 1 .. i - 1 : IsHot(t, s.actives[k]) <=> IsHot(s, s.actives[k])
  BY <1>1, <1>2 DEF IsHot
<1>4. t.actives = s.actives
  BY <1>1 DEF SameButRecords
<1>5. PositionOf(s, d) = i /\ PositionOf(t, d) = i
  BY <1>0, <1>4, PositionIsUnique
<1>6. PreviousHotEdge(t, d) = hot
  <2>1. {k \in 1 .. i - 1 : IsHot(t, t.actives[k])} = {k \in 1 .. i - 1 : IsHot(s, s.actives[k])}
    BY <1>3, <1>4
  <2> HIDE DEF d
  <2> QED BY <1>4, <1>5, <2>1 DEF PreviousHotEdge, LastOf
<1>7. \/ hot = NoEdge /\ ~InResult(s, i - 1)
      \/ \E q \in 1 .. i - 1 : /\ hot = s.actives[q] /\ IsHot(s, hot)
                               /\ IsFront(s, hot) <=> InResult(s, i - 1)
  BY PreviousHotSide
<1> HIDE DEF hot
<1>8. OpensInFront(s, d, e, is_new) = IF hot = NoEdge THEN is_new ELSE IsFront(t, hot) # is_new
  BY <1>6 DEF OpensInFront, t
<1>9. InResult(s, i - 1) \in BOOLEAN
  <2>1. i - 1 \in 0 .. Count(s)
    BY <1>0
  <2> QED BY <2>1, ResultOfFills
<1>10. CASE hot = NoEdge
  <2>1. ~InResult(s, i - 1)
    <3>1. \A q \in 1 .. i - 1 : s.actives[q] # NoEdge
      BY <1>2, ActiveEdgesAssumption
    <3> QED BY <1>7, <1>10, <3>1
  <2> QED BY <1>8, <1>10, <2>1
<1>11. CASE hot # NoEdge
  <2>1. PICK q \in 1 .. i - 1 : /\ hot = s.actives[q] /\ IsHot(s, hot)
                                /\ IsFront(s, hot) <=> InResult(s, i - 1)
    BY <1>7, <1>11
  <2>2. hot \in Edge \ {d, e}
    BY <1>2, <2>1
  <2>3. s.edge[hot].outrec \in 1 .. Len(s.front)
    BY <2>1, <2>2, HotRecord
  <2>4. IsFront(t, hot) <=> IsFront(s, hot)
    BY <1>1, <2>2, <2>3 DEF IsFront, IsHot
  <2>5. OpensInFront(s, d, e, is_new) = (IsFront(t, hot) # is_new)
    BY <1>8, <1>11
  <2>6. IsFront(t, hot) \in BOOLEAN
    BY DEF IsFront
  <2> QED BY <2>1, <2>4, <2>5, <2>6
<1> QED BY <1>10, <1>11

-----------------------------------------------------------------------------
(* The invariant of a state, and what carries it from state to state.      *)

\* A horizontal edge is never joined: check_join refuses it, and the edge that
\* becomes horizontal is split first.
HorizontalsFree(s) == \A x \in Edge : s.edge[x].horizontal => ~IsJoined(s, x)

Sound(s) ==
  /\ StateType(s) /\ IsInjective(s.actives) /\ s.succeeded
  /\ Coupled(s) /\ HorizontalsFree(s) /\ DrawnUpTo(s, Count(s))

\* The records and what the edges name of them.
SameDrawing(s, t) ==
  t.succeeded = s.succeeded /\ t.owner = s.owner /\ TablesKept(s, t) /\ SameOutrecs(s, t)

LEMMA DrawingCarries ==
  ASSUME NEW s, StateType(s), Coupled(s), NEW t, SameDrawing(s, t),
         \A x \in Edge : IsHot(s, x) => x \in Active(t)
  PROVE  Coupled(t) /\ RecordsStay(s, t) /\ \A x \in Edge : SameSide(s, t, x)
<1>1. /\ t.front = s.front /\ t.back = s.back /\ t.has_points = s.has_points /\ t.owner = s.owner
      /\ \A x \in Edge : t.edge[x].outrec = s.edge[x].outrec
  BY DEF SameDrawing, TablesKept, SameOutrecs
<1>2. \A x \in Edge : SameSide(s, t, x)
  BY <1>1 DEF SameSide, IsHot, IsFront
<1>3. ASSUME NEW x \in Edge, IsHot(t, x) PROVE HoldsSide(t, x)
  <2>1. IsHot(s, x)
    BY <1>1, <1>3 DEF IsHot
  <2>2. HoldsSide(s, x)
    BY <2>1 DEF Coupled
  <2> QED BY <1>1, <2>1, <2>2 DEF HoldsSide
<1>4. ASSUME NEW r \in 1 .. Len(t.front) PROVE RecordClosed(t, r) \/ RecordOpen(t, r)
  <2>1. r \in 1 .. Len(s.front)
    BY <1>1
  <2>2. CASE RecordClosed(s, r)
    BY <1>1, <2>2 DEF RecordClosed
  <2>3. CASE RecordOpen(s, r)
    <3>1. s.front[r] \in Edge /\ s.back[r] \in Edge
      BY <2>1, <2>3, SideType DEF RecordOpen, MaybeEdge
    <3> QED BY <1>1, <2>3, <3>1 DEF RecordOpen
  <2> QED BY <2>1, <2>2, <2>3 DEF Coupled
<1>5. RecordsStay(s, t)
  <2>1. Len(s.front) \in Nat
    BY TableLength
  <2>2. \A r \in 1 .. Len(s.front) : s.front[r] = NoEdge => RecordClosed(s, r)
    BY DEF Coupled, RecordOpen
  <2>3. OwnersStay(s, t)
    BY <1>1, SameOwners
  <2> QED BY <1>1, <2>1, <2>2, <2>3 DEF RecordsStay, RecordClosed
<1> QED BY <1>2, <1>3, <1>4, <1>5 DEF Coupled

\* Labels that are neither counts nor records are written.
Relabelled(s, t) == StateType(t) /\ SameStage(s, t) /\ SameDrawing(s, t) /\ SameWinding(s, t)

LEMMA RelabelledTransitive ==
  ASSUME NEW s, NEW t, NEW u, Relabelled(s, t), Relabelled(t, u)
  PROVE  Relabelled(s, u)
<1>1. SameWinding(s, u)
  BY SameIsTransitive DEF Relabelled
<1> QED BY <1>1 DEF Relabelled, SameStage, SameBounds, SameDrawing, TablesKept, SameOutrecs

LEMMA RelabelledSound ==
  ASSUME NEW s, StateType(s), Coupled(s), NEW t, Relabelled(s, t)
  PROVE  Coupled(t) /\ RecordsStay(s, t) /\ \A x \in Edge : SameSide(s, t, x)
<1>1. \A x \in Edge : IsHot(s, x) => x \in Active(s)
  BY DEF Coupled, HoldsSide
<1>2. Active(t) = Active(s) /\ SameDrawing(s, t)
  BY DEF Relabelled, SameStage, Active
<1> QED BY <1>1, <1>2, DrawingCarries

LEMMA JoinWritten ==
  ASSUME NEW s, StateType(s), NEW e \in Edge, NEW j \in JoinStates
  PROVE  LET t == [s EXCEPT !.edge[e].join_with = j]
         IN  /\ Relabelled(s, t)
             /\ \A x \in Edge : /\ t.edge[x].join_with = IF x = e THEN j ELSE s.edge[x].join_with
                                /\ t.edge[x].horizontal = s.edge[x].horizontal
<1> DEFINE t == [s EXCEPT !.edge[e].join_with = j]
           o == [s.edge[e] EXCEPT !.join_with = j]
<1>1. StateType(t) /\ SameWinding(s, t)
  BY JoinWithType, TypedIsShaped, SameLabel
<1>2. /\ t.actives = s.actives /\ t.cliptype = s.cliptype /\ t.fillrule = s.fillrule
      /\ t.succeeded = s.succeeded /\ t.front = s.front /\ t.back = s.back
      /\ t.has_points = s.has_points /\ t.owner = s.owner /\ t.edge = [s.edge EXCEPT ![e] = o]
  BY DEF StateType
<1>3. s.edge \in [Edge -> EdgeType]
  BY DEF StateType
<1>4. o.outrec = s.edge[e].outrec /\ o.join_with = j /\ o.horizontal = s.edge[e].horizontal
  BY <1>3 DEF EdgeType
<1> HIDE DEF o, t
<1>5. \A x \in Edge : t.edge[x] = IF x = e THEN o ELSE s.edge[x]
  BY <1>2, <1>3
<1>6. SameStage(s, t)
  BY <1>1, <1>2, SameKeepsBounds DEF SameStage
<1>7. SameDrawing(s, t)
  BY <1>2, <1>4, <1>5 DEF SameDrawing, TablesKept, SameOutrecs
<1>8. \A x \in Edge : /\ t.edge[x].join_with = IF x = e THEN j ELSE s.edge[x].join_with
                      /\ t.edge[x].horizontal = s.edge[x].horizontal
  BY <1>4, <1>5
<1> QED BY <1>1, <1>6, <1>7, <1>8 DEF Relabelled, t

LEMMA HorizontalWritten ==
  ASSUME NEW s, StateType(s), NEW e \in Edge, NEW h \in BOOLEAN
  PROVE  LET t == [s EXCEPT !.edge[e].horizontal = h]
         IN  /\ Relabelled(s, t)
             /\ \A x \in Edge : /\ t.edge[x].join_with = s.edge[x].join_with
                                /\ t.edge[x].horizontal = IF x = e THEN h ELSE s.edge[x].horizontal
<1> DEFINE t == [s EXCEPT !.edge[e].horizontal = h]
           o == [s.edge[e] EXCEPT !.horizontal = h]
<1>0. s.edge \in [Edge -> EdgeType]
  BY DEF StateType
<1>1. StateType(t) /\ SameWinding(s, t)
  <2>1. o \in EdgeType /\ o.outrec <= Len(s.front)
    <3>1. s.edge[e] \in EdgeType /\ s.edge[e].outrec <= Len(s.front)
      BY <1>0 DEF StateType
    <3> QED BY <3>1 DEF EdgeType
  <2>2. t = [s EXCEPT !.edge[e] = o]
    OBVIOUS
  <2> HIDE DEF o, t
  <2>3. StateType(t)
    BY <2>1, <2>2, EdgeUpdateType
  <2>4. SameWinding(s, t)
    BY TypedIsShaped, SameLabel DEF t
  <2> QED BY <2>3, <2>4
<1>2. /\ t.actives = s.actives /\ t.cliptype = s.cliptype /\ t.fillrule = s.fillrule
      /\ t.succeeded = s.succeeded /\ t.front = s.front /\ t.back = s.back
      /\ t.has_points = s.has_points /\ t.owner = s.owner /\ t.edge = [s.edge EXCEPT ![e] = o]
  BY DEF StateType
<1>4. o.outrec = s.edge[e].outrec /\ o.join_with = s.edge[e].join_with /\ o.horizontal = h
  BY <1>0 DEF EdgeType
<1> HIDE DEF o, t
<1>5. \A x \in Edge : t.edge[x] = IF x = e THEN o ELSE s.edge[x]
  BY <1>2, <1>0
<1>6. SameStage(s, t)
  BY <1>1, <1>2, SameKeepsBounds DEF SameStage
<1>7. SameDrawing(s, t)
  BY <1>2, <1>4, <1>5 DEF SameDrawing, TablesKept, SameOutrecs
<1>8. \A x \in Edge : /\ t.edge[x].join_with = s.edge[x].join_with
                      /\ t.edge[x].horizontal = IF x = e THEN h ELSE s.edge[x].horizontal
  BY <1>4, <1>5
<1> QED BY <1>1, <1>6, <1>7, <1>8 DEF Relabelled, t

WithJoins(s, d, e, a, b) == [s EXCEPT !.edge[d].join_with = a, !.edge[e].join_with = b]

LEMMA JoinsWritten ==
  ASSUME NEW s, StateType(s), NEW d \in Edge, NEW e \in Edge, NEW a \in JoinStates, NEW b \in JoinStates
  PROVE  LET t == WithJoins(s, d, e, a, b)
         IN  /\ Relabelled(s, t)
             /\ \A x \in Edge :
                  /\ t.edge[x].join_with
                       = IF x = e THEN b ELSE IF x = d THEN a ELSE s.edge[x].join_with
                  /\ t.edge[x].horizontal = s.edge[x].horizontal
<1> DEFINE t == [s EXCEPT !.edge[d].join_with = a]
           u == [t EXCEPT !.edge[e].join_with = b]
<1>1. WithJoins(s, d, e, a, b) = u
  BY DEF WithJoins
<1>2. /\ Relabelled(s, t)
      /\ \A x \in Edge : /\ t.edge[x].join_with = IF x = d THEN a ELSE s.edge[x].join_with
                         /\ t.edge[x].horizontal = s.edge[x].horizontal
  BY JoinWritten
<1> HIDE DEF t
<1>3. /\ Relabelled(t, u)
      /\ \A x \in Edge : /\ u.edge[x].join_with = IF x = e THEN b ELSE t.edge[x].join_with
                         /\ u.edge[x].horizontal = t.edge[x].horizontal
  <2>1. StateType(t)
    BY <1>2 DEF Relabelled
  <2> QED BY <2>1, JoinWritten
<1> HIDE DEF u
<1>4. Relabelled(s, u)
  BY <1>2, <1>3, RelabelledTransitive
<1> QED BY <1>1, <1>2, <1>3, <1>4

-----------------------------------------------------------------------------
(* Positions that look alike, and lists that differ in a block of two.     *)

Alike(s, i, t, j) ==
  /\ IsHot(t, t.actives[j]) <=> IsHot(s, s.actives[i])
  /\ IsFront(t, t.actives[j]) <=> IsFront(s, s.actives[i])
  /\ JoinAt(t, j) = JoinAt(s, i)

LEMMA DrawnAlike ==
  ASSUME NEW s, StateType(s), NEW t, StateType(t), NEW i \in 1 .. Count(s), NEW j \in 1 .. Count(t),
         DrawnAt(s, i), Alike(s, i, t, j),
         InResult(t, j - 1) <=> InResult(s, i - 1), InResult(t, j) <=> InResult(s, i)
  PROVE  DrawnAt(t, j)
<1>1. IsJoined(t, t.actives[j]) <=> IsJoined(s, s.actives[i])
  BY JoinType DEF Alike
<1> QED BY <1>1 DEF DrawnAt, Alike

LEMMA PairedAlike ==
  ASSUME NEW s, StateType(s), NEW t, StateType(t), NEW i \in 1 .. Count(s), NEW j \in 1 .. Count(t),
         PairedAt(s, i), Alike(s, i, t, j),
         JoinAt(t, j + 1) = "Left" <=> JoinAt(s, i + 1) = "Left", JoinAt(s, i) = "Left" => j > 1
  PROVE  PairedAt(t, j)
<1>1. IsJoined(t, t.actives[j]) <=> IsJoined(s, s.actives[i])
  BY JoinType DEF Alike
<1>2. JoinAt(t, j) = JoinAt(s, i) /\ (IsHot(t, t.actives[j]) <=> IsHot(s, s.actives[i]))
  BY DEF Alike
<1> QED BY <1>1, <1>2 DEF PairedAt

\* A block of two edges that are joined to each other or to none.
Block(s, i) ==
  \/ JoinAt(s, i) = "NoJoin" /\ JoinAt(s, i + 1) = "NoJoin"
  \/ /\ JoinAt(s, i) = "Right" /\ JoinAt(s, i + 1) = "Left"
     /\ ~IsHot(s, s.actives[i]) /\ ~IsHot(s, s.actives[i + 1])

\* t is s with the two edges at i and i + 1 drawn anew.
Patch(s, t, i) ==
  /\ Count(t) = Count(s)
  /\ \A k \in (1 .. Count(s)) \ {i, i + 1} : Alike(s, k, t, k)
  /\ \A k \in (0 .. Count(s)) \ {i} : InResult(t, k) <=> InResult(s, k)
  /\ DrawnAt(t, i) /\ DrawnAt(t, i + 1)

LEMMA Patched ==
  ASSUME NEW s, StateType(s), NEW t, StateType(t), NEW i \in 1 .. Count(s) - 1,
         DrawnUpTo(s, Count(s)), Patch(s, t, i), Block(s, i), Block(t, i)
  PROVE  DrawnUpTo(t, Count(t))
<1>0. Count(s) \in Nat /\ Count(t) = Count(s) /\ i \in Nat
  BY ListDomain DEF Patch
<1> SUFFICES ASSUME NEW k \in 1 .. Count(s) PROVE DrawnAt(t, k) /\ PairedAt(t, k)
  BY <1>0 DEF DrawnUpTo
<1>1. CASE k \in {i, i + 1}
  <2>1. DrawnAt(t, k)
    BY <1>1 DEF Patch
  <2>2. PairedAt(t, i)
    <3>1. i \in 1 .. Count(t)
      BY <1>0
    <3>2. IsJoined(t, t.actives[i]) <=> JoinAt(t, i) # "NoJoin"
      BY <3>1, JoinType
    <3> QED BY <3>2 DEF Block, PairedAt
  <2>3. PairedAt(t, i + 1)
    <3>1. i + 1 \in 1 .. Count(t) /\ i + 1 > 1 /\ i + 1 \in 1 .. Count(s)
      BY <1>0
    <3>2. IsJoined(t, t.actives[i + 1]) <=> JoinAt(t, i + 1) # "NoJoin"
      BY <3>1, JoinType
    <3>3. JoinAt(s, i + 1) # "Right" /\ JoinAt(t, i + 1) # "Right"
      BY DEF Block
    <3>4. JoinAt(s, i + 2) # "Left"
      <4>1. PairedAt(s, i + 1)
        BY <3>1 DEF DrawnUpTo
      <4>2. (i + 1) + 1 = i + 2
        BY <1>0
      <4> QED BY <3>3, <4>1, <4>2 DEF PairedAt
    <3>5. JoinAt(t, i + 2) # "Left"
      <4>1. CASE i + 2 \in 1 .. Count(s)
        <5>1. i + 2 \in (1 .. Count(s)) \ {i, i + 1}
          BY <1>0, <4>1
        <5> QED BY <3>4, <5>1 DEF Patch, Alike
      <4>2. CASE i + 2 \notin 1 .. Count(s)
        BY <1>0, <4>2 DEF JoinAt
      <4> QED BY <4>1, <4>2
    <3>6. (i + 1) + 1 = i + 2
      BY <1>0
    <3> QED BY <3>1, <3>2, <3>3, <3>5, <3>6 DEF Block, PairedAt
  <2> QED BY <1>1, <2>1, <2>2, <2>3
<1>2. CASE k \notin {i, i + 1}
  <2>1. /\ k \in (1 .. Count(s)) \ {i, i + 1} /\ k \in 1 .. Count(t)
        /\ k - 1 \in (0 .. Count(s)) \ {i} /\ k \in (0 .. Count(s)) \ {i}
    BY <1>0, <1>2
  <2>2. Alike(s, k, t, k) /\ DrawnAt(s, k) /\ PairedAt(s, k)
    BY <2>1 DEF Patch, DrawnUpTo
  <2>3. DrawnAt(t, k)
    <3>1. (InResult(t, k - 1) <=> InResult(s, k - 1)) /\ (InResult(t, k) <=> InResult(s, k))
      BY <2>1 DEF Patch
    <3> QED BY <2>1, <2>2, <3>1, DrawnAlike
  <2>4. JoinAt(t, k + 1) = "Left" <=> JoinAt(s, k + 1) = "Left"
    <3>1. CASE k + 1 = i
      BY <3>1 DEF Block
    <3>2. CASE k + 1 # i /\ k + 1 \in 1 .. Count(s)
      <4>1. k + 1 \in (1 .. Count(s)) \ {i, i + 1}
        BY <1>0, <1>2, <3>2
      <4> QED BY <4>1 DEF Patch, Alike
    <3>3. CASE k + 1 \notin 1 .. Count(s)
      BY <1>0, <3>3 DEF JoinAt
    <3> QED BY <3>1, <3>2, <3>3
  <2>5. JoinAt(s, k) = "Left" => k > 1
    BY <2>2 DEF PairedAt
  <2>6. PairedAt(t, k)
    BY <2>1, <2>2, <2>4, <2>5, PairedAlike
  <2> QED BY <2>3, <2>6
<1> QED BY <1>1, <1>2

\* u is s without the two edges at i and i + 1.
Without(s, u, i) ==
  /\ Count(u) = Count(s) - 2
  /\ \A k \in 1 .. i - 1 : Alike(s, k, u, k)
  /\ \A k \in i .. Count(u) : Alike(s, k + 2, u, k)
  /\ \A k \in 0 .. i - 1 : InResult(u, k) <=> InResult(s, k)
  /\ \A k \in i - 1 .. Count(u) : InResult(u, k) <=> InResult(s, k + 2)

LEMMA TakenOut ==
  ASSUME NEW s, StateType(s), NEW u, StateType(u), NEW i \in 1 .. Count(s) - 1,
         DrawnUpTo(s, Count(s)), Without(s, u, i),
         JoinAt(s, i) = "NoJoin", JoinAt(s, i + 1) = "NoJoin"
  PROVE  DrawnUpTo(u, Count(u))
<1>0. Count(s) \in Nat /\ Count(u) = Count(s) - 2 /\ Count(u) \in Nat
  BY ListDomain DEF Without
<1> SUFFICES ASSUME NEW k \in 1 .. Count(u) PROVE DrawnAt(u, k) /\ PairedAt(u, k)
  BY <1>0 DEF DrawnUpTo
<1>1. CASE k < i
  <2>1. k \in 1 .. i - 1 /\ k \in 1 .. Count(s) /\ k - 1 \in 0 .. i - 1 /\ k \in 0 .. i - 1
    BY <1>0, <1>1
  <2>2. Alike(s, k, u, k) /\ DrawnAt(s, k) /\ PairedAt(s, k)
    BY <2>1 DEF Without, DrawnUpTo
  <2>3. (InResult(u, k - 1) <=> InResult(s, k - 1)) /\ (InResult(u, k) <=> InResult(s, k))
    BY <2>1 DEF Without
  <2>4. JoinAt(u, k + 1) = "Left" <=> JoinAt(s, k + 1) = "Left"
    <3>1. CASE k + 1 < i
      <4>1. k + 1 \in 1 .. i - 1
        BY <1>0, <3>1
      <4> QED BY <4>1 DEF Without, Alike
    <3>2. CASE k + 1 = i
      <4>1. JoinAt(s, i) # "Left"
        OBVIOUS
      <4>2. CASE i \in 1 .. Count(u)
        <5>1. i \in i .. Count(u) /\ i + 1 \in 1 .. Count(s) /\ (i + 1) + 1 = i + 2
          BY <1>0, <4>2
        <5>2. JoinAt(u, i) = JoinAt(s, i + 2) /\ PairedAt(s, i + 1)
          BY <5>1 DEF Without, Alike, DrawnUpTo
        <5>3. JoinAt(s, i + 2) # "Left"
          BY <5>1, <5>2 DEF PairedAt
        <5> QED BY <3>2, <4>1, <5>2, <5>3
      <4>3. CASE i \notin 1 .. Count(u)
        <5>1. JoinAt(u, i) = "NoJoin"
          BY <4>3 DEF JoinAt
        <5> QED BY <3>2, <4>1, <5>1
      <4> QED BY <4>2, <4>3
    <3> QED BY <1>0, <1>1, <3>1, <3>2
  <2>5. JoinAt(s, k) = "Left" => k > 1
    BY <2>2 DEF PairedAt
  <2> QED BY <2>1, <2>2, <2>3, <2>4, <2>5, DrawnAlike, PairedAlike
<1>2. CASE ~(k < i)
  <2> DEFINE m == k + 2
  <2>1. /\ k \in i .. Count(u) /\ m \in 1 .. Count(s) /\ k \in i - 1 .. Count(u)
        /\ k - 1 \in i - 1 .. Count(u) /\ (k - 1) + 2 = m - 1
    BY <1>0, <1>2
  <2>2. Alike(s, m, u, k) /\ DrawnAt(s, m) /\ PairedAt(s, m)
    BY <2>1 DEF Without, DrawnUpTo
  <2>3. (InResult(u, k - 1) <=> InResult(s, m - 1)) /\ (InResult(u, k) <=> InResult(s, m))
    BY <2>1 DEF Without
  <2>4. JoinAt(u, k + 1) = JoinAt(s, m + 1)
    <3>1. CASE k + 1 \in 1 .. Count(u)
      <4>1. k + 1 \in i .. Count(u) /\ (k + 1) + 2 = m + 1
        BY <1>0, <1>2, <3>1
      <4>2. JoinAt(u, k + 1) = JoinAt(s, (k + 1) + 2)
        BY <4>1 DEF Without, Alike
      <4> QED BY <4>1, <4>2
    <3>2. CASE k + 1 \notin 1 .. Count(u)
      <4>1. m + 1 \notin 1 .. Count(s)
        BY <1>0, <3>2
      <4> QED BY <3>2, <4>1 DEF JoinAt
    <3> QED BY <3>1, <3>2
  <2>5. JoinAt(s, m) = "Left" => k > 1
    <3>1. CASE k = 1
      <4>1. m = 3 /\ i = 1 /\ 2 \in 1 .. Count(s) /\ i + 1 = 2 /\ 2 + 1 = 3
        BY <1>0, <1>2, <2>1, <3>1
      <4>2. PairedAt(s, i + 1)
        BY <4>1 DEF DrawnUpTo
      <4> QED BY <4>1, <4>2 DEF PairedAt
    <3> QED BY <1>0, <3>1
  <2> HIDE DEF m
  <2>6. k \in 1 .. Count(u)
    OBVIOUS
  <2> QED BY <2>1, <2>2, <2>3, <2>4, <2>5, <2>6, DrawnAlike, PairedAlike
<1> QED BY <1>1, <1>2

\* u is s with two edges more, at p and p + 1.
With(s, u, p) ==
  /\ Count(u) = Count(s) + 2
  /\ \A k \in 1 .. p - 1 : Alike(s, k, u, k)
  /\ \A k \in p .. Count(s) : Alike(s, k, u, k + 2)
  /\ \A k \in 0 .. p - 1 : InResult(u, k) <=> InResult(s, k)
  /\ \A k \in p - 1 .. Count(s) : InResult(u, k + 2) <=> InResult(s, k)

LEMMA PutIn ==
  ASSUME NEW s, StateType(s), NEW u, StateType(u), NEW p \in 1 .. Count(s) + 1,
         DrawnUpTo(s, Count(s)), With(s, u, p), DrawnAt(u, p), DrawnAt(u, p + 1),
         JoinAt(u, p) = "NoJoin", JoinAt(u, p + 1) = "NoJoin", JoinAt(s, p - 1) # "Right"
  PROVE  DrawnUpTo(u, Count(u))
<1>0. Count(s) \in Nat /\ Count(u) = Count(s) + 2 /\ Count(u) \in Nat
  BY ListDomain DEF With
<1> SUFFICES ASSUME NEW k \in 1 .. Count(u) PROVE DrawnAt(u, k) /\ PairedAt(u, k)
  BY <1>0 DEF DrawnUpTo
<1>1. CASE k < p
  <2>1. k \in 1 .. p - 1 /\ k \in 1 .. Count(s) /\ k - 1 \in 0 .. p - 1 /\ k \in 0 .. p - 1
    BY <1>0, <1>1
  <2>2. Alike(s, k, u, k) /\ DrawnAt(s, k) /\ PairedAt(s, k)
    BY <2>1 DEF With, DrawnUpTo
  <2>3. (InResult(u, k - 1) <=> InResult(s, k - 1)) /\ (InResult(u, k) <=> InResult(s, k))
    BY <2>1 DEF With
  <2>4. JoinAt(u, k + 1) = "Left" <=> JoinAt(s, k + 1) = "Left"
    <3>1. CASE k + 1 < p
      <4>1. k + 1 \in 1 .. p - 1
        BY <1>0, <3>1
      <4> QED BY <4>1 DEF With, Alike
    <3>2. CASE k + 1 = p
      <4>1. k = p - 1
        BY <1>0, <3>2
      <4>2. JoinAt(s, k + 1) # "Left"
        BY <2>2, <4>1 DEF PairedAt
      <4> QED BY <3>2, <4>2
    <3> QED BY <1>0, <1>1, <3>1, <3>2
  <2>5. JoinAt(s, k) = "Left" => k > 1
    BY <2>2 DEF PairedAt
  <2> QED BY <2>1, <2>2, <2>3, <2>4, <2>5, DrawnAlike, PairedAlike
<1>2. CASE k = p
  <2>1. IsJoined(u, u.actives[k]) <=> JoinAt(u, k) # "NoJoin"
    BY JoinType
  <2> QED BY <1>2, <2>1 DEF PairedAt
<1>3. CASE k = p + 1
  <2>1. IsJoined(u, u.actives[k]) <=> JoinAt(u, k) # "NoJoin"
    BY JoinType
  <2>2. JoinAt(u, k + 1) # "Left"
    <3>1. CASE p \in 1 .. Count(s)
      <4>1. p \in p .. Count(s) /\ p + 2 = k + 1
        BY <1>0, <1>3, <3>1
      <4>2. JoinAt(u, k + 1) = JoinAt(s, p)
        BY <4>1 DEF With, Alike
      <4>3. JoinAt(s, p) # "Left"
        <5>1. CASE p = 1
          <6>1. PairedAt(s, p)
            BY <3>1 DEF DrawnUpTo
          <6> QED BY <5>1, <6>1 DEF PairedAt
        <5>2. CASE p # 1
          <6>1. p - 1 \in 1 .. Count(s) /\ (p - 1) + 1 = p
            BY <1>0, <3>1, <5>2
          <6>2. PairedAt(s, p - 1)
            BY <6>1 DEF DrawnUpTo
          <6> QED BY <6>1, <6>2 DEF PairedAt
        <5> QED BY <5>1, <5>2
      <4> QED BY <4>2, <4>3
    <3>2. CASE p \notin 1 .. Count(s)
      <4>1. k + 1 \notin 1 .. Count(u)
        BY <1>0, <1>3, <3>2
      <4> QED BY <4>1 DEF JoinAt
    <3> QED BY <3>1, <3>2
  <2> QED BY <1>3, <2>1, <2>2 DEF PairedAt
<1>4. CASE k > p + 1
  <2> DEFINE m == k - 2
  <2>1. /\ m \in p .. Count(s) /\ m \in 1 .. Count(s) /\ m \in p - 1 .. Count(s)
        /\ m - 1 \in p - 1 .. Count(s) /\ (m - 1) + 2 = k - 1 /\ m + 2 = k
    BY <1>0, <1>4
  <2>2. DrawnAt(s, m) /\ PairedAt(s, m)
    BY <2>1 DEF DrawnUpTo
  <2>3. Alike(s, m, u, k)
    <3>1. Alike(s, m, u, m + 2)
      <4> HIDE DEF m
      <4> QED BY <2>1 DEF With
    <3> QED BY <2>1, <3>1
  <2>4. (InResult(u, k - 1) <=> InResult(s, m - 1)) /\ (InResult(u, k) <=> InResult(s, m))
    <3>1. (InResult(u, (m - 1) + 2) <=> InResult(s, m - 1)) /\ (InResult(u, m + 2) <=> InResult(s, m))
      <4> HIDE DEF m
      <4> QED BY <2>1 DEF With
    <3> QED BY <2>1, <3>1
  <2>5. JoinAt(u, k + 1) = JoinAt(s, m + 1)
    <3>1. CASE m + 1 \in 1 .. Count(s)
      <4>1. m + 1 \in p .. Count(s) /\ (m + 1) + 2 = k + 1
        BY <1>0, <1>4, <3>1
      <4>2. JoinAt(u, (m + 1) + 2) = JoinAt(s, m + 1)
        <5> HIDE DEF m
        <5> QED BY <4>1 DEF With, Alike
      <4> QED BY <4>1, <4>2
    <3>2. CASE m + 1 \notin 1 .. Count(s)
      <4>1. k + 1 \notin 1 .. Count(u)
        BY <1>0, <1>4, <3>2
      <4> QED BY <3>2, <4>1 DEF JoinAt
    <3> QED BY <3>1, <3>2
  <2>6. JoinAt(s, m) = "Left" => k > 1
    BY <1>0, <1>4
  <2> HIDE DEF m
  <2>7. k \in 1 .. Count(u)
    OBVIOUS
  <2> QED BY <2>1, <2>2, <2>3, <2>4, <2>5, <2>6, <2>7, DrawnAlike, PairedAlike
<1> QED BY <1>0, <1>1, <1>2, <1>3, <1>4

-----------------------------------------------------------------------------
(* Splitting a joined pair.                                                *)

LEMMA TwoNeighbours ==
  ASSUME NEW s, StateType(s), IsInjective(s.actives), NEW i \in 1 .. Count(s) - 1
  PROVE  LET d == s.actives[i]
             e == s.actives[i + 1]
         IN  /\ Count(s) \in Nat /\ i \in Nat /\ i \in 1 .. Count(s) /\ i + 1 \in 1 .. Count(s)
             /\ d \in Edge /\ e \in Edge /\ d # e /\ d \in Active(s) /\ e \in Active(s)
             /\ LeftOf(s, d, e)
             /\ \A k \in (1 .. Count(s)) \ {i, i + 1} : s.actives[k] \in Edge \ {d, e}
<1>1. Count(s) \in Nat /\ i \in Nat /\ i \in 1 .. Count(s) /\ i + 1 \in 1 .. Count(s) /\ i + 1 # i
      /\ DOMAIN s.actives = 1 .. Count(s)
  BY ListDomain
<1>2. \A k \in 1 .. Count(s) : s.actives[k] \in Edge /\ s.actives[k] \in Active(s)
  BY <1>1, EdgeOfPosition DEF Active, Range
<1>3. s.actives[i] # s.actives[i + 1]
  BY <1>1 DEF IsInjective
<1>4. \A k \in (1 .. Count(s)) \ {i, i + 1} :
        s.actives[k] \in Edge \ {s.actives[i], s.actives[i + 1]}
  BY <1>1, <1>2 DEF IsInjective
<1>5. LeftOf(s, s.actives[i], s.actives[i + 1])
  <2>1. i < i + 1
    BY <1>1
  <2> QED BY <1>1, <2>1 DEF LeftOf
<1> QED BY <1>1, <1>2, <1>3, <1>4, <1>5

LEMMA AlikeInPlace ==
  ASSUME NEW s, StateType(s), NEW t, StateType(t), SameStage(s, t), NEW k \in 1 .. Count(s),
         SameSide(s, t, s.actives[k]),
         t.edge[s.actives[k]].join_with = s.edge[s.actives[k]].join_with
  PROVE  Alike(s, k, t, k)
<1>1. t.actives = s.actives /\ Count(t) = Count(s)
  BY DEF SameStage, Count
<1>2. JoinAt(t, k) = JoinAt(s, k)
  BY <1>1 DEF JoinAt
<1> QED BY <1>1, <1>2 DEF Alike, SameSide

LEMMA PatchedInPlace ==
  ASSUME NEW s, Sound(s), NEW t, StateType(t), SameStage(s, t), NEW i \in 1 .. Count(s) - 1,
         NEW d, NEW e, d = s.actives[i], e = s.actives[i + 1],
         \A x \in Edge \ {d, e} : SameSide(s, t, x) /\ t.edge[x].join_with = s.edge[x].join_with,
         Coupled(t), t.succeeded, HorizontalsFree(t), Block(s, i), Block(t, i),
         DrawnAt(t, i), DrawnAt(t, i + 1)
  PROVE  Sound(t)
<1>1. StateType(s) /\ IsInjective(s.actives) /\ DrawnUpTo(s, Count(s))
  BY DEF Sound
<1>2. \A k \in (1 .. Count(s)) \ {i, i + 1} : Alike(s, k, t, k)
  <2> SUFFICES ASSUME NEW k \in (1 .. Count(s)) \ {i, i + 1} PROVE Alike(s, k, t, k)
    OBVIOUS
  <2>1. s.actives[k] \in Edge \ {d, e}
    BY <1>1, TwoNeighbours
  <2>2. SameSide(s, t, s.actives[k]) /\ t.edge[s.actives[k]].join_with = s.edge[s.actives[k]].join_with
    BY <2>1
  <2> QED BY <1>1, <2>2, AlikeInPlace
<1>3. Count(t) = Count(s) /\ \A k \in 0 .. Count(s) : InResult(t, k) <=> InResult(s, k)
  BY <1>1, SameResult
<1>4. Patch(s, t, i)
  BY <1>2, <1>3 DEF Patch
<1>5. DrawnUpTo(t, Count(t))
  BY <1>1, <1>4, Patched
<1>6. IsInjective(t.actives)
  BY <1>1 DEF SameStage
<1> QED BY <1>5, <1>6 DEF Sound

\* What a redrawn state keeps.
LEMMA RedrawnKeeps ==
  ASSUME NEW s, NEW t, NEW D, Redrawn(s, t, D)
  PROVE  /\ StateType(t) /\ SameStage(s, t) /\ t.succeeded = s.succeeded /\ Coupled(t)
         /\ RecordsStay(s, t)
         /\ \A x \in Edge : /\ t.edge[x].join_with = s.edge[x].join_with
                            /\ t.edge[x].horizontal = s.edge[x].horizontal
                            /\ x \notin D => SameSide(s, t, x)
  BY DEF Redrawn, SameButRecords, LabelKept, SameStage, SameBounds

\* The joins of s are released or kept, and no edge that was not joined changes
\* its side.
Released(s, t) ==
  /\ SameStage(s, t) /\ SameWinding(s, t)
  /\ \A x \in Edge : ~IsJoined(s, x) => ~IsJoined(t, x) /\ SameSide(s, t, x)

\* The same edges are horizontal.
Level(s, t) == \A x \in Edge : t.edge[x].horizontal = s.edge[x].horizontal

\* The edges of D are no longer joined, and only they may have turned.
JoinsFreed(s, t, D) ==
  \A x \in Edge : /\ t.edge[x].join_with = IF x \in D THEN "NoJoin" ELSE s.edge[x].join_with
                  /\ x \notin D => t.edge[x].horizontal = s.edge[x].horizontal

\* A joined pair that is released opens a record, with the result on the right
\* of the front edge.
LEMMA PairOpens ==
  ASSUME NEW s, Sound(s), NEW i \in 1 .. Count(s) - 1, JoinAt(s, i) = "Right",
         NEW d, NEW e, d = s.actives[i], e = s.actives[i + 1],
         NEW s1, Relabelled(s, s1),
         JoinsFreed(s, s1, {d, e}),
         NEW t, Opened(s1, t, d, e, OpensInFront(s1, d, e, TRUE)), SameWinding(s1, t)
  PROVE  /\ Sound(t) /\ RecordsStay(s, t) /\ Released(s, t) /\ Level(s1, t)
         /\ ~IsJoined(t, d) /\ ~IsJoined(t, e)
<1>0. StateType(s) /\ IsInjective(s.actives) /\ s.succeeded /\ Coupled(s) /\ HorizontalsFree(s)
      /\ DrawnUpTo(s, Count(s))
  BY DEF Sound
<1>1. /\ Count(s) \in Nat /\ i \in Nat /\ i \in 1 .. Count(s) /\ i + 1 \in 1 .. Count(s)
      /\ d \in Edge /\ e \in Edge /\ d # e /\ d \in Active(s) /\ e \in Active(s)
      /\ \A k \in (1 .. Count(s)) \ {i, i + 1} : s.actives[k] \in Edge \ {d, e}
  BY <1>0, TwoNeighbours
<1>2. /\ Relabelled(s, s1)
      /\ \A x \in Edge : /\ s1.edge[x].join_with = IF x \in {d, e} THEN "NoJoin" ELSE s.edge[x].join_with
                         /\ x \notin {d, e} => s1.edge[x].horizontal = s.edge[x].horizontal
  BY DEF JoinsFreed
<1>3. /\ StateType(s1) /\ Coupled(s1) /\ RecordsStay(s, s1) /\ SameStage(s, s1)
      /\ s1.actives = s.actives /\ s1.succeeded = s.succeeded
      /\ \A x \in Edge : SameSide(s, s1, x)
  BY <1>0, <1>2, RelabelledSound DEF Relabelled, SameStage, SameDrawing
<1>4. Count(s1) = Count(s) /\ \A k \in 0 .. Count(s) : InResult(s1, k) <=> InResult(s, k)
  BY <1>0, <1>3, SameResult
<1>5. /\ JoinAt(s, i + 1) = "Left" /\ IsJoined(s, d) /\ IsJoined(s, e)
      /\ ~IsHot(s, d) /\ ~IsHot(s, e)
  <2>1. PairedAt(s, i) /\ PairedAt(s, i + 1)
    BY <1>0, <1>1 DEF DrawnUpTo
  <2>2. JoinAt(s, i + 1) = "Left"
    BY <2>1 DEF PairedAt
  <2>3. IsJoined(s, d) /\ IsJoined(s, e)
    BY <1>0, <1>1, <2>2, JoinType
  <2> QED BY <2>1, <2>2, <2>3 DEF PairedAt
<1>6. JoinAt(s, i - 1) # "Right"
  <2>1. CASE i = 1
    BY <1>0, <2>1, JoinType
  <2>2. CASE i # 1
    <3>1. i - 1 \in 1 .. Count(s) /\ (i - 1) + 1 = i
      BY <1>1, <2>2
    <3>2. PairedAt(s, i - 1)
      BY <1>0, <3>1 DEF DrawnUpTo
    <3> QED BY <3>1, <3>2 DEF PairedAt
  <2> QED BY <2>1, <2>2
<1>7. \A k \in (1 .. Count(s)) \ {i, i + 1} : JoinAt(s1, k) = JoinAt(s, k) /\ Alike(s, k, s1, k)
  <2> SUFFICES ASSUME NEW k \in (1 .. Count(s)) \ {i, i + 1}
               PROVE  JoinAt(s1, k) = JoinAt(s, k) /\ Alike(s, k, s1, k)
    OBVIOUS
  <2>1. s.actives[k] \in Edge \ {d, e} /\ k \in 1 .. Count(s)
    BY <1>1
  <2>2. SameSide(s, s1, s.actives[k])
        /\ s1.edge[s.actives[k]].join_with = s.edge[s.actives[k]].join_with
    BY <1>2, <1>3, <2>1
  <2>3. Alike(s, k, s1, k)
    BY <1>0, <1>3, <2>1, <2>2, AlikeInPlace
  <2> QED BY <2>3 DEF Alike
<1>8. DrawnUpTo(s1, i - 1) /\ JoinAt(s1, i - 1) # "Right"
  <2>1. ASSUME NEW k \in 1 .. i - 1 PROVE DrawnAt(s1, k) /\ PairedAt(s1, k)
    <3>1. /\ k \in (1 .. Count(s)) \ {i, i + 1} /\ k \in 1 .. Count(s1)
          /\ k \in 0 .. Count(s) /\ k - 1 \in 0 .. Count(s)
      BY <1>1, <1>4
    <3>2. DrawnAt(s, k) /\ PairedAt(s, k) /\ Alike(s, k, s1, k)
      BY <1>0, <1>7, <3>1 DEF DrawnUpTo
    <3>3. JoinAt(s1, k + 1) = "Left" <=> JoinAt(s, k + 1) = "Left"
      <4>1. CASE k + 1 = i
        <5>1. JoinAt(s1, i) = "NoJoin"
          BY <1>1, <1>2, <1>3, <1>4 DEF JoinAt
        <5> QED BY <4>1, <5>1
      <4>2. CASE k + 1 # i
        <5>1. k + 1 \in (1 .. Count(s)) \ {i, i + 1}
          BY <1>1, <4>2
        <5> QED BY <1>7, <5>1
      <4> QED BY <4>1, <4>2
    <3>4. (InResult(s1, k - 1) <=> InResult(s, k - 1)) /\ (InResult(s1, k) <=> InResult(s, k))
      BY <1>4, <3>1
    <3>5. JoinAt(s, k) = "Left" => k > 1
      BY <3>2 DEF PairedAt
    <3> QED BY <1>0, <1>3, <3>1, <3>2, <3>3, <3>4, <3>5, DrawnAlike, PairedAlike
  <2>2. JoinAt(s1, i - 1) # "Right"
    <3>1. CASE i = 1
      BY <1>3, <3>1, JoinType
    <3>2. CASE i # 1
      <4>1. i - 1 \in (1 .. Count(s)) \ {i, i + 1}
        BY <1>1, <3>2
      <4> QED BY <1>6, <1>7, <4>1
    <3> QED BY <3>1, <3>2
  <2> QED BY <2>1, <2>2 DEF DrawnUpTo
<1>9. OpensInFront(s1, d, e, TRUE) <=> ~InResult(s, i - 1)
  <2>1. i \in 1 .. Count(s1) /\ i + 1 \in 1 .. Count(s1) /\ i + 1 > i /\ i - 1 \in 0 .. Count(s)
    BY <1>1, <1>4
  <2>2. TRUE \in BOOLEAN /\ IsInjective(s1.actives)
    BY <1>0, <1>3
  <2>3. OpensInFront(s1, s1.actives[i], s1.actives[i + 1], TRUE) <=> ~(InResult(s1, i - 1) <=> TRUE)
    BY <1>3, <1>8, <2>1, <2>2, OpensWithTheResult
  <2>4. InResult(s1, i - 1) <=> InResult(s, i - 1)
    BY <1>4, <2>1
  <2> QED BY <1>3, <2>3, <2>4
<1>10. PICK F \in BOOLEAN : F = OpensInFront(s1, d, e, TRUE)
  BY DEF OpensInFront, IsFront
<1>11. /\ Redrawn(s1, t, {d, e}) /\ IsHot(t, d) /\ IsHot(t, e)
       /\ IsFront(t, d) <=> F
       /\ IsFront(t, e) <=> ~F
  <2>1. d \in Active(s1) /\ e \in Active(s1) /\ ~IsHot(s1, d) /\ ~IsHot(s1, e)
    BY <1>1, <1>3, <1>5 DEF SameSide, Active
  <2>2. StateType(s1) /\ Coupled(s1) /\ d # e /\ Opened(s1, t, d, e, F)
    BY <1>1, <1>3, <1>10
  <2> QED BY <2>1, <2>2, MinimumDraws
<1>12. /\ StateType(t) /\ SameStage(s1, t) /\ t.succeeded = s1.succeeded /\ Coupled(t)
       /\ RecordsStay(s1, t)
       /\ \A x \in Edge : /\ t.edge[x].join_with = s1.edge[x].join_with
                          /\ t.edge[x].horizontal = s1.edge[x].horizontal
                          /\ x \notin {d, e} => SameSide(s1, t, x)
  BY <1>11, RedrawnKeeps
<1>13. SameStage(s, t) /\ RecordsStay(s, t) /\ t.succeeded
  <2>1. RecordsStay(s, t)
    BY <1>0, <1>3, <1>12, StaysTransitive
  <2> QED BY <1>0, <1>3, <1>12, <2>1 DEF SameStage, SameBounds
<1>14. \A x \in Edge \ {d, e} : SameSide(s, t, x) /\ t.edge[x].join_with = s.edge[x].join_with
  BY <1>2, <1>3, <1>12 DEF SameSide
<1>15. ~IsJoined(t, d) /\ ~IsJoined(t, e)
  BY <1>1, <1>2, <1>12 DEF IsJoined
<1>16. HorizontalsFree(t)
  BY <1>0, <1>2, <1>12, <1>14, <1>15 DEF HorizontalsFree, IsJoined
<1>17. Count(t) = Count(s) /\ \A k \in 0 .. Count(s) : InResult(t, k) <=> InResult(s, k)
  BY <1>0, <1>12, <1>13, SameResult
<1>18. t.actives = s.actives
  BY <1>13 DEF SameStage
<1>19. DrawnAt(t, i) /\ DrawnAt(t, i + 1)
  <2>1. DrawnAt(s, i) /\ DrawnAt(s, i + 1)
    BY <1>0, <1>1 DEF DrawnUpTo
  <2>2. /\ i - 1 \in 0 .. Count(s) /\ i \in 0 .. Count(s) /\ i + 1 \in 0 .. Count(s)
        /\ (i + 1) - 1 = i
    BY <1>1
  <2>3. /\ InResult(t, i - 1) <=> InResult(s, i - 1)
        /\ InResult(t, i) <=> InResult(s, i)
        /\ InResult(t, i + 1) <=> InResult(s, i + 1)
    BY <1>17, <2>2
  <2>4. ~(InResult(s, i - 1) <=> InResult(s, i)) /\ ~(InResult(s, i) <=> InResult(s, i + 1))
    BY <1>5, <2>1, <2>2 DEF DrawnAt
  <2>5. DrawnAt(t, i)
    BY <1>9, <1>10, <1>11, <1>18, <2>3, <2>4 DEF DrawnAt
  <2>6. DrawnAt(t, i + 1)
    BY <1>9, <1>10, <1>11, <1>18, <2>2, <2>3, <2>4 DEF DrawnAt
  <2> QED BY <2>5, <2>6
<1>20. Block(s, i) /\ Block(t, i)
  <2>1. JoinAt(t, i) = "NoJoin" /\ JoinAt(t, i + 1) = "NoJoin"
    BY <1>1, <1>15, <1>17, <1>18 DEF JoinAt, IsJoined
  <2> QED BY <1>5, <2>1 DEF Block
<1>21. Sound(t)
  BY <1>12, <1>13, <1>14, <1>16, <1>19, <1>20, PatchedInPlace
<1>22. Released(s, t)
  <2>1. SameWinding(s1, t)
    BY <1>3, TypedIsShaped, AddLocalMinKeepsCounts
  <2>2. SameWinding(s, t)
    BY <1>2, <2>1, SameIsTransitive DEF Relabelled
  <2>3. \A x \in Edge : ~IsJoined(s, x) => ~IsJoined(t, x) /\ SameSide(s, t, x)
    BY <1>2, <1>5, <1>12, <1>14 DEF IsJoined
  <2> QED BY <1>13, <2>2, <2>3 DEF Released
<1>23. Level(s1, t)
  BY <1>12 DEF Level
<1> QED BY <1>13, <1>15, <1>21, <1>22, <1>23

LEMMA PairSplits ==
  ASSUME NEW s, Sound(s), NEW i \in 1 .. Count(s) - 1, JoinAt(s, i) = "Right",
         NEW d, NEW e, d = s.actives[i], e = s.actives[i + 1],
         NEW s1, s1 = WithJoins(s, d, e, "NoJoin", "NoJoin"),
         NEW t, t = AddLocalMinPolygon(s1, d, e, TRUE)
  PROVE  /\ Sound(t) /\ RecordsStay(s, t) /\ Released(s, t) /\ Level(s, t)
         /\ ~IsJoined(t, d) /\ ~IsJoined(t, e)
<1>1. StateType(s) /\ d \in Edge /\ e \in Edge /\ LeftOf(s, d, e)
  BY TwoNeighbours DEF Sound
<1>2. /\ Relabelled(s, s1)
      /\ \A x \in Edge : /\ s1.edge[x].join_with
                              = IF x = e THEN "NoJoin" ELSE IF x = d THEN "NoJoin" ELSE s.edge[x].join_with
                         /\ s1.edge[x].horizontal = s.edge[x].horizontal
  BY <1>1, JoinsWritten, SMTT(30) DEF JoinStates
<1>3. StateType(s1) /\ LeftOf(s1, d, e)
  BY <1>1, <1>2 DEF Relabelled, SameStage, LeftOf, Count
<1>4. Opened(s1, t, d, e, OpensInFront(s1, d, e, TRUE))
  BY <1>1, <1>3, MinimumOpens
<1>5. SameWinding(s1, t)
  BY <1>3, TypedIsShaped, AddLocalMinKeepsCounts
<1>6. JoinsFreed(s, s1, {d, e})
  BY <1>2 DEF JoinsFreed
<1>7. Relabelled(s, s1)
  BY <1>2
<1>8. /\ Sound(t) /\ RecordsStay(s, t) /\ Released(s, t) /\ Level(s1, t)
      /\ ~IsJoined(t, d) /\ ~IsJoined(t, e)
  <2> HIDE <1>1, <1>2, <1>3
  <2> QED BY <1>4, <1>5, <1>6, <1>7, PairOpens
<1>9. Level(s, t)
  BY <1>2, <1>8 DEF Level
<1> QED BY <1>8, <1>9

LEMMA ReleasedTransitive ==
  ASSUME NEW s, NEW t, NEW u, Released(s, t), Released(t, u)
  PROVE  Released(s, u)
<1>1. SameStage(s, u)
  BY DEF Released, SameStage, SameBounds
<1>2. SameWinding(s, u)
  BY SameIsTransitive DEF Released
<1>3. \A x \in Edge : ~IsJoined(s, x) => ~IsJoined(u, x) /\ SameSide(s, u, x)
  BY DEF Released, SameSide
<1> QED BY <1>1, <1>2, <1>3 DEF Released

LEMMA ReleasedReflexive ==
  ASSUME NEW s, StateType(s), Coupled(s)
  PROVE  Released(s, s) /\ RecordsStay(s, s)
<1>1. SameWinding(s, s)
  BY TypedIsShaped, SameIsReflexive
<1>2. RecordsStay(s, s)
  BY RedrawnReflexive DEF Redrawn
<1> QED BY <1>1, <1>2 DEF Released, SameStage, SameBounds, SameSide

\* What split_edge leaves: no join at e, everything else in order.
SplitAt(s, t, e) ==
  Sound(t) /\ RecordsStay(s, t) /\ Released(s, t) /\ Level(s, t) /\ ~IsJoined(t, e)

LEMMA SplitSound ==
  ASSUME NEW s, Sound(s), NEW i \in 1 .. Count(s)
  PROVE  SplitAt(s, SplitIfJoined(s, s.actives[i]), s.actives[i])
<1> DEFINE e == s.actives[i]
<1>1. StateType(s) /\ IsInjective(s.actives) /\ Coupled(s) /\ DrawnUpTo(s, Count(s))
  BY DEF Sound
<1>2. Count(s) \in Nat /\ DOMAIN s.actives = 1 .. Count(s) /\ e \in Edge
  BY <1>1, ListDomain, EdgeOfPosition
<1>3. PositionOf(s, e) = i
  BY <1>1, <1>2, PositionIsUnique
<1>4. JoinAt(s, i) = s.edge[e].join_with /\ JoinAt(s, i) \in {"NoJoin", "Left", "Right"}
  BY <1>1, JoinType
<1>5. PairedAt(s, i)
  BY <1>1 DEF DrawnUpTo
<1>6. CASE JoinAt(s, i) = "NoJoin"
  <2>1. SplitIfJoined(s, e) = s /\ ~IsJoined(s, e)
    BY <1>4, <1>6 DEF SplitIfJoined, IsJoined
  <2> QED BY <1>1, <2>1, ReleasedReflexive DEF SplitAt, Level
<1>7. CASE JoinAt(s, i) = "Right"
  <2>1. JoinAt(s, i + 1) = "Left" /\ JoinAt(s, Count(s) + 1) = "NoJoin"
    BY <1>1, <1>5, <1>7, JoinType DEF PairedAt
  <2>2. i \in 1 .. Count(s) - 1
    BY <1>2, <2>1
  <2> DEFINE f == s.actives[i + 1]
             s1 == WithJoins(s, e, f, "NoJoin", "NoJoin")
             t == AddLocalMinPolygon(s1, e, f, TRUE)
  <2>3. NextInAel(s, e) = f
    BY <1>2, <1>3, <2>2 DEF NextInAel, At
  <2>4. SplitIfJoined(s, e) = t
    BY <1>4, <1>7, <2>3 DEF SplitIfJoined, IsJoined, SplitJoinedEdge, WithJoins
  <2>5. Sound(t) /\ RecordsStay(s, t) /\ Released(s, t) /\ Level(s, t) /\ ~IsJoined(t, e)
    BY <1>7, <2>2, PairSplits
  <2> QED BY <2>4, <2>5 DEF SplitAt
<1>8. CASE JoinAt(s, i) = "Left"
  <2> DEFINE k == i - 1
             d == s.actives[k]
             s1 == WithJoins(s, d, e, "NoJoin", "NoJoin")
             t == AddLocalMinPolygon(s1, d, e, TRUE)
  <2>1. k \in 1 .. Count(s) - 1 /\ k + 1 = i
    BY <1>2, <1>5, <1>8 DEF PairedAt
  <2>2. PairedAt(s, k)
    BY <1>1, <1>2, <2>1 DEF DrawnUpTo
  <2>3. JoinAt(s, k) = "Right"
    BY <1>8, <2>1, <2>2 DEF PairedAt
  <2>4. PrevInAel(s, e) = d
    BY <1>2, <1>3, <2>1 DEF PrevInAel, At
  <2>5. SplitIfJoined(s, e) = t
    BY <1>4, <1>8, <2>4 DEF SplitIfJoined, IsJoined, SplitJoinedEdge, WithJoins
  <2>6. e = s.actives[k + 1]
    BY <2>1
  <2>7. Sound(t) /\ RecordsStay(s, t) /\ Released(s, t) /\ Level(s, t) /\ ~IsJoined(t, e)
    <3> HIDE DEF k
    <3> QED BY <2>1, <2>3, <2>6, PairSplits
  <2> QED BY <2>5, <2>7 DEF SplitAt
<1> QED BY <1>4, <1>6, <1>7, <1>8

LEMMA SplitEdgeSound ==
  ASSUME NEW s, Sound(s), NEW e \in Active(s)
  PROVE  SplitAt(s, SplitIfJoined(s, e), e)
<1>1. PICK i \in 1 .. Count(s) : e = s.actives[i]
  BY ListDomain DEF Active, Range, Sound
<1> QED BY <1>1, SplitSound

\* Both edges of a handler are split.
LEMMA BothSplit ==
  ASSUME NEW s, Sound(s), NEW d \in Active(s), NEW e \in Active(s)
  PROVE  LET t == SplitIfJoined(SplitIfJoined(s, d), e)
         IN  SplitAt(s, t, d) /\ SplitAt(s, t, e)
<1> DEFINE s1 == SplitIfJoined(s, d)
           t == SplitIfJoined(s1, e)
<1>1. SplitAt(s, s1, d)
  BY SplitEdgeSound
<1>2. e \in Active(s1) /\ d \in Edge
  BY <1>1, EdgeAt DEF SplitAt, Released, SameStage, Active, Sound
<1>3. SplitAt(s1, t, e)
  <2> HIDE DEF s1
  <2> QED BY <1>1, <1>2, SplitEdgeSound DEF SplitAt
<1> HIDE DEF s1, t
<1>4. Released(s, t) /\ RecordsStay(s, t) /\ Sound(t)
  BY <1>1, <1>3, ReleasedTransitive, StaysTransitive DEF SplitAt, Sound
<1>5. Level(s, t)
  BY <1>1, <1>3 DEF SplitAt, Level
<1>6. ~IsJoined(t, d)
  BY <1>1, <1>2, <1>3 DEF SplitAt, Released
<1> QED BY <1>3, <1>4, <1>6, <1>5 DEF SplitAt, t, s1

-----------------------------------------------------------------------------
(* A crossing: what the counts say of the regions.                         *)

LEMMA UnjoinedKeeps ==
  ASSUME NEW s, NEW e, ~IsJoined(s, e)
  PROVE  SplitIfJoined(s, e) = s
  BY DEF SplitIfJoined

LEMMA MaximumDraws ==
  ASSUME NEW s, StateType(s), Coupled(s), NEW d \in Edge, NEW e \in Edge, LeftOf(s, d, e),
         IsHot(s, d), IsHot(s, e), ~IsJoined(s, d), ~IsJoined(s, e),
         ~(IsFront(s, d) <=> IsFront(s, e)), NEW t, t = AddLocalMaxPolygon(s, d, e)
  PROVE  Redrawn(s, t, {d, e}) /\ ~IsHot(t, d) /\ ~IsHot(t, e)
<1>1. SplitIfJoined(SplitIfJoined(s, d), e) = s
  BY UnjoinedKeeps
<1>2. IsFront(s, d) # IsFront(s, e)
  <2>1. IsFront(s, d) \in BOOLEAN /\ IsFront(s, e) \in BOOLEAN
    BY DEF IsFront
  <2> QED BY <2>1
<1>3. t = IF s.edge[d].outrec = s.edge[e].outrec THEN CloseRecord(s, d)
          ELSE IF s.edge[d].outrec < s.edge[e].outrec
          THEN JoinOutrecPaths(s, d, e) ELSE JoinOutrecPaths(s, e, d)
  BY <1>1, <1>2 DEF AddLocalMaxPolygon
<1>4. s.edge[d].outrec \in Nat /\ s.edge[e].outrec \in Nat
  BY DEF StateType, EdgeType
<1>5. \/ s.edge[d].outrec = s.edge[e].outrec /\ t = CloseRecord(s, d)
      \/ s.edge[d].outrec < s.edge[e].outrec /\ t = JoinOutrecPaths(s, d, e)
      \/ s.edge[d].outrec > s.edge[e].outrec /\ t = JoinOutrecPaths(s, e, d)
  BY <1>3, <1>4
<1> HIDE <1>1, <1>3
<1> QED BY <1>5, MeetingDraws

\* Nothing but counts is different.
Recounted(s, u) ==
  /\ StateType(u) /\ SameStage(s, u) /\ SameDrawing(s, u)
  /\ \A x \in Edge : /\ u.edge[x].join_with = s.edge[x].join_with
                     /\ u.edge[x].horizontal = s.edge[x].horizontal

LEMMA CountWritten ==
  ASSUME NEW s, StateType(s), NEW e \in Edge, NEW n \in Int
  PROVE  /\ Recounted(s, [s EXCEPT !.edge[e].winding_count = n])
         /\ Recounted(s, [s EXCEPT !.edge[e].wind_cnt2 = n])
<1> DEFINE t == [s EXCEPT !.edge[e].winding_count = n]
           u == [s EXCEPT !.edge[e].wind_cnt2 = n]
<1>1. StateType(t) /\ StateType(u)
  BY CountsType
<1>2. SameStage(s, t) /\ SameDrawing(s, t) /\ SameStage(s, u) /\ SameDrawing(s, u)
  BY DEF StateType, EdgeType, SameStage, SameBounds, SameDrawing, TablesKept, SameOutrecs
<1>3. \A x \in Edge : /\ t.edge[x].join_with = s.edge[x].join_with
                      /\ t.edge[x].horizontal = s.edge[x].horizontal
                      /\ u.edge[x].join_with = s.edge[x].join_with
                      /\ u.edge[x].horizontal = s.edge[x].horizontal
  BY DEF StateType, EdgeType
<1> HIDE DEF t, u
<1>4. Recounted(s, t) /\ Recounted(s, u)
  BY <1>1, <1>2, <1>3 DEF Recounted
<1> QED BY <1>4 DEF t, u

LEMMA RecountedTransitive ==
  ASSUME NEW s, NEW t, NEW u, Recounted(s, t), Recounted(t, u)
  PROVE  Recounted(s, u)
  BY DEF Recounted, SameStage, SameBounds, SameDrawing, TablesKept, SameOutrecs

LEMMA CountsRecounted ==
  ASSUME NEW s, StateType(s), NEW d \in Edge, NEW e \in Edge, NEW m \in Int, NEW n \in Int
  PROVE  Recounted(s, OwnCounts(s, d, e, m, n)) /\ Recounted(s, OtherCounts(s, d, e, m, n))
<1>1. /\ OwnCounts(s, d, e, m, n)
           = [[s EXCEPT !.edge[d].winding_count = m] EXCEPT !.edge[e].winding_count = n]
      /\ OtherCounts(s, d, e, m, n)
           = [[s EXCEPT !.edge[d].wind_cnt2 = m] EXCEPT !.edge[e].wind_cnt2 = n]
  BY DEF OwnCounts, OtherCounts
<1> DEFINE t == [s EXCEPT !.edge[d].winding_count = m]
           u == [s EXCEPT !.edge[d].wind_cnt2 = m]
<1>2. Recounted(s, t) /\ Recounted(s, u)
  BY CountWritten
<1> HIDE DEF t, u
<1>3. /\ Recounted(t, [t EXCEPT !.edge[e].winding_count = n])
      /\ Recounted(u, [u EXCEPT !.edge[e].wind_cnt2 = n])
  <2>1. StateType(t) /\ StateType(u)
    BY <1>2 DEF Recounted
  <2> QED BY <2>1, CountWritten
<1>4. /\ Recounted(s, [t EXCEPT !.edge[e].winding_count = n])
      /\ Recounted(s, [u EXCEPT !.edge[e].wind_cnt2 = n])
  BY <1>2, <1>3, RecountedTransitive
<1> QED BY <1>1, <1>4 DEF t, u

LEMMA UpdateRecounts ==
  ASSUME NEW s, StateType(s), NEW d \in Edge, NEW e \in Edge
  PROVE  Recounted(s, UpdateWindCounts(s, d, e))
<1> DEFINE f == s.edge[d]
           g == s.edge[e]
<1>1. /\ f.winding_count \in Int /\ f.wind_cnt2 \in Int /\ f.wind_dx \in Int
      /\ g.winding_count \in Int /\ g.wind_cnt2 \in Int /\ g.wind_dx \in Int
  BY CountsAreIntegers
<1>2. /\ \A n \in Int, x \in Int : PlusCount(n, x) \in Int
      /\ \A n \in Int : Toggled(n) \in Int
  BY DEF PlusCount, Toggled
<1>3. /\ -f.wind_dx \in Int /\ f.wind_cnt2 + g.wind_dx \in Int /\ g.wind_cnt2 - f.wind_dx \in Int
  BY <1>1
<1>4. CASE f.polytype = g.polytype /\ s.fillrule = "EvenOdd"
  <2>1. UpdateWindCounts(s, d, e) = OwnCounts(s, d, e, g.winding_count, f.winding_count)
    BY <1>4 DEF UpdateWindCounts, OwnCounts
  <2> QED BY <1>1, <2>1, CountsRecounted
<1>5. CASE f.polytype = g.polytype /\ s.fillrule # "EvenOdd"
  <2>1. UpdateWindCounts(s, d, e)
          = OwnCounts(s, d, e, PlusCount(f.winding_count, g.wind_dx),
                      PlusCount(g.winding_count, -f.wind_dx))
    BY <1>5 DEF UpdateWindCounts, OwnCounts, PlusCount
  <2>2. PlusCount(f.winding_count, g.wind_dx) \in Int /\ PlusCount(g.winding_count, -f.wind_dx) \in Int
    BY <1>1, <1>2, <1>3
  <2> QED BY <2>1, <2>2, CountsRecounted
<1>6. CASE f.polytype # g.polytype /\ s.fillrule # "EvenOdd"
  <2>1. UpdateWindCounts(s, d, e)
          = OtherCounts(s, d, e, f.wind_cnt2 + g.wind_dx, g.wind_cnt2 - f.wind_dx)
    BY <1>6 DEF UpdateWindCounts, OtherCounts
  <2> QED BY <1>3, <2>1, CountsRecounted
<1>7. CASE f.polytype # g.polytype /\ s.fillrule = "EvenOdd"
  <2>1. UpdateWindCounts(s, d, e) = OtherCounts(s, d, e, Toggled(f.wind_cnt2), Toggled(g.wind_cnt2))
    BY <1>7 DEF UpdateWindCounts, OtherCounts, Toggled
  <2>2. Toggled(f.wind_cnt2) \in Int /\ Toggled(g.wind_cnt2) \in Int
    BY <1>1, <1>2
  <2> QED BY <2>1, <2>2, CountsRecounted
<1> QED BY <1>4, <1>5, <1>6, <1>7

Fill(s, k, T) == Filled(s.fillrule, RegionWinding(s, k, T))

ResultFrom(cliptype, T, own, other) ==
  IF T = "Subject" THEN InResultOf(cliptype, own, other) ELSE InResultOf(cliptype, other, own)

\* An edge whose count is 0 or 1 bounds the filled part of its own type, and the
\* count is never 0; the other count tells whether the other type is filled.
LEMMA BoundaryCount ==
  ASSUME NEW s, s.fillrule \in {"EvenOdd", "NonZero", "Positive", "Negative"}, NEW g,
         NEW a \in Int, NEW x \in {-1, 1}, NEW o \in Int, CountsMatch(s.fillrule, g, a, a + x, o)
  PROVE  LET count == FillAdjusted(s, g.winding_count)
             bounds == ~(Filled(s.fillrule, a) <=> Filled(s.fillrule, a + x))
         IN  /\ count \in {0, 1} <=> bounds
             /\ count = 1 <=> bounds
             /\ FillAdjusted(s, g.wind_cnt2) <= 0 <=> ~Filled(s.fillrule, o)
<1>1. CASE s.fillrule = "EvenOdd"
  <2>1. g.winding_count \in {-1, 1} /\ g.wind_cnt2 = o % 2 /\ o % 2 \in {0, 1}
    BY <1>1 DEF CountsMatch
  <2>2. FillAdjusted(s, g.winding_count) = 1 /\ FillAdjusted(s, g.wind_cnt2) = o % 2
    BY <1>1, <2>1 DEF FillAdjusted, Abs
  <2>3. ~(a % 2 = 1 <=> (a + x) % 2 = 1)
    <3>1. CASE x = 1
      BY <3>1
    <3>2. CASE x = -1
      BY <3>2
    <3> QED BY <3>1, <3>2
  <2> QED BY <1>1, <2>1, <2>2, <2>3 DEF Filled
<1>2. CASE s.fillrule = "NonZero"
  <2>1. g.winding_count = Far(a, a + x) /\ g.wind_cnt2 = o
    BY <1>2 DEF CountsMatch
  <2>2. FillAdjusted(s, g.winding_count) = Abs(Far(a, a + x)) /\ FillAdjusted(s, g.wind_cnt2) = Abs(o)
    BY <1>2, <2>1 DEF FillAdjusted
  <2> QED BY <1>2, <2>2 DEF Filled, Far, Abs
<1>3. CASE s.fillrule = "Positive"
  <2>1. g.winding_count = Far(a, a + x) /\ g.wind_cnt2 = o
    BY <1>3 DEF CountsMatch
  <2>2. FillAdjusted(s, g.winding_count) = Far(a, a + x) /\ FillAdjusted(s, g.wind_cnt2) = o
    BY <1>3, <2>1 DEF FillAdjusted
  <2> QED BY <1>3, <2>2 DEF Filled, Far, Abs
<1>4. CASE s.fillrule = "Negative"
  <2>1. g.winding_count = Far(a, a + x) /\ g.wind_cnt2 = o
    BY <1>4 DEF CountsMatch
  <2>2. FillAdjusted(s, g.winding_count) = -Far(a, a + x) /\ FillAdjusted(s, g.wind_cnt2) = -o
    BY <1>4, <2>1 DEF FillAdjusted
  <2> QED BY <1>4, <2>2 DEF Filled, Far, Abs
<1> QED BY <1>1, <1>2, <1>3, <1>4

\* What the decision of intersect_edges supposes of the regions a crossing
\* meets: left (A), between before (M) and after (N), and right (C).
CrossFacts(hd, he, bd, be, exchange, starts, A, M, C, N) ==
  /\ ~hd /\ ~bd => (N <=> C)
  /\ ~he /\ ~be => (N <=> A)
  /\ hd /\ he /\ bd /\ be /\ exchange => ~(N <=> C)
  /\ hd /\ he /\ ~(bd /\ be /\ exchange) => (N <=> C)
  /\ ~(hd <=> he) /\ (hd \/ bd) /\ (he \/ be) => (N <=> M)
  /\ ~hd /\ ~he /\ bd /\ be => (starts <=> ~(N <=> A))

\* Two edges of one type: the result depends on their fill or not at all.
Lives(cliptype, T, o) ==
  CASE cliptype = "Union"        -> ~o
    [] cliptype = "Difference"   -> IF T = "Clip" THEN o ELSE ~o
    [] cliptype = "Xor"          -> TRUE
    [] cliptype = "Intersection" -> o

SameTypeCorners(ct, T, fA, fM, fC, fN, o, lives, A, M, C, N) ==
  /\ ct \in {"Intersection", "Union", "Difference", "Xor"} /\ T \in {"Subject", "Clip"}
  /\ {fA, fM, fC, fN, o, lives, A, M, C, N} \subseteq BOOLEAN
  /\ lives <=> Lives(ct, T, o)
  /\ A <=> ResultFrom(ct, T, fA, o)
  /\ M <=> ResultFrom(ct, T, fM, o)
  /\ C <=> ResultFrom(ct, T, fC, o)
  /\ N <=> ResultFrom(ct, T, fN, o)

LEMMA SameTypeFacts ==
  ASSUME NEW ct, NEW T, NEW fA, NEW fM, NEW fC, NEW fN, NEW o, NEW lives, NEW A, NEW M, NEW C, NEW N,
         SameTypeCorners(ct, T, fA, fM, fC, fN, o, lives, A, M, C, N)
  PROVE  CrossFacts(~(A <=> M), ~(M <=> C), ~(fN <=> fC), ~(fA <=> fN), TRUE, lives, A, M, C, N)
<1>0. /\ ct \in {"Intersection", "Union", "Difference", "Xor"} /\ T \in {"Subject", "Clip"}
      /\ fA \in BOOLEAN /\ fM \in BOOLEAN /\ fC \in BOOLEAN /\ fN \in BOOLEAN /\ o \in BOOLEAN
      /\ lives \in BOOLEAN /\ A \in BOOLEAN /\ M \in BOOLEAN /\ C \in BOOLEAN /\ N \in BOOLEAN
      /\ lives <=> Lives(ct, T, o)
      /\ A <=> ResultFrom(ct, T, fA, o)
      /\ M <=> ResultFrom(ct, T, fM, o)
      /\ C <=> ResultFrom(ct, T, fC, o)
      /\ N <=> ResultFrom(ct, T, fN, o)
  BY DEF SameTypeCorners
<1>1. CASE ct = "Intersection"
  <2>1. CASE T = "Subject"
    BY <1>0, <1>1, <2>1 DEF ResultFrom, InResultOf, CrossFacts, Lives
  <2>2. CASE T = "Clip"
    BY <1>0, <1>1, <2>2 DEF ResultFrom, InResultOf, CrossFacts, Lives
  <2> QED BY <1>0, <2>1, <2>2
<1>2. CASE ct = "Union"
  <2>1. CASE T = "Subject"
    BY <1>0, <1>2, <2>1 DEF ResultFrom, InResultOf, CrossFacts, Lives
  <2>2. CASE T = "Clip"
    BY <1>0, <1>2, <2>2 DEF ResultFrom, InResultOf, CrossFacts, Lives
  <2> QED BY <1>0, <2>1, <2>2
<1>3. CASE ct = "Difference"
  <2>1. CASE T = "Subject"
    BY <1>0, <1>3, <2>1 DEF ResultFrom, InResultOf, CrossFacts, Lives
  <2>2. CASE T = "Clip"
    BY <1>0, <1>3, <2>2 DEF ResultFrom, InResultOf, CrossFacts, Lives
  <2> QED BY <1>0, <2>1, <2>2
<1>4. CASE ct = "Xor"
  <2>1. CASE T = "Subject"
    BY <1>0, <1>4, <2>1 DEF ResultFrom, InResultOf, CrossFacts, Lives
  <2>2. CASE T = "Clip"
    BY <1>0, <1>4, <2>2 DEF ResultFrom, InResultOf, CrossFacts, Lives
  <2> QED BY <1>0, <2>1, <2>2
<1> QED BY <1>0, <1>1, <1>2, <1>3, <1>4

\* Two edges of different types: four corners, of which exactly one differs from
\* the others unless the operation is Xor.
OtherTypeCorners(ct, T, p0, p1, q0, q1, A, M, C, N) ==
  /\ ct \in {"Intersection", "Union", "Difference", "Xor"} /\ T \in {"Subject", "Clip"}
  /\ {p0, p1, q0, q1, A, M, C, N} \subseteq BOOLEAN
  /\ A <=> ResultFrom(ct, T, p0, q0)
  /\ M <=> ResultFrom(ct, T, p1, q0)
  /\ C <=> ResultFrom(ct, T, p1, q1)
  /\ N <=> ResultFrom(ct, T, p0, q1)

LEMMA OtherTypeFacts ==
  ASSUME NEW ct, NEW T, NEW p0, NEW p1, NEW q0, NEW q1, NEW A, NEW M, NEW C, NEW N,
         OtherTypeCorners(ct, T, p0, p1, q0, q1, A, M, C, N)
  PROVE  CrossFacts(~(A <=> M), ~(M <=> C), ~(p0 <=> p1), ~(q0 <=> q1), ct = "Xor", TRUE, A, M, C, N)
<1>0. /\ ct \in {"Intersection", "Union", "Difference", "Xor"} /\ T \in {"Subject", "Clip"}
      /\ p0 \in BOOLEAN /\ p1 \in BOOLEAN /\ q0 \in BOOLEAN /\ q1 \in BOOLEAN
      /\ A \in BOOLEAN /\ M \in BOOLEAN /\ C \in BOOLEAN /\ N \in BOOLEAN
      /\ A <=> ResultFrom(ct, T, p0, q0)
      /\ M <=> ResultFrom(ct, T, p1, q0)
      /\ C <=> ResultFrom(ct, T, p1, q1)
      /\ N <=> ResultFrom(ct, T, p0, q1)
  BY DEF OtherTypeCorners
<1>1. CASE ct = "Intersection"
  <2>1. CASE T = "Subject"
    BY <1>0, <1>1, <2>1 DEF ResultFrom, InResultOf, CrossFacts
  <2>2. CASE T = "Clip"
    BY <1>0, <1>1, <2>2 DEF ResultFrom, InResultOf, CrossFacts
  <2> QED BY <1>0, <2>1, <2>2
<1>2. CASE ct = "Union"
  <2>1. CASE T = "Subject"
    BY <1>0, <1>2, <2>1 DEF ResultFrom, InResultOf, CrossFacts
  <2>2. CASE T = "Clip"
    BY <1>0, <1>2, <2>2 DEF ResultFrom, InResultOf, CrossFacts
  <2> QED BY <1>0, <2>1, <2>2
<1>3. CASE ct = "Difference"
  <2>1. CASE T = "Subject"
    BY <1>0, <1>3, <2>1 DEF ResultFrom, InResultOf, CrossFacts
  <2>2. CASE T = "Clip"
    BY <1>0, <1>3, <2>2 DEF ResultFrom, InResultOf, CrossFacts
  <2> QED BY <1>0, <2>1, <2>2
<1>4. CASE ct = "Xor"
  <2>1. CASE T = "Subject"
    BY <1>0, <1>4, <2>1 DEF ResultFrom, InResultOf, CrossFacts
  <2>2. CASE T = "Clip"
    BY <1>0, <1>4, <2>2 DEF ResultFrom, InResultOf, CrossFacts
  <2> QED BY <1>0, <2>1, <2>2
<1> QED BY <1>0, <1>1, <1>2, <1>3, <1>4

\* The list with the neighbours at i and i + 1 exchanged.
Exchanges(s, t, i) ==
  /\ StateType(t) /\ Count(t) = Count(s)
  /\ t.cliptype = s.cliptype /\ t.fillrule = s.fillrule /\ SameBounds(s, t)
  /\ t.actives[i] = s.actives[i + 1] /\ t.actives[i + 1] = s.actives[i]
  /\ \A k \in (1 .. Count(s)) \ {i, i + 1} : t.actives[k] = s.actives[k]

SumsApart(s, t, i, T) ==
  \A j \in (0 .. Count(s)) \ {i} : RegionWinding(t, j, T) = RegionWinding(s, j, T)

LEMMA ExchangeRegions ==
  ASSUME NEW s, StateType(s), NEW i \in 1 .. Count(s) - 1, NEW t, Exchanges(s, t, i), NEW T
  PROVE  SumsApart(s, t, i, T)
<1>1. StateType(t) /\ Count(t) = Count(s) /\ Count(s) \in Nat
  BY ListDomain DEF Exchanges
<1>2. \A x \in Edge : t.edge[x].polytype = s.edge[x].polytype /\ t.edge[x].wind_dx = s.edge[x].wind_dx
  BY DEF Exchanges, SameBounds
<1>3. \A k \in 1 .. Count(s) : s.actives[k] \in Edge
  BY EdgeOfPosition
<1>4. \A j \in (1 .. Count(s)) \ {i, i + 1} : Term(t, j, T) = Term(s, j, T)
  BY <1>2, <1>3 DEF Exchanges, Term
<1>5. i \in 1 .. Count(s) /\ i + 1 \in 1 .. Count(s)
  BY <1>1
<1>6. Term(t, i, T) = Term(s, i + 1, T) /\ Term(t, i + 1, T) = Term(s, i, T)
  BY <1>2, <1>3, <1>5 DEF Exchanges, Term
<1> QED BY <1>1, <1>4, <1>6, ExchangedSums DEF SumsApart

LEMMA FillIsBoolean ==
  ASSUME NEW s, StateType(s), NEW k \in 0 .. Count(s), NEW T
  PROVE  Fill(s, k, T) \in BOOLEAN
<1>1. RegionWinding(s, k, T) \in Int
  BY RegionStep
<1> QED BY <1>1, FilledIsBoolean DEF Fill, StateType

LEMMA FillsGiveResult ==
  ASSUME NEW s, StateType(s), NEW k \in 0 .. Count(s), NEW T \in {"Subject", "Clip"}
  PROVE  /\ InResult(s, k) \in BOOLEAN
         /\ InResult(s, k) <=> ResultFrom(s.cliptype, T, Fill(s, k, T), Fill(s, k, Other(T)))
<1>1. CASE T = "Subject"
  BY <1>1, ResultOfFills DEF ResultFrom, Fill, Other
<1>2. CASE T = "Clip"
  BY <1>2, ResultOfFills DEF ResultFrom, Fill, Other
<1> QED BY <1>1, <1>2

\* What the counts of the edge at position k, in u, say of the regions beside it.
EdgeTells(t, k, u, e, T) ==
  LET count == FillAdjusted(u, u.edge[e].winding_count)
      bounds == ~(Fill(t, k - 1, T) <=> Fill(t, k, T))
  IN  /\ count \in {0, 1} <=> bounds
      /\ count = 1 <=> bounds
      /\ FillAdjusted(u, u.edge[e].wind_cnt2) <= 0 <=> ~Fill(t, k, Other(T))
      /\ Fill(t, k, Other(T)) = Fill(t, k - 1, Other(T))

LEMMA EdgeTellsFills ==
  ASSUME NEW t, StateType(t), Matches(t), NEW k \in 1 .. Count(t), NEW e, e = t.actives[k],
         NEW u, u.fillrule = t.fillrule, SameCounts(u.edge[e], t.edge[e]),
         NEW T, T = t.edge[e].polytype
  PROVE  EdgeTells(t, k, u, e, T)
<1> DEFINE g == u.edge[e]
           x == t.edge[e].wind_dx
           a == RegionWinding(t, k - 1, T)
           b == RegionWinding(t, k, T)
           o == RegionWinding(t, k, Other(T))
<1>1. MatchesAt(t, k) /\ T \in {"Subject", "Clip"} /\ x \in {-1, 1} /\ Other(T) # T
  BY EdgeOfPosition DEF Matches, Other
<1>2. CountsMatch(t.fillrule, t.edge[e], a, b, o)
  BY <1>1 DEF MatchesAt
<1>3. CountsMatch(u.fillrule, g, a, b, o)
  BY <1>2 DEF CountsMatch, SameCounts
<1>4. Term(t, k, T) = x /\ Term(t, k, Other(T)) = 0
  BY <1>1 DEF Term
<1>5. k \in 0 .. Count(t) /\ k - 1 \in 0 .. Count(t)
  BY ListDomain
<1>6. a \in Int /\ b = a + x /\ o \in Int
  BY <1>4, <1>5, RegionStep
<1>7. o = RegionWinding(t, k - 1, Other(T))
  <2>1. /\ o = RegionWinding(t, k - 1, Other(T)) + Term(t, k, Other(T))
        /\ RegionWinding(t, k - 1, Other(T)) \in Int
    BY <1>5, RegionStep
  <2> QED BY <1>4, <2>1
<1>8. u.fillrule \in {"EvenOdd", "NonZero", "Positive", "Negative"}
  BY DEF StateType
<1>9. LET count == FillAdjusted(u, g.winding_count)
          bounds == ~(Filled(u.fillrule, a) <=> Filled(u.fillrule, a + x))
      IN  /\ count \in {0, 1} <=> bounds
          /\ count = 1 <=> bounds
          /\ FillAdjusted(u, g.wind_cnt2) <= 0 <=> ~Filled(u.fillrule, o)
  <2>1. CountsMatch(u.fillrule, g, a, a + x, o)
    BY <1>3, <1>6
  <2> HIDE DEF g, x, a, b, o
  <2> QED BY <1>1, <1>6, <1>8, <2>1, BoundaryCount
<1> QED BY <1>6, <1>7, <1>9 DEF EdgeTells, Fill

\* The local minimum that intersect_edges starts between two cold edges.
StartsMinimum(u, d, e) ==
  \/ ~SamePolyType(u, d, e)
  \/ /\ FillAdjusted(u, u.edge[d].winding_count) = 1 /\ FillAdjusted(u, u.edge[e].winding_count) = 1
     /\ StartsLocalMinimum(u, d, e)

Crosses(u, d, e, A, M, C, N) ==
  LET in01(x) == FillAdjusted(u, u.edge[x].winding_count) \in {0, 1}
  IN  CrossFacts(~(A <=> M), ~(M <=> C), in01(d), in01(e), SamePolyType(u, d, e) \/ u.cliptype = "Xor",
                 StartsMinimum(u, d, e), A, M, C, N)

LEMMA OtherFillPasses ==
  ASSUME NEW s, StateType(s), NEW k \in 1 .. Count(s), NEW T, T = s.edge[s.actives[k]].polytype
  PROVE  Fill(s, k, Other(T)) = Fill(s, k - 1, Other(T))
<1>1. T \in {"Subject", "Clip"} /\ Other(T) # T
  BY EdgeOfPosition DEF Other
<1>2. Term(s, k, Other(T)) = 0
  BY <1>1 DEF Term
<1>3. k - 1 \in 0 .. Count(s)
  BY ListDomain
<1>4. /\ RegionWinding(s, k, Other(T)) = RegionWinding(s, k - 1, Other(T)) + Term(s, k, Other(T))
      /\ RegionWinding(s, k - 1, Other(T)) \in Int
  BY <1>3, RegionStep
<1>5. RegionWinding(s, k, Other(T)) = RegionWinding(s, k - 1, Other(T))
  BY <1>2, <1>4
<1> QED BY <1>5 DEF Fill

LEMMA ResultApart ==
  ASSUME NEW s, StateType(s), NEW i \in 1 .. Count(s) - 1, NEW t, Exchanges(s, t, i)
  PROVE  /\ \A k \in (0 .. Count(s)) \ {i} : InResult(t, k) <=> InResult(s, k)
         /\ \A T : Fill(t, i - 1, T) = Fill(s, i - 1, T) /\ Fill(t, i + 1, T) = Fill(s, i + 1, T)
<1>1. StateType(t) /\ Count(t) = Count(s) /\ Count(s) \in Nat
      /\ t.cliptype = s.cliptype /\ t.fillrule = s.fillrule
  BY ListDomain DEF Exchanges
<1>2. ASSUME NEW k \in (0 .. Count(s)) \ {i} PROVE InResult(t, k) <=> InResult(s, k)
  <2>1. \A T \in {"Subject", "Clip"} : RegionWinding(t, k, T) = RegionWinding(s, k, T)
    BY <1>2, ExchangeRegions DEF SumsApart
  <2>2. k \in 0 .. Count(s) /\ k \in 0 .. Count(t)
    BY <1>1, <1>2
  <2> QED BY <1>1, <2>1, <2>2, SumsGiveResult
<1>3. ASSUME NEW T PROVE Fill(t, i - 1, T) = Fill(s, i - 1, T) /\ Fill(t, i + 1, T) = Fill(s, i + 1, T)
  <2>1. i - 1 \in (0 .. Count(s)) \ {i} /\ i + 1 \in (0 .. Count(s)) \ {i}
    BY <1>1
  <2>2. /\ RegionWinding(t, i - 1, T) = RegionWinding(s, i - 1, T)
        /\ RegionWinding(t, i + 1, T) = RegionWinding(s, i + 1, T)
    BY <2>1, ExchangeRegions DEF SumsApart
  <2> QED BY <1>1, <2>2 DEF Fill
<1> QED BY <1>2, <1>3

LEMMA CrossTells ==
  ASSUME NEW s, StateType(s), NEW i \in 1 .. Count(s) - 1, NEW t, Exchanges(s, t, i), Matches(t),
         NEW d, d = s.actives[i], NEW e, e = s.actives[i + 1],
         NEW u, StateType(u), SameStage(s, u),
         SameCounts(u.edge[d], t.edge[d]), SameCounts(u.edge[e], t.edge[e])
  PROVE  Crosses(u, d, e, InResult(s, i - 1), InResult(s, i), InResult(s, i + 1), InResult(t, i))
<1> DEFINE T == s.edge[d].polytype
           V == s.edge[e].polytype
<1>1. /\ Count(s) \in Nat /\ Count(t) = Count(s) /\ StateType(t)
      /\ i \in 1 .. Count(s) /\ i + 1 \in 1 .. Count(s) /\ (i + 1) - 1 = i
      /\ i - 1 \in 0 .. Count(s) /\ i \in 0 .. Count(s) /\ i + 1 \in 0 .. Count(s)
  BY ListDomain DEF Exchanges
<1>2. T \in {"Subject", "Clip"} /\ V \in {"Subject", "Clip"} /\ d \in Edge /\ e \in Edge
  BY <1>1, EdgeOfPosition
<1>3. /\ T = t.edge[d].polytype /\ V = t.edge[e].polytype
      /\ T = u.edge[d].polytype /\ V = u.edge[e].polytype
      /\ e = t.actives[i] /\ d = t.actives[i + 1]
  BY <1>2 DEF Exchanges, SameBounds, SameStage
<1>4. u.fillrule = t.fillrule /\ u.cliptype = s.cliptype /\ t.cliptype = s.cliptype
      /\ s.cliptype \in {"Intersection", "Union", "Difference", "Xor"}
  BY DEF Exchanges, SameStage, StateType
<1>5. EdgeTells(t, i, u, e, V) /\ EdgeTells(t, i + 1, u, d, T)
  BY <1>1, <1>3, <1>4, EdgeTellsFills
<1>6. /\ Fill(s, i, Other(T)) = Fill(s, i - 1, Other(T))
      /\ Fill(s, i + 1, Other(V)) = Fill(s, i, Other(V))
  <2>1. ((i + 1) - 1) = i
    BY <1>1
  <2> HIDE DEF T, V
  <2>2. Fill(s, i, Other(T)) = Fill(s, i - 1, Other(T))
    BY <1>1, OtherFillPasses DEF T
  <2>3. Fill(s, i + 1, Other(V)) = Fill(s, (i + 1) - 1, Other(V))
    BY <1>1, OtherFillPasses DEF V
  <2> QED BY <2>1, <2>2, <2>3
<1>7. \A W : Fill(t, i - 1, W) = Fill(s, i - 1, W) /\ Fill(t, i + 1, W) = Fill(s, i + 1, W)
  BY ResultApart
<1>8. /\ Fill(t, i, Other(V)) = Fill(s, i - 1, Other(V))
      /\ Fill(s, i + 1, Other(T)) = Fill(t, i, Other(T))
  <2>1. /\ Fill(t, i, Other(V)) = Fill(t, i - 1, Other(V))
        /\ Fill(t, i + 1, Other(T)) = Fill(t, i, Other(T))
    BY <1>1, <1>5 DEF EdgeTells
  <2> QED BY <1>7, <2>1
<1>9. \A W : /\ Fill(s, i - 1, W) \in BOOLEAN /\ Fill(s, i, W) \in BOOLEAN /\ Fill(s, i + 1, W) \in BOOLEAN
             /\ Fill(t, i, W) \in BOOLEAN
  BY <1>1, FillIsBoolean
<1>10. PICK fA \in BOOLEAN, fM \in BOOLEAN, fC \in BOOLEAN, fN \in BOOLEAN :
         fA = Fill(s, i - 1, T) /\ fM = Fill(s, i, T) /\ fC = Fill(s, i + 1, T) /\ fN = Fill(t, i, T)
  BY <1>9
<1>11. PICK gA \in BOOLEAN, gM \in BOOLEAN, gC \in BOOLEAN, gN \in BOOLEAN :
         /\ gA = Fill(s, i - 1, Other(T)) /\ gM = Fill(s, i, Other(T))
         /\ gC = Fill(s, i + 1, Other(T)) /\ gN = Fill(t, i, Other(T))
  BY <1>9
<1>12. PICK A \in BOOLEAN, M \in BOOLEAN, C \in BOOLEAN, N \in BOOLEAN :
         A = InResult(s, i - 1) /\ M = InResult(s, i) /\ C = InResult(s, i + 1) /\ N = InResult(t, i)
  BY <1>1, FillsGiveResult
<1>13. /\ A <=> ResultFrom(s.cliptype, T, fA, gA)
       /\ M <=> ResultFrom(s.cliptype, T, fM, gM)
       /\ C <=> ResultFrom(s.cliptype, T, fC, gC)
       /\ N <=> ResultFrom(s.cliptype, T, fN, gN)
  <2>1. /\ InResult(s, i - 1) <=> ResultFrom(s.cliptype, T, Fill(s, i - 1, T), Fill(s, i - 1, Other(T)))
        /\ InResult(s, i) <=> ResultFrom(s.cliptype, T, Fill(s, i, T), Fill(s, i, Other(T)))
        /\ InResult(s, i + 1) <=> ResultFrom(s.cliptype, T, Fill(s, i + 1, T), Fill(s, i + 1, Other(T)))
        /\ InResult(t, i) <=> ResultFrom(s.cliptype, T, Fill(t, i, T), Fill(t, i, Other(T)))
    BY <1>1, <1>2, <1>4, FillsGiveResult
  <2> QED BY <1>10, <1>11, <1>12, <2>1
<1>14. SamePolyType(u, d, e) <=> T = V
  BY <1>3 DEF SamePolyType
<1>15. /\ FillAdjusted(u, u.edge[d].winding_count) \in {0, 1} <=> ~(fN <=> fC)
       /\ FillAdjusted(u, u.edge[d].winding_count) = 1 <=> ~(fN <=> fC)
       /\ FillAdjusted(u, u.edge[d].wind_cnt2) <= 0 <=> ~gC
  <2>1. /\ Fill(t, (i + 1) - 1, T) = fN /\ Fill(t, i + 1, T) = fC
        /\ Fill(t, i + 1, Other(T)) = gC
    BY <1>1, <1>7, <1>10, <1>11
  <2> QED BY <1>5, <2>1 DEF EdgeTells
<1> SUFFICES Crosses(u, d, e, A, M, C, N)
  BY <1>12
<1>16. CASE T = V
  <2>1. gA = gM /\ gM = gC /\ gN = gA
    BY <1>6, <1>8, <1>11, <1>16
  <2>2. /\ FillAdjusted(u, u.edge[e].winding_count) \in {0, 1} <=> ~(fA <=> fN)
        /\ FillAdjusted(u, u.edge[e].winding_count) = 1 <=> ~(fA <=> fN)
        /\ FillAdjusted(u, u.edge[e].wind_cnt2) <= 0 <=> ~gN
    <3>1. Fill(t, i - 1, V) = fA /\ Fill(t, i, V) = fN /\ Fill(t, i, Other(V)) = gN
      BY <1>7, <1>10, <1>11, <1>16
    <3> QED BY <1>5, <3>1 DEF EdgeTells
  <2>3. u.edge[d].polytype = T /\ SamePolyType(u, d, e)
    BY <1>3, <1>14, <1>16
  <2> HIDE DEF T, V
  <2>4. PICK lives \in BOOLEAN : lives <=> Lives(s.cliptype, T, gA)
    OBVIOUS
  <2>5. CrossFacts(~(A <=> M), ~(M <=> C), ~(fN <=> fC), ~(fA <=> fN), TRUE, lives, A, M, C, N)
    <3>1. /\ A <=> ResultFrom(s.cliptype, T, fA, gA)
          /\ M <=> ResultFrom(s.cliptype, T, fM, gA)
          /\ C <=> ResultFrom(s.cliptype, T, fC, gA)
          /\ N <=> ResultFrom(s.cliptype, T, fN, gA)
      BY <1>13, <2>1
    <3>2. SameTypeCorners(s.cliptype, T, fA, fM, fC, fN, gA, lives, A, M, C, N)
      BY <1>2, <1>4, <2>4, <3>1 DEF SameTypeCorners
    <3> QED BY <3>2, SameTypeFacts DEF CrossFacts
  <2>6. StartsLocalMinimum(u, d, e) <=> lives
    BY <2>4, <1>4, <1>15, <2>1, <2>2, <2>3 DEF StartsLocalMinimum, Lives
  <2> QED BY <1>15, <2>2, <2>3, <2>5, <2>6 DEF Crosses, CrossFacts, StartsMinimum
<1>17. CASE T # V
  <2>1. Other(T) = V /\ Other(V) = T
    BY <1>2, <1>17 DEF Other
  <2>2. fM = fC /\ gM = gA /\ fN = fA /\ gC = gN
    BY <1>6, <1>8, <1>10, <1>11, <2>1
  <2>3. FillAdjusted(u, u.edge[e].winding_count) \in {0, 1} <=> ~(gA <=> gC)
    <3>1. Fill(t, i - 1, V) = gA /\ Fill(t, i, V) = gN
      BY <1>7, <1>11, <2>1
    <3> QED BY <1>5, <2>2, <3>1 DEF EdgeTells
  <2>4. ~SamePolyType(u, d, e)
    BY <1>14, <1>17
  <2> HIDE DEF T, V
  <2>5. CrossFacts(~(A <=> M), ~(M <=> C), ~(fA <=> fC), ~(gA <=> gC), s.cliptype = "Xor", TRUE, A, M, C, N)
    <3>1. /\ A <=> ResultFrom(s.cliptype, T, fA, gA)
          /\ M <=> ResultFrom(s.cliptype, T, fC, gA)
          /\ C <=> ResultFrom(s.cliptype, T, fC, gC)
          /\ N <=> ResultFrom(s.cliptype, T, fA, gC)
      BY <1>13, <2>2
    <3>2. OtherTypeCorners(s.cliptype, T, fA, fC, gA, gC, A, M, C, N)
      BY <1>2, <1>4, <3>1 DEF OtherTypeCorners
    <3> QED BY <3>2, OtherTypeFacts
  <2> QED BY <1>4, <1>15, <2>2, <2>3, <2>4, <2>5 DEF Crosses, CrossFacts, StartsMinimum
<1> QED BY <1>16, <1>17

-----------------------------------------------------------------------------
(* A crossing: the records follow the regions.                             *)

\* Counts and the direction of an edge are no part of the drawing.
LEMMA CarriedSound ==
  ASSUME NEW s, Sound(s), NEW u, StateType(u), SameStage(s, u), SameDrawing(s, u), HorizontalsFree(u),
         \A x \in Edge : u.edge[x].join_with = s.edge[x].join_with
  PROVE  Sound(u) /\ RecordsStay(s, u) /\ \A x \in Edge : SameSide(s, u, x)
<1>1. /\ StateType(s) /\ IsInjective(s.actives) /\ s.succeeded /\ Coupled(s)
      /\ DrawnUpTo(s, Count(s))
  BY DEF Sound
<1>2. /\ StateType(u) /\ SameStage(s, u) /\ SameDrawing(s, u)
      /\ \A x \in Edge : u.edge[x].join_with = s.edge[x].join_with
  OBVIOUS
<1>3. u.actives = s.actives /\ u.succeeded = s.succeeded
  BY <1>2 DEF SameStage, SameDrawing
<1>4. Coupled(u) /\ RecordsStay(s, u) /\ \A x \in Edge : SameSide(s, u, x)
  <2>1. \A x \in Edge : IsHot(s, x) => x \in Active(u)
    BY <1>1, <1>3 DEF Coupled, HoldsSide, Active
  <2> QED BY <1>1, <1>2, <2>1, DrawingCarries
<1>6. Count(u) = Count(s) /\ \A k \in 0 .. Count(s) : InResult(u, k) <=> InResult(s, k)
  BY <1>1, <1>2, SameResult
<1>7. Count(s) \in Nat
  BY <1>1, ListDomain
<1>8. \A k \in 1 .. Count(s) : Alike(s, k, u, k)
  <2> SUFFICES ASSUME NEW k \in 1 .. Count(s) PROVE Alike(s, k, u, k)
    OBVIOUS
  <2>1. s.actives[k] \in Edge
    BY <1>1, EdgeOfPosition
  <2> QED BY <1>1, <1>2, <1>4, <2>1, AlikeInPlace
<1>9. DrawnUpTo(u, Count(u))
  <2> SUFFICES ASSUME NEW k \in 1 .. Count(u) PROVE DrawnAt(u, k) /\ PairedAt(u, k)
    BY DEF DrawnUpTo
  <2>1. k \in 1 .. Count(s) /\ k \in 0 .. Count(s) /\ k - 1 \in 0 .. Count(s)
    BY <1>6, <1>7
  <2>2. DrawnAt(s, k) /\ PairedAt(s, k) /\ Alike(s, k, u, k)
    BY <1>1, <1>8, <2>1 DEF DrawnUpTo
  <2>3. JoinAt(u, k + 1) = JoinAt(s, k + 1)
    BY <1>1, <1>2, <1>3, <1>6, <1>7, EdgeOfPosition DEF JoinAt
  <2>4. JoinAt(s, k) = "Left" => k > 1
    BY <2>2 DEF PairedAt
  <2>5. (InResult(u, k - 1) <=> InResult(s, k - 1)) /\ (InResult(u, k) <=> InResult(s, k))
    BY <1>6, <2>1
  <2>6. DrawnAt(u, k)
    BY <1>1, <1>2, <2>1, <2>2, <2>5, DrawnAlike
  <2>7. PairedAt(u, k)
    BY <1>1, <1>2, <2>1, <2>2, <2>3, <2>4, PairedAlike
  <2> QED BY <2>6, <2>7
<1> QED BY <1>1, <1>2, <1>3, <1>4, <1>9 DEF Sound

LEMMA RecountedSound ==
  ASSUME NEW s, Sound(s), NEW u, Recounted(s, u)
  PROVE  Sound(u) /\ RecordsStay(s, u) /\ \A x \in Edge : SameSide(s, u, x)
<1>1. /\ StateType(u) /\ SameStage(s, u) /\ SameDrawing(s, u)
      /\ \A x \in Edge : /\ u.edge[x].join_with = s.edge[x].join_with
                         /\ u.edge[x].horizontal = s.edge[x].horizontal
  BY DEF Recounted
<1>2. HorizontalsFree(u)
  BY <1>1 DEF Sound, HorizontalsFree, IsJoined
<1> QED BY <1>1, <1>2, CarriedSound

\* Left of two unjoined neighbours whose records are redrawn nothing changes.
LEMMA DrawnBefore ==
  ASSUME NEW s, Sound(s), NEW i \in 1 .. Count(s) - 1, NEW d, d = s.actives[i],
         NEW e, e = s.actives[i + 1], ~IsJoined(s, d), NEW t, Redrawn(s, t, {d, e})
  PROVE  /\ StateType(t) /\ IsInjective(t.actives) /\ Count(t) = Count(s) /\ t.actives = s.actives
         /\ DrawnUpTo(t, i - 1) /\ JoinAt(t, i - 1) # "Right"
         /\ InResult(t, i - 1) <=> InResult(s, i - 1)
<1>1. StateType(s) /\ IsInjective(s.actives) /\ DrawnUpTo(s, Count(s))
  BY DEF Sound
<1>2. /\ Count(s) \in Nat /\ i \in Nat /\ i \in 1 .. Count(s)
      /\ \A k \in (1 .. Count(s)) \ {i, i + 1} : s.actives[k] \in Edge \ {d, e}
  BY <1>1, TwoNeighbours
<1>3. /\ StateType(t) /\ SameStage(s, t)
      /\ \A x \in Edge : /\ t.edge[x].join_with = s.edge[x].join_with
                         /\ x \notin {d, e} => SameSide(s, t, x)
  BY RedrawnKeeps
<1>4. t.actives = s.actives
  BY <1>3 DEF SameStage
<1>5. Count(t) = Count(s) /\ \A k \in 0 .. Count(s) : InResult(t, k) <=> InResult(s, k)
  BY <1>1, <1>3, SameResult
<1>6. \A k : JoinAt(t, k) = JoinAt(s, k)
  <2>1. \A k \in 1 .. Count(s) : s.actives[k] \in Edge
    BY <1>1, EdgeOfPosition
  <2> QED BY <1>3, <1>4, <1>5, <2>1 DEF JoinAt
<1>7. JoinAt(s, i - 1) # "Right"
  <2>1. JoinAt(s, i) = "NoJoin"
    BY <1>1, <1>2, JoinType
  <2>2. CASE i = 1
    BY <1>1, <2>2, JoinType
  <2>3. CASE i # 1
    <3>1. i - 1 \in 1 .. Count(s) /\ (i - 1) + 1 = i
      BY <1>2, <2>3
    <3>2. PairedAt(s, i - 1)
      BY <1>1, <3>1 DEF DrawnUpTo
    <3> QED BY <2>1, <3>1, <3>2 DEF PairedAt
  <2> QED BY <2>2, <2>3
<1>8. ASSUME NEW k \in 1 .. i - 1 PROVE DrawnAt(t, k) /\ PairedAt(t, k)
  <2>1. /\ k \in (1 .. Count(s)) \ {i, i + 1} /\ k \in 1 .. Count(s) /\ k \in 1 .. Count(t)
        /\ k \in 0 .. Count(s) /\ k - 1 \in 0 .. Count(s)
    BY <1>2, <1>5
  <2>2. s.actives[k] \in Edge \ {d, e}
    BY <1>2, <2>1
  <2>3. SameSide(s, t, s.actives[k]) /\ t.edge[s.actives[k]].join_with = s.edge[s.actives[k]].join_with
    BY <1>3, <2>2
  <2>4. Alike(s, k, t, k)
    BY <1>1, <1>3, <2>1, <2>3, AlikeInPlace
  <2>5. DrawnAt(s, k) /\ PairedAt(s, k)
    BY <1>1, <2>1 DEF DrawnUpTo
  <2>6. (InResult(t, k - 1) <=> InResult(s, k - 1)) /\ (InResult(t, k) <=> InResult(s, k))
    BY <1>5, <2>1
  <2>7. JoinAt(s, k) = "Left" => k > 1
    BY <2>5 DEF PairedAt
  <2>8. DrawnAt(t, k)
    BY <1>1, <1>3, <2>1, <2>4, <2>5, <2>6, DrawnAlike
  <2>9. PairedAt(t, k)
    BY <1>1, <1>3, <1>6, <2>1, <2>4, <2>5, <2>7, PairedAlike
  <2> QED BY <2>8, <2>9
<1>9. i - 1 \in 0 .. Count(s)
  BY <1>2
<1> QED BY <1>1, <1>3, <1>4, <1>5, <1>6, <1>7, <1>8, <1>9 DEF DrawnUpTo

\* The two edges after the crossing, e on the left: each is hot when it bounds
\* the result, and in front when the result is on its right.
DrawnAs(w, d, e, A, N, C) ==
  /\ IsHot(w, e) <=> ~(A <=> N)
  /\ IsHot(w, e) => (IsFront(w, e) <=> N)
  /\ IsHot(w, d) <=> ~(N <=> C)
  /\ IsHot(w, d) => (IsFront(w, d) <=> C)

Reopened(s, u, d, e, A) ==
  /\ Redrawn(s, u, {d, e}) /\ IsHot(u, d) /\ IsHot(u, e)
  /\ IsFront(u, d) <=> A
  /\ IsFront(u, e) <=> ~A

\* A record opened between two cold unjoined neighbours.
OpenedBetween(s, u, d, e, A, b) ==
  /\ Redrawn(s, u, {d, e}) /\ IsHot(u, d) /\ IsHot(u, e)
  /\ IsFront(u, d) <=> ~(A <=> b)
  /\ IsFront(u, e) <=> (A <=> b)

LEMMA OpensBetween ==
  ASSUME NEW s, Sound(s), NEW i \in 1 .. Count(s) - 1, NEW d, d = s.actives[i],
         NEW e, e = s.actives[i + 1], ~IsJoined(s, d), NEW t, Redrawn(s, t, {d, e}),
         ~IsHot(t, d), ~IsHot(t, e), NEW b \in BOOLEAN
  PROVE  OpenedBetween(s, AddLocalMinPolygon(t, d, e, b), d, e, InResult(s, i - 1), b)
<1> DEFINE u == AddLocalMinPolygon(t, d, e, b)
<1>1. StateType(s) /\ IsInjective(s.actives)
  BY DEF Sound
<1>2. /\ Count(s) \in Nat /\ i \in 1 .. Count(s) /\ i + 1 \in 1 .. Count(s) /\ i + 1 > i
      /\ d \in Edge /\ e \in Edge /\ d # e /\ d \in Active(s) /\ e \in Active(s) /\ LeftOf(s, d, e)
  BY <1>1, TwoNeighbours
<1>3. /\ StateType(t) /\ IsInjective(t.actives) /\ Count(t) = Count(s) /\ t.actives = s.actives
      /\ DrawnUpTo(t, i - 1) /\ JoinAt(t, i - 1) # "Right"
      /\ InResult(t, i - 1) <=> InResult(s, i - 1)
  BY DrawnBefore
<1>4. i \in 1 .. Count(t) /\ i + 1 \in 1 .. Count(t) /\ d = t.actives[i] /\ e = t.actives[i + 1]
  BY <1>2, <1>3
<1>5. OpensInFront(t, t.actives[i], t.actives[i + 1], b) <=> ~(InResult(t, i - 1) <=> b)
  BY <1>2, <1>3, <1>4, OpensWithTheResult
<1>6. PICK F \in BOOLEAN : F = OpensInFront(t, d, e, b)
  BY DEF OpensInFront, IsFront
<1>7. F <=> ~(InResult(s, i - 1) <=> b)
  BY <1>3, <1>4, <1>5, <1>6
<1>8. Opened(t, u, d, e, F)
  <2>1. LeftOf(t, d, e)
    BY <1>2, <1>3 DEF LeftOf
  <2> QED BY <1>2, <1>3, <1>6, <2>1, MinimumOpens
<1> HIDE DEF u
<1>9. Coupled(t) /\ d \in Active(t) /\ e \in Active(t)
  BY <1>2, <1>3 DEF Redrawn, Active
<1>10. /\ Redrawn(t, u, {d, e}) /\ IsHot(u, d) /\ IsHot(u, e)
       /\ IsFront(u, d) <=> F
       /\ IsFront(u, e) <=> ~F
  BY <1>2, <1>3, <1>8, <1>9, MinimumDraws
<1>11. Redrawn(s, u, {d, e})
  <2>1. Redrawn(s, u, {d, e} \cup {d, e})
    BY <1>10, RedrawnTransitive
  <2>2. {d, e} \cup {d, e} = {d, e}
    OBVIOUS
  <2> QED BY <2>1, <2>2
<1>12. OpenedBetween(s, u, d, e, InResult(s, i - 1), b)
  BY <1>7, <1>10, <1>11 DEF OpenedBetween
<1> QED BY <1>12 DEF u

LEMMA ReopensBetween ==
  ASSUME NEW s, Sound(s), NEW i \in 1 .. Count(s) - 1, NEW d, d = s.actives[i],
         NEW e, e = s.actives[i + 1], ~IsJoined(s, d), NEW t, Redrawn(s, t, {d, e}),
         ~IsHot(t, d), ~IsHot(t, e)
  PROVE  Reopened(s, AddLocalMinPolygon(t, d, e, FALSE), d, e, InResult(s, i - 1))
<1>1. PICK b \in BOOLEAN : b = FALSE
  OBVIOUS
<1>2. OpenedBetween(s, AddLocalMinPolygon(t, d, e, b), d, e, InResult(s, i - 1), b)
  BY OpensBetween
<1> DEFINE u == AddLocalMinPolygon(t, d, e, b)
<1>3. Reopened(s, u, d, e, InResult(s, i - 1))
  <2> HIDE DEF u
  <2> QED BY <1>1, <1>2 DEF OpenedBetween, Reopened, u
<1> QED BY <1>1, <1>3

Swapped(s, t, d, e) ==
  /\ Redrawn(s, t, {d, e})
  /\ IsHot(t, d) <=> IsHot(s, e)
  /\ IsHot(t, e) <=> IsHot(s, d)
  /\ IsFront(t, d) <=> IsFront(s, e)
  /\ IsFront(t, e) <=> IsFront(s, d)

LEMMA SwapDraws ==
  ASSUME NEW s, StateType(s), Coupled(s), NEW d \in Active(s), NEW e \in Active(s), d # e,
         s.edge[d].outrec # s.edge[e].outrec
  PROVE  Swapped(s, SwapOutrecs(s, d, e), d, e)
<1> DEFINE t == SwapOutrecs(s, d, e)
<1>1. d \in Edge /\ e \in Edge
  BY ActiveEdge
<1>2. Exchanged(s, t, d, e)
  BY <1>1, SwapExchanges
<1> HIDE DEF t
<1>3. /\ Redrawn(s, t, {d, e})
      /\ IsHot(t, d) <=> IsHot(s, e)
      /\ IsHot(t, e) <=> IsHot(s, d)
      /\ IsFront(t, d) <=> IsFront(s, e)
      /\ IsFront(t, e) <=> IsFront(s, d)
  BY <1>2, ExchangeDraws
<1>4. Swapped(s, t, d, e)
  BY <1>3 DEF Swapped
<1> QED BY <1>4 DEF t

\* The results of the four regions around the crossing of the edges at i, i + 1.
CrossCorners(u, i, d, e, A, M, C, N) ==
  /\ A \in BOOLEAN /\ M \in BOOLEAN /\ C \in BOOLEAN /\ N \in BOOLEAN
  /\ A = InResult(u, i - 1) /\ M = InResult(u, i) /\ C = InResult(u, i + 1)
  /\ Crosses(u, d, e, A, M, C, N)

CrossDrawn(u, w, d, e, A, N, C) == Redrawn(u, w, {d, e}) /\ DrawnAs(w, d, e, A, N, C)

LEMMA CrossDraws ==
  ASSUME NEW u, Sound(u), NEW i \in 1 .. Count(u) - 1, NEW d, d = u.actives[i],
         NEW e, e = u.actives[i + 1], ~IsJoined(u, d), ~IsJoined(u, e),
         NEW A, NEW M, NEW C, NEW N, CrossCorners(u, i, d, e, A, M, C, N)
  PROVE  CrossDrawn(u, CrossOutput(u, d, e), d, e, A, N, C)
<1> DEFINE in01(x) == FillAdjusted(u, u.edge[x].winding_count) \in {0, 1}
           w == CrossOutput(u, d, e)
<1>0. /\ A \in BOOLEAN /\ M \in BOOLEAN /\ C \in BOOLEAN /\ N \in BOOLEAN
      /\ A = InResult(u, i - 1) /\ M = InResult(u, i) /\ C = InResult(u, i + 1)
      /\ Crosses(u, d, e, A, M, C, N)
  BY DEF CrossCorners
<1> SUFFICES Redrawn(u, w, {d, e}) /\ DrawnAs(w, d, e, A, N, C)
  BY DEF CrossDrawn
<1>1. StateType(u) /\ IsInjective(u.actives) /\ Coupled(u) /\ DrawnUpTo(u, Count(u))
  BY DEF Sound
<1>2. /\ Count(u) \in Nat /\ i \in 1 .. Count(u) /\ i + 1 \in 1 .. Count(u) /\ (i + 1) - 1 = i
      /\ d \in Edge /\ e \in Edge /\ d # e /\ d \in Active(u) /\ e \in Active(u) /\ LeftOf(u, d, e)
  BY <1>1, TwoNeighbours
<1>3. PICK hd \in BOOLEAN, he \in BOOLEAN, bd \in BOOLEAN, be \in BOOLEAN, ex \in BOOLEAN, sm \in BOOLEAN :
        /\ hd <=> IsHot(u, d)
        /\ he <=> IsHot(u, e)
        /\ bd <=> in01(d)
        /\ be <=> in01(e)
        /\ ex <=> (SamePolyType(u, d, e) \/ u.cliptype = "Xor")
        /\ sm <=> StartsMinimum(u, d, e)
  OBVIOUS
<1>4. /\ hd <=> ~(A <=> M)
      /\ he <=> ~(M <=> C)
      /\ hd => (IsFront(u, d) <=> M)
      /\ he => (IsFront(u, e) <=> C)
  <2>1. DrawnAt(u, i) /\ DrawnAt(u, i + 1)
    BY <1>1, <1>2 DEF DrawnUpTo
  <2>2. /\ IsHot(u, d) <=> ~(InResult(u, i - 1) <=> InResult(u, i))
        /\ IsHot(u, d) => (IsFront(u, d) <=> InResult(u, i))
        /\ IsHot(u, e) <=> ~(InResult(u, i) <=> InResult(u, i + 1))
        /\ IsHot(u, e) => (IsFront(u, e) <=> InResult(u, i + 1))
    BY <1>2, <2>1 DEF DrawnAt
  <2> QED BY <1>0, <1>3, <2>2
<1>5. CrossFacts(hd, he, bd, be, ex, sm, A, M, C, N)
  BY <1>0, <1>3, <1>4 DEF Crosses, CrossFacts
<1>6. Redrawn(u, u, {d, e})
  BY <1>1, RedrawnReflexive
<1>7. CASE (~hd /\ ~bd) \/ (~he /\ ~be)
  <2>1. w = u
    BY <1>3, <1>7 DEF CrossOutput
  <2> QED BY <1>3, <1>4, <1>5, <1>6, <1>7, <2>1 DEF CrossFacts, DrawnAs
<1>8. CASE hd /\ he
  <2>1. IsHot(u, d) /\ IsHot(u, e) /\ ~(IsFront(u, d) <=> IsFront(u, e))
    BY <1>3, <1>4, <1>8
  <2> DEFINE m == AddLocalMaxPolygon(u, d, e)
  <2>2. Redrawn(u, m, {d, e}) /\ ~IsHot(m, d) /\ ~IsHot(m, e)
    BY <1>1, <1>2, <2>1, MaximumDraws
  <2>3. CASE ~(bd /\ be /\ ex)
    <3>1. w = m
      BY <1>3, <1>8, <2>3 DEF CrossOutput
    <3> HIDE DEF m
    <3>2. (N <=> C) /\ (A <=> C)
      BY <1>4, <1>5, <1>8, <2>3 DEF CrossFacts
    <3> QED BY <2>2, <3>1, <3>2 DEF DrawnAs
  <2>4. CASE bd /\ be /\ ex
    <3>1. ~(N <=> C) /\ (A <=> C) /\ (N <=> M)
      BY <1>4, <1>5, <1>8, <2>4 DEF CrossFacts
    <3>2. CASE IsFront(u, d) \/ u.edge[d].outrec = u.edge[e].outrec
      <4>1. w = AddLocalMinPolygon(m, d, e, FALSE)
        BY <1>3, <1>8, <2>4, <3>2 DEF CrossOutput
      <4> HIDE DEF m
      <4>2. Reopened(u, AddLocalMinPolygon(m, d, e, FALSE), d, e, InResult(u, i - 1))
        BY <2>2, ReopensBetween
      <4> QED BY <1>0, <3>1, <4>1, <4>2 DEF Reopened, DrawnAs
    <3>3. CASE ~(IsFront(u, d) \/ u.edge[d].outrec = u.edge[e].outrec)
      <4>1. w = SwapOutrecs(u, d, e)
        BY <1>3, <1>8, <2>4, <3>3 DEF CrossOutput
      <4>2. u.edge[d].outrec # u.edge[e].outrec
        BY <3>3
      <4>3. Swapped(u, SwapOutrecs(u, d, e), d, e)
        BY <1>1, <1>2, <4>2, SwapDraws
      <4> QED BY <1>3, <1>4, <1>8, <3>1, <4>1, <4>3 DEF Swapped, DrawnAs
    <3> QED BY <3>2, <3>3
  <2> QED BY <2>3, <2>4
<1>9. CASE ~(hd <=> he) /\ (hd \/ bd) /\ (he \/ be)
  <2>1. w = SwapOutrecs(u, d, e)
    <3>1. IsHot(u, d) # IsHot(u, e)
      BY <1>3, <1>9 DEF IsHot
    <3> QED BY <1>3, <1>9, <3>1 DEF CrossOutput
  <2>2. u.edge[d].outrec # u.edge[e].outrec
    BY <1>3, <1>9 DEF IsHot
  <2>3. Swapped(u, SwapOutrecs(u, d, e), d, e)
    BY <1>1, <1>2, <2>2, SwapDraws
  <2>4. N <=> M
    BY <1>5, <1>9 DEF CrossFacts
  <2> QED BY <1>3, <1>4, <1>9, <2>1, <2>3, <2>4 DEF Swapped, DrawnAs
<1>10. CASE ~hd /\ ~he /\ bd /\ be
  <2>1. w = IF StartsMinimum(u, d, e) THEN AddLocalMinPolygon(u, d, e, FALSE) ELSE u
    <3>1. ~IsHot(u, d) /\ ~IsHot(u, e) /\ IsHot(u, d) = IsHot(u, e)
      BY <1>3, <1>10 DEF IsHot
    <3> QED BY <1>3, <1>10, <3>1 DEF CrossOutput, StartsMinimum
  <2>2. (sm <=> ~(N <=> A)) /\ (A <=> C)
    BY <1>4, <1>5, <1>10 DEF CrossFacts
  <2>3. CASE sm
    <3>1. w = AddLocalMinPolygon(u, d, e, FALSE) /\ ~IsHot(u, d) /\ ~IsHot(u, e)
      BY <1>3, <1>10, <2>1, <2>3
    <3>2. Reopened(u, AddLocalMinPolygon(u, d, e, FALSE), d, e, InResult(u, i - 1))
      BY <1>6, <3>1, ReopensBetween
    <3> QED BY <1>0, <2>2, <2>3, <3>1, <3>2 DEF Reopened, DrawnAs
  <2>4. CASE ~sm
    <3>1. w = u
      BY <1>3, <2>1, <2>4
    <3> QED BY <1>3, <1>6, <1>10, <2>2, <2>4, <3>1 DEF DrawnAs
  <2> QED BY <2>3, <2>4
<1> QED BY <1>7, <1>8, <1>9, <1>10

LEMMA SwapKeeps ==
  ASSUME NEW s, StateType(s), NEW d, NEW e
  PROVE  LET t == SwapPositions(s, d, e)
         IN  /\ t.edge = s.edge /\ t.cliptype = s.cliptype /\ t.fillrule = s.fillrule
             /\ SameDrawing(s, t)
BY DEF SwapPositions, StateType, SameDrawing, TablesKept, SameOutrecs

\* A crossing that leaves the engine sound: no join appears, and no edge turns
\* horizontal or stops being so.
Passed(s, t) ==
  /\ Sound(t) /\ RecordsStay(s, t)
  /\ \A x \in Edge : /\ t.edge[x].horizontal = s.edge[x].horizontal
                     /\ ~IsJoined(s, x) => ~IsJoined(t, x)

LEMMA CrossedCleanly ==
  ASSUME NEW s, Sound(s), Matches(s), NEW i \in 1 .. Count(s) - 1, NEW d, d = s.actives[i],
         NEW e, e = s.actives[i + 1], ~IsJoined(s, d), ~IsJoined(s, e)
  PROVE  Passed(s, Cross(s, d, e))
<1> DEFINE t == Cross(s, d, e)
           u == UpdateWindCounts(s, d, e)
           w == CrossOutput(u, d, e)
           v == SwapPositions(u, d, e)
<1>1. StateType(s) /\ IsInjective(s.actives) /\ Coupled(s) /\ DrawnUpTo(s, Count(s)) /\ HorizontalsFree(s)
  BY DEF Sound
<1>2. /\ Count(s) \in Nat /\ i \in Nat /\ i \in 1 .. Count(s) /\ i + 1 \in 1 .. Count(s)
      /\ d \in Edge /\ e \in Edge /\ d # e /\ d \in Active(s) /\ e \in Active(s)
      /\ \A k \in (1 .. Count(s)) \ {i, i + 1} : s.actives[k] \in Edge \ {d, e}
  BY <1>1, TwoNeighbours
<1>3. t = SwapPositions(w, d, e)
  BY UnjoinedKeeps DEF Cross, IntersectEdges
<1>4. StateType(t) /\ Matches(t) /\ t.actives = [s.actives EXCEPT ![i] = e, ![i + 1] = d]
      /\ IsInjective(t.actives) /\ Active(t) = Active(s)
  <2>1. i \in DOMAIN s.actives /\ i + 1 \in DOMAIN s.actives
    BY <1>1, <1>2, ListDomain
  <2> QED BY <1>1, <2>1, CrossIntact, CrossMatches
<1> HIDE DEF t
<1>5. Recounted(s, u)
  BY <1>1, <1>2, UpdateRecounts
<1> HIDE DEF u
<1>6. Sound(u) /\ RecordsStay(s, u) /\ \A x \in Edge : SameSide(s, u, x)
  BY <1>5, RecountedSound
<1>7. /\ StateType(u) /\ SameStage(s, u)
      /\ \A x \in Edge : /\ u.edge[x].join_with = s.edge[x].join_with
                         /\ u.edge[x].horizontal = s.edge[x].horizontal
  BY <1>5 DEF Recounted
<1>8. u.actives = s.actives /\ Count(u) = Count(s) /\ u.cliptype = s.cliptype
      /\ u.fillrule = s.fillrule /\ SameBounds(s, u)
  BY <1>7 DEF SameStage, Count
<1>9. StateType(w) /\ SameWinding(u, w)
  BY <1>2, <1>7, CrossOutputType, CrossOutputKeepsCounts, TypedIsShaped
<1> HIDE DEF w
<1>10. w.actives = u.actives /\ w.fillrule = u.fillrule /\ \A x \in Edge : SameCounts(u.edge[x], w.edge[x])
  BY <1>9 DEF SameWinding
<1>11. /\ t.edge = w.edge /\ t.cliptype = w.cliptype /\ t.fillrule = w.fillrule /\ SameDrawing(w, t)
  BY <1>3, <1>9, SwapKeeps
<1>12. /\ v.edge = u.edge /\ v.cliptype = u.cliptype /\ v.fillrule = u.fillrule
  BY <1>7, SwapKeeps
<1>13. StateType(v) /\ v.actives = t.actives
  <2>1. i \in DOMAIN u.actives /\ i + 1 \in DOMAIN u.actives /\ i # i + 1
    BY <1>1, <1>2, <1>8, ListDomain
  <2>2. IsInjective(u.actives) /\ d = u.actives[i] /\ e = u.actives[i + 1]
    BY <1>1, <1>8
  <2>3. v.actives = [u.actives EXCEPT ![i] = e, ![i + 1] = d]
    BY <1>7, <2>1, <2>2, SwapIntact
  <2> QED BY <1>2, <1>4, <1>7, <1>8, <2>3, SwapPositionsType
<1> HIDE DEF v
<1>14. Count(t) = Count(s) /\ t.actives[i] = e /\ t.actives[i + 1] = d
       /\ \A k \in (1 .. Count(s)) \ {i, i + 1} : t.actives[k] = s.actives[k]
  <2>1. DOMAIN s.actives = 1 .. Count(s) /\ DOMAIN t.actives = 1 .. Count(t) /\ Count(t) \in Nat
    BY <1>1, <1>4, ListDomain
  <2>2. DOMAIN t.actives = DOMAIN s.actives
    BY <1>4
  <2>3. Count(t) = Count(s)
    BY <1>2, <2>1, <2>2
  <2> QED BY <1>2, <1>4, <2>1, <2>3
<1>15. SameWinding(t, v)
  <2>1. Shaped(t) /\ Shaped(v)
    BY <1>4, <1>13, TypedIsShaped
  <2>2. \A x \in Edge : SameCounts(t.edge[x], v.edge[x])
    BY <1>10, <1>11, <1>12 DEF SameCounts
  <2> QED BY <1>10, <1>11, <1>12, <1>13, <2>1, <2>2 DEF SameWinding
<1>16. Matches(v)
  BY <1>4, <1>15, SameMatches
<1>17. Exchanges(s, v, i)
  <2>1. SameBounds(s, v)
    BY <1>8, <1>12 DEF SameBounds
  <2>2. Count(v) = Count(s)
    BY <1>13, <1>14 DEF Count
  <2> QED BY <1>8, <1>12, <1>13, <1>14, <2>1, <2>2 DEF Exchanges
<1>18. Crosses(u, d, e, InResult(s, i - 1), InResult(s, i), InResult(s, i + 1), InResult(v, i))
  <2>1. SameCounts(u.edge[d], v.edge[d]) /\ SameCounts(u.edge[e], v.edge[e])
    BY <1>12 DEF SameCounts
  <2> QED BY <1>1, <1>7, <1>16, <1>17, <2>1, CrossTells
<1>19. /\ i - 1 \in 0 .. Count(s) /\ i \in 0 .. Count(s) /\ i + 1 \in 0 .. Count(s)
       /\ i - 1 \in 0 .. Count(u) /\ i \in 0 .. Count(u) /\ i + 1 \in 0 .. Count(u)
  BY <1>2, <1>8
<1>20. PICK A \in BOOLEAN, M \in BOOLEAN, C \in BOOLEAN, N \in BOOLEAN :
         /\ A = InResult(u, i - 1) /\ M = InResult(u, i) /\ C = InResult(u, i + 1)
         /\ N <=> InResult(v, i)
  <2>1. /\ InResult(u, i - 1) \in BOOLEAN /\ InResult(u, i) \in BOOLEAN
        /\ InResult(u, i + 1) \in BOOLEAN
    BY <1>7, <1>19, ResultOfFills
  <2> QED BY <2>1
<1>21. /\ A <=> InResult(s, i - 1)
       /\ M <=> InResult(s, i)
       /\ C <=> InResult(s, i + 1)
  <2>1. \A k \in 0 .. Count(s) : InResult(u, k) <=> InResult(s, k)
    BY <1>1, <1>7, SameResult
  <2> QED BY <1>19, <1>20, <2>1
<1>22. Crosses(u, d, e, A, M, C, N)
  BY <1>18, <1>20, <1>21 DEF Crosses, CrossFacts
<1>23. Redrawn(u, w, {d, e}) /\ DrawnAs(w, d, e, A, N, C)
  <2>1. i \in 1 .. Count(u) - 1 /\ d = u.actives[i] /\ e = u.actives[i + 1] /\ ~IsJoined(u, d) /\ ~IsJoined(u, e)
    BY <1>2, <1>7, <1>8 DEF IsJoined
  <2>2. CrossCorners(u, i, d, e, A, M, C, N)
    BY <1>20, <1>22 DEF CrossCorners
  <2>3. CrossDrawn(u, CrossOutput(u, d, e), d, e, A, N, C)
    BY <1>6, <2>1, <2>2, CrossDraws
  <2> QED BY <2>3 DEF CrossDrawn, w
<1>24. /\ SameStage(u, w) /\ w.succeeded = u.succeeded /\ Coupled(w) /\ RecordsStay(u, w)
       /\ \A x \in Edge : /\ w.edge[x].join_with = u.edge[x].join_with
                          /\ w.edge[x].horizontal = u.edge[x].horizontal
                          /\ x \notin {d, e} => SameSide(u, w, x)
  BY <1>23, RedrawnKeeps
<1>25. Coupled(t) /\ RecordsStay(w, t) /\ \A x \in Edge : SameSide(w, t, x)
  <2>1. Active(t) = Active(w)
    BY <1>4, <1>8, <1>10 DEF Active
  <2>2. \A x \in Edge : IsHot(w, x) => x \in Active(t)
    BY <1>24, <2>1 DEF Coupled, HoldsSide
  <2> QED BY <1>9, <1>11, <1>24, <2>2, DrawingCarries
<1>26. /\ t.cliptype = s.cliptype /\ t.fillrule = s.fillrule /\ SameBounds(s, t)
       /\ t.succeeded = s.succeeded
       /\ \A x \in Edge : /\ t.edge[x].join_with = s.edge[x].join_with
                          /\ t.edge[x].horizontal = s.edge[x].horizontal
                          /\ x \notin {d, e} => SameSide(s, t, x)
  <2>1. w.cliptype = u.cliptype /\ w.fillrule = u.fillrule /\ SameBounds(u, w)
    BY <1>24 DEF SameStage
  <2>2. SameBounds(s, t)
    BY <1>8, <1>11, <2>1 DEF SameBounds
  <2>3. \A x \in Edge \ {d, e} : SameSide(s, t, x)
    BY <1>6, <1>24, <1>25 DEF SameSide
  <2>4. t.succeeded = s.succeeded
    BY <1>5, <1>11, <1>24 DEF Recounted, SameDrawing
  <2> QED BY <1>7, <1>8, <1>11, <1>24, <2>1, <2>2, <2>3, <2>4
<1>27. Exchanges(s, t, i)
  BY <1>4, <1>14, <1>26 DEF Exchanges
<1>28. /\ \A k \in (0 .. Count(s)) \ {i} : InResult(t, k) <=> InResult(s, k)
       /\ InResult(t, i) <=> N
  <2>1. SameStage(v, t)
    BY <1>8, <1>12, <1>13, <1>26 DEF SameStage, SameBounds
  <2>2. i \in 0 .. Count(v)
    BY <1>13, <1>14, <1>19 DEF Count
  <2>3. InResult(t, i) <=> InResult(v, i)
    BY <1>4, <1>13, <2>1, <2>2, SameResult
  <2> QED BY <1>1, <1>20, <1>27, <2>3, ResultApart
<1>29. ~IsJoined(t, d) /\ ~IsJoined(t, e) /\ HorizontalsFree(t)
  BY <1>1, <1>2, <1>26 DEF IsJoined, HorizontalsFree
<1>30. DrawnAt(t, i) /\ DrawnAt(t, i + 1)
  <2>1. /\ IsHot(t, e) <=> ~(A <=> N)
        /\ IsHot(t, e) => (IsFront(t, e) <=> N)
        /\ IsHot(t, d) <=> ~(N <=> C)
        /\ IsHot(t, d) => (IsFront(t, d) <=> C)
    BY <1>2, <1>23, <1>25 DEF DrawnAs, SameSide
  <2>2. /\ i - 1 \in (0 .. Count(s)) \ {i}
        /\ i + 1 \in (0 .. Count(s)) \ {i}
        /\ (i + 1) - 1 = i
    BY <1>2, <1>19
  <2>3. /\ InResult(t, i - 1) <=> A
        /\ InResult(t, i + 1) <=> C
    BY <1>21, <1>28, <2>2
  <2>4. DrawnAt(t, i)
    BY <1>14, <1>28, <1>29, <2>1, <2>3 DEF DrawnAt
  <2>5. DrawnAt(t, i + 1)
    BY <1>14, <1>28, <1>29, <2>1, <2>2, <2>3 DEF DrawnAt
  <2> QED BY <2>4, <2>5
<1>31. Block(s, i) /\ Block(t, i)
  <2>1. JoinAt(s, i) = "NoJoin" /\ JoinAt(s, i + 1) = "NoJoin"
    BY <1>2 DEF JoinAt, IsJoined
  <2>2. JoinAt(t, i) = "NoJoin" /\ JoinAt(t, i + 1) = "NoJoin"
    BY <1>2, <1>14, <1>29 DEF JoinAt, IsJoined
  <2> QED BY <2>1, <2>2 DEF Block
<1>32. Patch(s, t, i)
  <2> SUFFICES ASSUME NEW k \in (1 .. Count(s)) \ {i, i + 1} PROVE Alike(s, k, t, k)
    BY <1>14, <1>28, <1>30 DEF Patch
  <2>1. t.actives[k] = s.actives[k] /\ s.actives[k] \in Edge \ {d, e}
    BY <1>2, <1>14
  <2>2. JoinAt(t, k) = JoinAt(s, k)
    BY <1>14, <1>26, <2>1 DEF JoinAt
  <2> QED BY <1>26, <2>1, <2>2 DEF Alike, SameSide
<1>33. DrawnUpTo(t, Count(t))
  BY <1>1, <1>4, <1>31, <1>32, Patched
<1>34. Sound(t)
  <2>1. s.succeeded
    BY DEF Sound
  <2> QED BY <1>4, <1>25, <1>26, <1>29, <1>33, <2>1 DEF Sound
<1>35. RecordsStay(s, t)
  <2>1. RecordsStay(s, w)
    BY <1>1, <1>6, <1>7, <1>9, <1>24, StaysTransitive
  <2> QED BY <1>1, <1>4, <1>9, <1>25, <2>1, StaysTransitive
<1>36. Passed(s, t)
  BY <1>26, <1>34, <1>35 DEF Passed, IsJoined
<1> QED BY <1>36 DEF t

\* A crossing of two neighbours, joined or not.
LEMMA CrossPasses ==
  ASSUME NEW s, Sound(s), Matches(s), NEW i \in 1 .. Count(s) - 1
  PROVE  Passed(s, Cross(s, s.actives[i], s.actives[i + 1]))
<1> DEFINE d == s.actives[i]
           e == s.actives[i + 1]
           s1 == SplitIfJoined(SplitIfJoined(s, d), e)
           t == Cross(s1, d, e)
<1>1. StateType(s) /\ IsInjective(s.actives)
  BY DEF Sound
<1>2. d \in Active(s) /\ e \in Active(s)
  BY <1>1, TwoNeighbours
<1>3. SplitAt(s, s1, d) /\ SplitAt(s, s1, e)
  BY <1>2, BothSplit
<1>4. Cross(s, d, e) = SwapPositions(CrossOutput(UpdateWindCounts(s1, d, e), d, e), d, e)
  BY DEF Cross, IntersectEdges
<1> HIDE DEF d, e, s1
<1>5. /\ Sound(s1) /\ RecordsStay(s, s1) /\ SameStage(s, s1) /\ SameWinding(s, s1)
      /\ ~IsJoined(s1, d) /\ ~IsJoined(s1, e)
      /\ \A x \in Edge : /\ s1.edge[x].horizontal = s.edge[x].horizontal
                         /\ ~IsJoined(s, x) => ~IsJoined(s1, x)
  BY <1>3 DEF SplitAt, Released, Level
<1>6. i \in 1 .. Count(s1) - 1 /\ d = s1.actives[i] /\ e = s1.actives[i + 1]
  BY <1>5 DEF SameStage, Count, d, e
<1>7. Matches(s1)
  BY <1>1, <1>5, SameMatches
<1>8. Passed(s1, t)
  BY <1>5, <1>6, <1>7, CrossedCleanly
<1>9. Cross(s, d, e) = t
  BY <1>4, <1>5, UnjoinedKeeps DEF Cross, IntersectEdges
<1> HIDE DEF t
<1>10. RecordsStay(s, t)
  <2>1. StateType(s1) /\ StateType(t)
    BY <1>5, <1>8 DEF Passed, Sound
  <2> QED BY <1>1, <1>5, <1>8, <2>1, StaysTransitive DEF Passed
<1>11. Passed(s, t)
  BY <1>5, <1>8, <1>10 DEF Passed
<1> QED BY <1>9, <1>11 DEF d, e

-----------------------------------------------------------------------------
(* check_join_left and check_join_right.                                   *)

JoinChecked(s, t) ==
  /\ Sound(t) /\ RecordsStay(s, t) /\ SameStage(s, t) /\ SameWinding(s, t)
  /\ \A x \in Edge : t.edge[x].horizontal = s.edge[x].horizontal

LEMMA NothingChecked ==
  ASSUME NEW s, Sound(s)
  PROVE  JoinChecked(s, s)
<1>1. StateType(s) /\ Coupled(s)
  BY DEF Sound
<1>2. RecordsStay(s, s) /\ Released(s, s)
  BY <1>1, ReleasedReflexive
<1> QED BY <1>2 DEF Released, JoinChecked

\* Two hot neighbours are unjoined and stand on opposite sides.
LEMMA HotNeighbours ==
  ASSUME NEW s, Sound(s), NEW i \in 1 .. Count(s) - 1, NEW d, d = s.actives[i],
         NEW e, e = s.actives[i + 1], IsHot(s, d), IsHot(s, e)
  PROVE  /\ ~IsJoined(s, d) /\ ~IsJoined(s, e) /\ ~(IsFront(s, d) <=> IsFront(s, e))
         /\ ~(InResult(s, i - 1) <=> InResult(s, i)) /\ ~(InResult(s, i) <=> InResult(s, i + 1))
<1>1. StateType(s) /\ IsInjective(s.actives) /\ DrawnUpTo(s, Count(s))
  BY DEF Sound
<1>2. Count(s) \in Nat /\ i \in 1 .. Count(s) /\ i + 1 \in 1 .. Count(s) /\ (i + 1) - 1 = i
  BY <1>1, ListDomain
<1>3. /\ DrawnAt(s, i) /\ PairedAt(s, i)
      /\ DrawnAt(s, i + 1) /\ PairedAt(s, i + 1)
  BY <1>1, <1>2 DEF DrawnUpTo
<1>4. ~IsJoined(s, d) /\ ~IsJoined(s, e)
  BY <1>3 DEF PairedAt
<1>5. /\ ~(InResult(s, i - 1) <=> InResult(s, i))
      /\ IsFront(s, d) <=> InResult(s, i)
  BY <1>3 DEF DrawnAt
<1>6. /\ ~(InResult(s, i) <=> InResult(s, i + 1))
      /\ IsFront(s, e) <=> InResult(s, i + 1)
  BY <1>2, <1>3 DEF DrawnAt
<1> QED BY <1>4, <1>5, <1>6

LEMMA JoinsSoundly ==
  ASSUME NEW s, Sound(s), NEW i \in 1 .. Count(s) - 1, NEW d, d = s.actives[i],
         NEW e, e = s.actives[i + 1], IsHot(s, d), IsHot(s, e),
         ~s.edge[d].horizontal, ~s.edge[e].horizontal
  PROVE  JoinChecked(s, JoinEdges(s, d, e))
<1> DEFINE s1 == IF s.edge[d].outrec = s.edge[e].outrec THEN AddLocalMaxPolygon(s, d, e)
                 ELSE IF s.edge[d].outrec < s.edge[e].outrec
                 THEN JoinOutrecPaths(s, d, e) ELSE JoinOutrecPaths(s, e, d)
           t == WithJoins(s1, d, e, "Right", "Left")
<1>1. StateType(s) /\ IsInjective(s.actives) /\ Coupled(s) /\ HorizontalsFree(s) /\ s.succeeded
  BY DEF Sound
<1>2. /\ Count(s) \in Nat /\ i \in 1 .. Count(s) /\ i + 1 \in 1 .. Count(s) /\ (i + 1) - 1 = i
      /\ d \in Edge /\ e \in Edge /\ d # e /\ LeftOf(s, d, e)
  BY <1>1, TwoNeighbours
<1>3. /\ ~IsJoined(s, d) /\ ~IsJoined(s, e) /\ ~(IsFront(s, d) <=> IsFront(s, e))
      /\ ~(InResult(s, i - 1) <=> InResult(s, i)) /\ ~(InResult(s, i) <=> InResult(s, i + 1))
  BY HotNeighbours
<1>4. JoinEdges(s, d, e) = t
  BY DEF JoinEdges, WithJoins
<1>5. Redrawn(s, s1, {d, e}) /\ ~IsHot(s1, d) /\ ~IsHot(s1, e)
  <2>1. CASE s.edge[d].outrec = s.edge[e].outrec
    BY <1>1, <1>2, <1>3, <2>1, MaximumDraws
  <2>2. CASE s.edge[d].outrec # s.edge[e].outrec
    <3>1. s.edge[d].outrec \in Nat /\ s.edge[e].outrec \in Nat
      BY <1>1, <1>2 DEF StateType, EdgeType
    <3>2. \/ s.edge[d].outrec < s.edge[e].outrec /\ s1 = JoinOutrecPaths(s, d, e)
          \/ s.edge[d].outrec > s.edge[e].outrec /\ s1 = JoinOutrecPaths(s, e, d)
      BY <2>2, <3>1
    <3> HIDE DEF s1
    <3> QED BY <1>1, <1>2, <1>3, <3>2, MeetingDraws
  <2> QED BY <2>1, <2>2
<1> HIDE DEF s1
<1>6. /\ StateType(s1) /\ SameStage(s, s1) /\ s1.succeeded = s.succeeded /\ Coupled(s1)
      /\ RecordsStay(s, s1)
      /\ \A x \in Edge : /\ s1.edge[x].join_with = s.edge[x].join_with
                         /\ s1.edge[x].horizontal = s.edge[x].horizontal
                         /\ x \notin {d, e} => SameSide(s, s1, x)
  BY <1>5, RedrawnKeeps
<1>7. /\ Relabelled(s1, t)
      /\ \A x \in Edge :
           /\ t.edge[x].join_with
                = IF x = e THEN "Left" ELSE IF x = d THEN "Right" ELSE s1.edge[x].join_with
           /\ t.edge[x].horizontal = s1.edge[x].horizontal
  <2>1. "Right" \in JoinStates /\ "Left" \in JoinStates
    BY DEF JoinStates
  <2> QED BY <1>2, <1>6, <2>1, JoinsWritten
<1> HIDE DEF t
<1>8. Coupled(t) /\ RecordsStay(s1, t) /\ \A x \in Edge : SameSide(s1, t, x)
  BY <1>6, <1>7, RelabelledSound
<1>9. StateType(t) /\ SameStage(s1, t) /\ t.succeeded = s1.succeeded
  BY <1>7 DEF Relabelled, SameDrawing
<1>10. SameStage(s, t) /\ t.actives = s.actives /\ Count(t) = Count(s)
  BY <1>6, <1>9 DEF SameStage, SameBounds, Count
<1>11. /\ IsJoined(t, d) /\ IsJoined(t, e) /\ ~IsHot(t, d) /\ ~IsHot(t, e)
       /\ t.edge[d].join_with = "Right" /\ t.edge[e].join_with = "Left"
  BY <1>2, <1>5, <1>7, <1>8 DEF IsJoined, SameSide
<1>12. HorizontalsFree(t)
  BY <1>1, <1>2, <1>6, <1>7 DEF HorizontalsFree, IsJoined
<1>13. \A k \in 0 .. Count(s) : InResult(t, k) <=> InResult(s, k)
  BY <1>1, <1>9, <1>10, SameResult
<1>14. DrawnAt(t, i) /\ DrawnAt(t, i + 1)
  <2>1. i - 1 \in 0 .. Count(s) /\ i \in 0 .. Count(s) /\ i + 1 \in 0 .. Count(s)
    BY <1>2
  <2>2. /\ ~(InResult(t, i - 1) <=> InResult(t, i))
        /\ ~(InResult(t, i) <=> InResult(t, i + 1))
    BY <1>3, <1>13, <2>1
  <2>3. d = t.actives[i] /\ e = t.actives[i + 1]
    BY <1>10
  <2>4. DrawnAt(t, i)
    BY <1>11, <2>2, <2>3 DEF DrawnAt
  <2>5. DrawnAt(t, i + 1)
    BY <1>2, <1>11, <2>2, <2>3 DEF DrawnAt
  <2> QED BY <2>4, <2>5
<1>15. Block(s, i) /\ Block(t, i)
  <2>1. JoinAt(s, i) = "NoJoin" /\ JoinAt(s, i + 1) = "NoJoin"
    BY <1>2, <1>3 DEF JoinAt, IsJoined
  <2>2. JoinAt(t, i) = "Right" /\ JoinAt(t, i + 1) = "Left"
    BY <1>2, <1>10, <1>11 DEF JoinAt
  <2>3. ~IsHot(t, t.actives[i]) /\ ~IsHot(t, t.actives[i + 1])
    BY <1>10, <1>11
  <2> QED BY <2>1, <2>2, <2>3 DEF Block
<1>16. Sound(t)
  <2>1. \A x \in Edge \ {d, e} : SameSide(s, t, x) /\ t.edge[x].join_with = s.edge[x].join_with
    BY <1>6, <1>7, <1>8 DEF SameSide
  <2>2. StateType(t) /\ t.succeeded /\ Coupled(t) /\ SameStage(s, t)
    BY <1>1, <1>6, <1>8, <1>9, <1>10
  <2> QED BY <1>12, <1>14, <1>15, <2>1, <2>2, PatchedInPlace
<1>17. RecordsStay(s, t)
  BY <1>1, <1>6, <1>8, <1>9, StaysTransitive
<1>18. SameWinding(s, t)
  <2>1. SameWinding(s1, t) /\ Shaped(s)
    BY <1>1, <1>7, TypedIsShaped DEF Relabelled
  <2>2. SameWinding(s, s1)
    <3>1. \A x \in Edge : SameCounts(s.edge[x], s1.edge[x])
      BY <1>5 DEF Redrawn, SameButRecords, LabelKept, SameCounts
    <3> QED BY <1>6, <2>1, <3>1, TypedIsShaped DEF SameStage, SameWinding
  <2> QED BY <2>1, <2>2, SameIsTransitive
<1>19. JoinChecked(s, t)
  BY <1>6, <1>7, <1>10, <1>16, <1>17, <1>18 DEF JoinChecked
<1> QED BY <1>4, <1>19

LEMMA JoinsAreChecked ==
  ASSUME NEW s, Sound(s), NEW e \in Active(s), NEW collinear
  PROVE  /\ JoinChecked(s, CheckJoinLeft(s, e, collinear))
         /\ JoinChecked(s, CheckJoinRight(s, e, collinear))
<1>1. StateType(s) /\ IsInjective(s.actives)
  BY DEF Sound
<1>2. JoinChecked(s, s)
  BY NothingChecked
<1>3. JoinChecked(s, CheckJoinLeft(s, e, collinear))
  <2> DEFINE d == PrevInAel(s, e)
  <2>1. CASE collinear /\ MayJoin(s, d, e)
    <3>1. PICK i \in 1 .. Count(s) - 1 : d = s.actives[i] /\ e = s.actives[i + 1]
      BY <1>1, <2>1, NeighbourPosition DEF MayJoin
    <3>2. CheckJoinLeft(s, e, collinear) = JoinEdges(s, d, e)
      BY <2>1 DEF CheckJoinLeft
    <3> HIDE DEF d
    <3>3. JoinChecked(s, JoinEdges(s, d, e))
      BY <2>1, <3>1, JoinsSoundly DEF MayJoin
    <3> QED BY <3>2, <3>3
  <2>2. CASE ~(collinear /\ MayJoin(s, d, e))
    BY <1>2, <2>2 DEF CheckJoinLeft
  <2> QED BY <2>1, <2>2
<1>4. JoinChecked(s, CheckJoinRight(s, e, collinear))
  <2> DEFINE d == NextInAel(s, e)
  <2>1. CASE collinear /\ MayJoin(s, e, d)
    <3>1. PICK i \in 1 .. Count(s) - 1 : e = s.actives[i] /\ d = s.actives[i + 1]
      BY <1>1, <2>1, NeighbourPosition DEF MayJoin
    <3>2. CheckJoinRight(s, e, collinear) = JoinEdges(s, e, d)
      BY <2>1 DEF CheckJoinRight
    <3> HIDE DEF d
    <3>3. JoinChecked(s, JoinEdges(s, e, d))
      BY <2>1, <3>1, JoinsSoundly DEF MayJoin
    <3> QED BY <3>2, <3>3
  <2>2. CASE ~(collinear /\ MayJoin(s, e, d))
    BY <1>2, <2>2 DEF CheckJoinRight
  <2> QED BY <2>1, <2>2
<1> QED BY <1>3, <1>4

-----------------------------------------------------------------------------
(* Two bounds that meet at a maximum leave the list.                       *)

PairGone(s, u, i, d, e) ==
  /\ StateType(u) /\ IsInjective(u.actives) /\ Count(u) = Count(s) - 2 /\ u.fillrule = s.fillrule
  /\ \A k \in 1 .. i - 1 : u.actives[k] = s.actives[k]
  /\ \A k \in i .. Count(u) : u.actives[k] = s.actives[k + 2]
  /\ \A x \in Edge \ {d, e} : u.edge[x] = s.edge[x]

LEMMA NeighboursGone ==
  ASSUME NEW s, StateType(s), NEW i \in 1 .. Count(s) - 1,
         NEW d, d = s.actives[i], NEW e, e = s.actives[i + 1],
         NEW c \in {i, i + 1}, NEW t, RemovedAt(s, t, c), NEW u, RemovedAt(t, u, i)
  PROVE  PairGone(s, u, i, d, e)
<1>1. Count(s) \in Nat /\ i \in Nat /\ i \in 1 .. Count(s) /\ i + 1 \in 1 .. Count(s)
  BY ListDomain
<1>2. StateType(u) /\ IsInjective(u.actives) /\ Count(t) = Count(s) - 1 /\ Count(u) = Count(s) - 2
      /\ u.fillrule = s.fillrule
  BY <1>1 DEF RemovedAt
<1>3. \A k \in 1 .. i - 1 : u.actives[k] = s.actives[k]
  BY <1>1 DEF RemovedAt
<1>4. \A k \in i .. Count(u) : u.actives[k] = s.actives[k + 2]
  <2> TAKE k \in i .. Count(u)
  <2>1. /\ k \in i .. Count(t) - 1 /\ k + 1 \in c .. Count(s) - 1 /\ (k + 1) + 1 = k + 2
    BY <1>1, <1>2
  <2>2. u.actives[k] = t.actives[k + 1]
    BY <2>1 DEF RemovedAt
  <2>3. t.actives[k + 1] = s.actives[k + 2]
    BY <2>1 DEF RemovedAt
  <2> QED BY <2>2, <2>3
<1>5. {s.actives[c], t.actives[i]} = {d, e}
  <2>1. CASE c = i
    <3>1. i \in c .. Count(s) - 1
      BY <1>1, <2>1
    <3> QED BY <2>1, <3>1 DEF RemovedAt
  <2>2. CASE c = i + 1
    <3>1. i \in 1 .. c - 1
      BY <1>1, <2>2
    <3> QED BY <2>2, <3>1 DEF RemovedAt
  <2> QED BY <2>1, <2>2
<1>6. \A x \in Edge \ {d, e} : u.edge[x] = s.edge[x]
  <2> TAKE x \in Edge \ {d, e}
  <2>1. x \in Edge \ {s.actives[c]} /\ x \in Edge \ {t.actives[i]}
    BY <1>5
  <2> QED BY <2>1 DEF RemovedAt
<1> QED BY <1>2, <1>3, <1>4, <1>6 DEF PairGone

Gone(s, u) == Sound(u) /\ RecordsStay(s, u)

\* The region right of a maximum is counted like the one left of it.
LEMMA MaximumSums ==
  ASSUME NEW s, StateType(s), NEW i \in 1 .. Count(s) - 1,
         MaximaPair(s, s.actives[i], s.actives[i + 1]), NEW T
  PROVE  RegionWinding(s, i + 1, T) = RegionWinding(s, i - 1, T)
<1>1. /\ Count(s) \in Nat /\ i \in 1 .. Count(s) /\ i + 1 \in 1 .. Count(s)
      /\ i - 1 \in 0 .. Count(s) /\ (i + 1) - 1 = i
  BY ListDomain
<1>2. /\ RegionWinding(s, i, T) = RegionWinding(s, i - 1, T) + Term(s, i, T)
      /\ RegionWinding(s, i + 1, T) = RegionWinding(s, i, T) + Term(s, i + 1, T)
      /\ RegionWinding(s, i - 1, T) \in Int
  BY <1>1, RegionStep
<1>3. Term(s, i, T) = -Term(s, i + 1, T) /\ Term(s, i + 1, T) \in {-1, 0, 1}
  <2>1. s.edge[s.actives[i]].wind_dx \in {-1, 1} /\ s.edge[s.actives[i + 1]].wind_dx \in {-1, 1}
    BY <1>1, EdgeOfPosition
  <2> QED BY <2>1 DEF Term, MaximaPair, SamePolyType
<1> QED BY <1>2, <1>3

\* The regions of the list without two bounds of one maximum.
LEMMA RegionsGone ==
  ASSUME NEW s, StateType(s), NEW i \in 1 .. Count(s) - 1, NEW d, d = s.actives[i],
         NEW e, e = s.actives[i + 1], MaximaPair(s, d, e),
         NEW u, PairGone(s, u, i, d, e), IsInjective(s.actives), u.cliptype = s.cliptype
  PROVE  /\ InResult(s, i + 1) <=> InResult(s, i - 1)
         /\ \A k \in 0 .. i - 1 : InResult(u, k) <=> InResult(s, k)
         /\ \A k \in i - 1 .. Count(u) : InResult(u, k) <=> InResult(s, k + 2)
<1>1. /\ Count(s) \in Nat /\ i \in Nat /\ i \in 1 .. Count(s) /\ i + 1 \in 1 .. Count(s)
      /\ d \in Edge /\ e \in Edge
      /\ \A k \in (1 .. Count(s)) \ {i, i + 1} : s.actives[k] \in Edge \ {d, e}
  BY TwoNeighbours
<1>2. /\ StateType(u) /\ Count(u) = Count(s) - 2 /\ u.fillrule = s.fillrule
      /\ \A k \in 1 .. i - 1 : u.actives[k] = s.actives[k]
      /\ \A k \in i .. Count(u) : u.actives[k] = s.actives[k + 2]
      /\ \A x \in Edge \ {d, e} : u.edge[x] = s.edge[x]
  BY DEF PairGone
<1>3. ASSUME NEW T \in {"Subject", "Clip"}
      PROVE  /\ RegionWinding(s, i + 1, T) = RegionWinding(s, i - 1, T)
             /\ \A k \in 0 .. i - 1 : RegionWinding(u, k, T) = RegionWinding(s, k, T)
             /\ \A j \in i + 1 .. Count(s) : RegionWinding(u, j - 2, T) = RegionWinding(s, j, T)
  <2>1. RegionWinding(s, i + 1, T) = RegionWinding(s, i - 1, T)
    BY MaximumSums
  <2>2. \A k \in 0 .. i - 1 : RegionWinding(u, k, T) = RegionWinding(s, k, T)
    <3>1. i - 1 \in Nat /\ i - 1 <= Count(s) /\ i - 1 <= Count(u)
      BY <1>1, <1>2
    <3>2. \A k \in 1 .. i - 1 : Term(u, k, T) = Term(s, k, T)
      <4> TAKE k \in 1 .. i - 1
      <4>1. k \in (1 .. Count(s)) \ {i, i + 1}
        BY <1>1
      <4> QED BY <1>1, <1>2, <4>1 DEF Term
    <3> QED BY <1>2, <3>1, <3>2, SumsBefore
  <2>3. MovedSums(s, u, T, i + 1, -2)
    <3>1. i + 1 \in 0 .. Count(s) /\ (i + 1) + (-2) >= 0 /\ Count(u) = Count(s) + (-2) /\ -2 \in Int
      BY <1>1, <1>2
    <3>2. RegionWinding(u, (i + 1) + (-2), T) = RegionWinding(s, i + 1, T)
      <4>1. (i + 1) + (-2) = i - 1 /\ i - 1 \in 0 .. i - 1
        BY <1>1
      <4> QED BY <2>1, <2>2, <4>1
    <3>3. MovedTerms(s, u, T, i + 1, -2)
      <4> SUFFICES ASSUME NEW j \in (i + 1) + 1 .. Count(s) PROVE Term(u, j + (-2), T) = Term(s, j, T)
        BY DEF MovedTerms
      <4>1. j \in (1 .. Count(s)) \ {i, i + 1} /\ j + (-2) \in i .. Count(u) /\ (j + (-2)) + 2 = j
        BY <1>1, <1>2
      <4>2. u.actives[j + (-2)] = s.actives[j] /\ s.actives[j] \in Edge \ {d, e}
        BY <1>1, <1>2, <4>1
      <4> QED BY <1>2, <4>2 DEF Term
    <3> QED BY <1>2, <3>1, <3>2, <3>3, SumsAfter
  <2>4. \A j \in i + 1 .. Count(s) : RegionWinding(u, j - 2, T) = RegionWinding(s, j, T)
    <3> TAKE j \in i + 1 .. Count(s)
    <3>1. j + (-2) = j - 2
      BY <1>1
    <3> QED BY <2>3, <3>1 DEF MovedSums
  <2> QED BY <2>1, <2>2, <2>4
<1>4. InResult(s, i + 1) <=> InResult(s, i - 1)
  <2>1. i + 1 \in 0 .. Count(s) /\ i - 1 \in 0 .. Count(s)
    BY <1>1
  <2>2. \A T \in {"Subject", "Clip"} : RegionWinding(s, i + 1, T) = RegionWinding(s, i - 1, T)
    BY <1>3
  <2> QED BY <2>1, <2>2, SumsGiveResult
<1>5. \A k \in 0 .. i - 1 : InResult(u, k) <=> InResult(s, k)
  <2> TAKE k \in 0 .. i - 1
  <2>1. k \in 0 .. Count(s) /\ k \in 0 .. Count(u)
    BY <1>1, <1>2
  <2>2. \A T \in {"Subject", "Clip"} : RegionWinding(u, k, T) = RegionWinding(s, k, T)
    BY <1>3
  <2> QED BY <1>2, <2>1, <2>2, SumsGiveResult
<1>6. \A k \in i - 1 .. Count(u) : InResult(u, k) <=> InResult(s, k + 2)
  <2> TAKE k \in i - 1 .. Count(u)
  <2>1. k \in 0 .. Count(u) /\ k + 2 \in 0 .. Count(s) /\ k + 2 \in i + 1 .. Count(s) /\ (k + 2) - 2 = k
    BY <1>1, <1>2
  <2>2. \A T \in {"Subject", "Clip"} : RegionWinding(u, k, T) = RegionWinding(s, k + 2, T)
    BY <1>3, <2>1
  <2> QED BY <1>2, <2>1, <2>2, SumsGiveResult
<1> QED BY <1>4, <1>5, <1>6

LEMMA PairLeaves ==
  ASSUME NEW s, Sound(s), NEW i \in 1 .. Count(s) - 1, NEW d, d = s.actives[i],
         NEW e, e = s.actives[i + 1], MaximaPair(s, d, e), ~IsJoined(s, d), ~IsJoined(s, e),
         NEW v, Redrawn(s, v, {d, e}), ~IsHot(v, d), ~IsHot(v, e),
         NEW u, PairGone(v, u, i, d, e), SameDrawing(v, u), u.cliptype = v.cliptype, HorizontalsFree(u)
  PROVE  Gone(s, u)
<1>1. StateType(s) /\ IsInjective(s.actives) /\ s.succeeded /\ DrawnUpTo(s, Count(s))
  BY DEF Sound
<1>2. /\ Count(s) \in Nat /\ i \in Nat /\ i \in 1 .. Count(s) /\ i + 1 \in 1 .. Count(s)
      /\ d \in Edge /\ e \in Edge
      /\ \A k \in (1 .. Count(s)) \ {i, i + 1} : s.actives[k] \in Edge \ {d, e}
  BY <1>1, TwoNeighbours
<1>3. /\ StateType(v) /\ SameStage(s, v) /\ v.succeeded = s.succeeded /\ Coupled(v) /\ RecordsStay(s, v)
      /\ \A x \in Edge : /\ v.edge[x].join_with = s.edge[x].join_with
                         /\ v.edge[x].horizontal = s.edge[x].horizontal
                         /\ x \notin {d, e} => SameSide(s, v, x)
  BY RedrawnKeeps
<1>4. v.actives = s.actives /\ Count(v) = Count(s) /\ v.cliptype = s.cliptype /\ SameBounds(s, v)
  BY <1>3 DEF SameStage, Count
<1>5. /\ StateType(u) /\ IsInjective(u.actives) /\ Count(u) = Count(s) - 2
      /\ \A k \in 1 .. i - 1 : u.actives[k] = s.actives[k]
      /\ \A k \in i .. Count(u) : u.actives[k] = s.actives[k + 2]
      /\ \A x \in Edge \ {d, e} : u.edge[x] = v.edge[x]
  BY <1>4 DEF PairGone
<1>6. Coupled(u) /\ RecordsStay(v, u) /\ \A x \in Edge : SameSide(v, u, x)
  <2>1. ASSUME NEW x \in Edge, IsHot(v, x) PROVE x \in Active(u)
    <3>1. x \in Active(v) /\ x \notin {d, e}
      BY <1>3, <2>1 DEF Coupled, HoldsSide
    <3>2. DOMAIN s.actives = 1 .. Count(s) /\ DOMAIN u.actives = 1 .. Count(u)
      BY <1>1, <1>5, ListDomain
    <3>3. PICK k \in 1 .. Count(s) : s.actives[k] = x
      BY <1>4, <3>1, <3>2 DEF Active, Range
    <3>4. k \notin {i, i + 1}
      BY <3>1, <3>3
    <3>5. CASE k < i
      <4>1. k \in 1 .. i - 1 /\ k \in 1 .. Count(u)
        BY <1>2, <1>5, <3>5
      <4> QED BY <1>5, <3>2, <3>3, <4>1 DEF Active, Range
    <3>6. CASE k > i + 1
      <4>1. k - 2 \in i .. Count(u) /\ k - 2 \in 1 .. Count(u) /\ (k - 2) + 2 = k
        BY <1>2, <1>5, <3>6
      <4> QED BY <1>5, <3>2, <3>3, <4>1 DEF Active, Range
    <3> QED BY <1>2, <3>3, <3>4, <3>5, <3>6
  <2> QED BY <1>3, <2>1, DrawingCarries
<1>7. \A x \in Edge \ {d, e} : SameSide(s, u, x) /\ u.edge[x].join_with = s.edge[x].join_with
  BY <1>3, <1>5, <1>6 DEF SameSide
<1>8. /\ \A k \in 0 .. i - 1 : InResult(u, k) <=> InResult(s, k)
      /\ \A k \in i - 1 .. Count(u) : InResult(u, k) <=> InResult(s, k + 2)
  <2>1. MaximaPair(v, d, e)
    BY <1>2, <1>4, PairKept
  <2>2. i \in 1 .. Count(v) - 1 /\ d = v.actives[i] /\ e = v.actives[i + 1] /\ IsInjective(v.actives)
    BY <1>1, <1>4
  <2>3. /\ \A k \in 0 .. i - 1 : InResult(u, k) <=> InResult(v, k)
        /\ \A k \in i - 1 .. Count(u) : InResult(u, k) <=> InResult(v, k + 2)
    BY <1>3, <2>1, <2>2, RegionsGone
  <2>4. \A k \in 0 .. Count(s) : InResult(v, k) <=> InResult(s, k)
    BY <1>1, <1>3, SameResult
  <2>5. \A k \in 0 .. i - 1 : k \in 0 .. Count(s)
    BY <1>2
  <2>6. \A k \in i - 1 .. Count(u) : k + 2 \in 0 .. Count(s)
    BY <1>2, <1>5
  <2> QED BY <2>3, <2>4, <2>5, <2>6
<1>9. \A k \in 1 .. i - 1 : Alike(s, k, u, k)
  <2> TAKE k \in 1 .. i - 1
  <2>1. k \in (1 .. Count(s)) \ {i, i + 1} /\ k \in 1 .. Count(s) /\ k \in 1 .. Count(u)
    BY <1>2, <1>5
  <2>2. u.actives[k] = s.actives[k] /\ s.actives[k] \in Edge \ {d, e}
    BY <1>2, <1>5, <2>1
  <2>3. JoinAt(u, k) = JoinAt(s, k)
    BY <1>7, <2>1, <2>2 DEF JoinAt
  <2> QED BY <1>7, <2>2, <2>3 DEF Alike, SameSide
<1>10. \A k \in i .. Count(u) : Alike(s, k + 2, u, k)
  <2> TAKE k \in i .. Count(u)
  <2>1. k + 2 \in (1 .. Count(s)) \ {i, i + 1} /\ k + 2 \in 1 .. Count(s) /\ k \in 1 .. Count(u)
    BY <1>2, <1>5
  <2>2. u.actives[k] = s.actives[k + 2] /\ s.actives[k + 2] \in Edge \ {d, e}
    BY <1>2, <1>5, <2>1
  <2>3. JoinAt(u, k) = JoinAt(s, k + 2)
    BY <1>7, <2>1, <2>2 DEF JoinAt
  <2> QED BY <1>7, <2>2, <2>3 DEF Alike, SameSide
<1>11. JoinAt(s, i) = "NoJoin" /\ JoinAt(s, i + 1) = "NoJoin"
  BY <1>2 DEF JoinAt, IsJoined
<1>12. DrawnUpTo(u, Count(u))
  <2>1. Without(s, u, i)
    BY <1>5, <1>8, <1>9, <1>10 DEF Without
  <2> QED BY <1>1, <1>5, <1>11, <2>1, TakenOut
<1>13. u.succeeded
  BY <1>1, <1>3 DEF SameDrawing
<1>14. RecordsStay(s, u)
  BY <1>1, <1>3, <1>5, <1>6, StaysTransitive
<1> QED BY <1>5, <1>6, <1>12, <1>13, <1>14 DEF Gone, Sound

LEMMA RemoveKeeps ==
  ASSUME NEW s, StateType(s), NEW e \in Edge, ~IsHot(s, e), HorizontalsFree(s)
  PROVE  LET t == RemoveFromAel(s, e)
         IN  SameDrawing(s, t) /\ t.cliptype = s.cliptype /\ HorizontalsFree(t)
<1> DEFINE t == RemoveFromAel(s, e)
<1>1. CASE e \in Active(s)
  <2>1. /\ t.front = s.front /\ t.back = s.back /\ t.has_points = s.has_points
        /\ t.succeeded = s.succeeded /\ t.cliptype = s.cliptype /\ t.owner = s.owner
        /\ t.edge = [s.edge EXCEPT ![e] = Dead]
    BY <1>1 DEF RemoveFromAel, StateType
  <2>2. \A x \in Edge : t.edge[x] = IF x = e THEN Dead ELSE s.edge[x]
    BY <2>1 DEF StateType
  <2>3. Dead.outrec = NoRecord /\ Dead.horizontal = FALSE
    BY DEF Dead, Bound
  <2> HIDE DEF t
  <2>4. SameDrawing(s, t)
    BY <2>1, <2>2, <2>3 DEF SameDrawing, TablesKept, SameOutrecs, IsHot
  <2>5. HorizontalsFree(t)
    BY <2>2, <2>3 DEF HorizontalsFree, IsJoined
  <2> QED BY <2>1, <2>4, <2>5 DEF t
<1>2. CASE e \notin Active(s)
  BY <1>2 DEF RemoveFromAel, SameDrawing, TablesKept, SameOutrecs
<1> QED BY <1>1, <1>2

Leaves(s, u, i, d, e) ==
  PairGone(s, u, i, d, e) /\ SameDrawing(s, u) /\ u.cliptype = s.cliptype /\ HorizontalsFree(u)

LEMMA BothLeave ==
  ASSUME NEW s, StateType(s), IsInjective(s.actives), HorizontalsFree(s),
         NEW i \in 1 .. Count(s) - 1, NEW d, d = s.actives[i], NEW e, e = s.actives[i + 1],
         ~IsHot(s, d), ~IsHot(s, e)
  PROVE  /\ Leaves(s, RemoveFromAel(RemoveFromAel(s, d), e), i, d, e)
         /\ Leaves(s, RemoveFromAel(RemoveFromAel(s, e), d), i, d, e)
<1>1. /\ Count(s) \in Nat /\ i \in 1 .. Count(s) /\ i + 1 \in 1 .. Count(s)
      /\ d \in Edge /\ e \in Edge
  BY TwoNeighbours
<1>2. ASSUME NEW c \in {i, i + 1}, NEW f, f = s.actives[c], NEW g, {f, g} = {d, e}, f # g
      PROVE  Leaves(s, RemoveFromAel(RemoveFromAel(s, f), g), i, d, e)
  <2> DEFINE t == RemoveFromAel(s, f)
             u == RemoveFromAel(t, g)
  <2>1. f \in Edge /\ g \in Edge /\ ~IsHot(s, f) /\ ~IsHot(s, g) /\ c \in 1 .. Count(s)
    BY <1>1, <1>2
  <2>2. RemovedAt(s, t, c)
    BY <1>2, <2>1, EdgeLeaves
  <2>3. SameDrawing(s, t) /\ t.cliptype = s.cliptype /\ HorizontalsFree(t)
    BY <2>1, RemoveKeeps
  <2> HIDE DEF t
  <2>4. t.actives[i] = g /\ i \in 1 .. Count(t) /\ StateType(t) /\ IsInjective(t.actives)
    <3>1. StateType(t) /\ IsInjective(t.actives) /\ Count(t) = Count(s) - 1
      BY <2>2 DEF RemovedAt
    <3>2. CASE c = i
      <4>1. i \in c .. Count(s) - 1 /\ g = e
        BY <1>1, <1>2, <3>2
      <4> QED BY <2>2, <4>1 DEF RemovedAt
    <3>3. CASE c = i + 1
      <4>1. i \in 1 .. c - 1 /\ g = d
        BY <1>1, <1>2, <3>3
      <4> QED BY <2>2, <4>1 DEF RemovedAt
    <3> QED BY <1>1, <3>1, <3>2, <3>3
  <2>5. RemovedAt(t, u, i)
    BY <2>4, EdgeLeaves
  <2>6. ~IsHot(t, g)
    BY <2>1, <2>3 DEF SameDrawing, SameOutrecs, IsHot
  <2>7. SameDrawing(t, u) /\ u.cliptype = t.cliptype /\ HorizontalsFree(u)
    BY <2>1, <2>3, <2>4, <2>6, RemoveKeeps
  <2> HIDE DEF u
  <2>8. PairGone(s, u, i, d, e)
    BY <2>2, <2>5, NeighboursGone
  <2>9. SameDrawing(s, u)
    BY <2>3, <2>7 DEF SameDrawing, TablesKept, SameOutrecs
  <2> QED BY <2>3, <2>7, <2>8, <2>9 DEF Leaves, u, t
<1>3. d # e
  BY TwoNeighbours
<1>4. Leaves(s, RemoveFromAel(RemoveFromAel(s, d), e), i, d, e)
  BY <1>2, <1>3
<1>5. Leaves(s, RemoveFromAel(RemoveFromAel(s, e), d), i, d, e)
  BY <1>2, <1>3
<1> QED BY <1>4, <1>5

BothGone(s, v, d, e) ==
  /\ Gone(s, RemoveFromAel(RemoveFromAel(v, d), e))
  /\ Gone(s, RemoveFromAel(RemoveFromAel(v, e), d))

LEMMA ColdPairLeaves ==
  ASSUME NEW s, Sound(s), NEW i \in 1 .. Count(s) - 1, NEW d, d = s.actives[i],
         NEW e, e = s.actives[i + 1], MaximaPair(s, d, e), ~IsJoined(s, d), ~IsJoined(s, e),
         NEW v, Redrawn(s, v, {d, e}), ~IsHot(v, d), ~IsHot(v, e)
  PROVE  BothGone(s, v, d, e)
<1>1. IsInjective(s.actives) /\ HorizontalsFree(s)
  BY DEF Sound
<1>2. /\ StateType(v) /\ SameStage(s, v)
      /\ \A x \in Edge : /\ v.edge[x].join_with = s.edge[x].join_with
                         /\ v.edge[x].horizontal = s.edge[x].horizontal
  BY RedrawnKeeps
<1>3. v.actives = s.actives /\ Count(v) = Count(s)
  BY <1>2 DEF SameStage, Count
<1>4. HorizontalsFree(v)
  BY <1>1, <1>2 DEF HorizontalsFree, IsJoined
<1> DEFINE u1 == RemoveFromAel(RemoveFromAel(v, d), e)
           u2 == RemoveFromAel(RemoveFromAel(v, e), d)
<1>5. Leaves(v, u1, i, d, e) /\ Leaves(v, u2, i, d, e)
  BY <1>1, <1>2, <1>3, <1>4, BothLeave
<1> HIDE DEF u1, u2
<1>6. Gone(s, u1)
  <2>1. PairGone(v, u1, i, d, e) /\ SameDrawing(v, u1) /\ u1.cliptype = v.cliptype /\ HorizontalsFree(u1)
    BY <1>5 DEF Leaves
  <2> QED BY <2>1, PairLeaves
<1>7. Gone(s, u2)
  <2>1. PairGone(v, u2, i, d, e) /\ SameDrawing(v, u2) /\ u2.cliptype = v.cliptype /\ HorizontalsFree(u2)
    BY <1>5 DEF Leaves
  <2> QED BY <2>1, PairLeaves
<1> QED BY <1>6, <1>7 DEF BothGone, u1, u2

\* The two bounds of a maximum are hot together, and the record they close or
\* join is closed on the right sides.
LEMMA MaximumCloses ==
  ASSUME NEW s, Sound(s), NEW i \in 1 .. Count(s) - 1, NEW d, d = s.actives[i],
         NEW e, e = s.actives[i + 1], MaximaPair(s, d, e), ~IsJoined(s, d)
  PROVE  /\ ~IsJoined(s, e) => (IsHot(s, d) <=> IsHot(s, e))
         /\ ~IsHot(s, d) => ~IsHot(s, e) /\ BothGone(s, s, d, e)
         /\ IsHot(s, d) /\ ~IsJoined(s, e) => BothGone(s, AddLocalMaxPolygon(s, d, e), d, e)
<1>1. StateType(s) /\ IsInjective(s.actives) /\ Coupled(s) /\ DrawnUpTo(s, Count(s))
  BY DEF Sound
<1>2. /\ Count(s) \in Nat /\ i \in Nat /\ i \in 1 .. Count(s) /\ i + 1 \in 1 .. Count(s)
      /\ (i + 1) - 1 = i /\ d \in Edge /\ e \in Edge /\ d # e /\ LeftOf(s, d, e)
  BY <1>1, TwoNeighbours
<1>3. InResult(s, i + 1) <=> InResult(s, i - 1)
  <2>1. \A T \in {"Subject", "Clip"} : RegionWinding(s, i + 1, T) = RegionWinding(s, i - 1, T)
    BY <1>1, MaximumSums
  <2>2. i + 1 \in 0 .. Count(s) /\ i - 1 \in 0 .. Count(s)
    BY <1>2
  <2> QED BY <1>1, <2>1, <2>2, SumsGiveResult
<1>4. DrawnAt(s, i) /\ DrawnAt(s, i + 1)
  BY <1>1, <1>2 DEF DrawnUpTo
<1>5. (IsHot(s, e) \/ IsJoined(s, e)) <=> IsHot(s, d)
  BY <1>2, <1>3, <1>4 DEF DrawnAt
<1>6. ASSUME ~IsHot(s, d) PROVE ~IsHot(s, e) /\ BothGone(s, s, d, e)
  <2>1. ~IsHot(s, e) /\ ~IsJoined(s, e)
    BY <1>5, <1>6
  <2>2. Redrawn(s, s, {d, e})
    BY <1>1, RedrawnReflexive
  <2> QED BY <1>6, <2>1, <2>2, ColdPairLeaves
<1>7. ASSUME IsHot(s, d), ~IsJoined(s, e) PROVE BothGone(s, AddLocalMaxPolygon(s, d, e), d, e)
  <2> DEFINE v == AddLocalMaxPolygon(s, d, e)
  <2>1. IsHot(s, e)
    BY <1>5, <1>7
  <2>2. ~(IsFront(s, d) <=> IsFront(s, e))
    BY <1>7, <2>1, HotNeighbours
  <2>3. Redrawn(s, v, {d, e}) /\ ~IsHot(v, d) /\ ~IsHot(v, e)
    BY <1>1, <1>2, <1>7, <2>1, <2>2, MaximumDraws
  <2> HIDE DEF v
  <2>4. BothGone(s, v, d, e)
    BY <1>7, <2>3, ColdPairLeaves
  <2> QED BY <2>4 DEF v
<1> QED BY <1>5, <1>6, <1>7

\* update_edge_into_ael: the edge has a new segment, and a join it had with a
\* neighbour is released.
Turned(s, t, e) == Sound(t) /\ RecordsStay(s, t) /\ Released(s, t) /\ ~IsJoined(t, e)

Tilted(s, t, D) ==
  /\ Relabelled(s, t)
  /\ \A x \in Edge : /\ t.edge[x].join_with = s.edge[x].join_with
                     /\ x \notin D => t.edge[x].horizontal = s.edge[x].horizontal

LEMMA PairTurns ==
  ASSUME NEW s, Sound(s), NEW i \in 1 .. Count(s) - 1, JoinAt(s, i) = "Right",
         NEW d, NEW e, d = s.actives[i], e = s.actives[i + 1],
         NEW sH, Tilted(s, sH, {d, e}),
         NEW s1, s1 = WithJoins(sH, d, e, "NoJoin", "NoJoin"),
         NEW t, t = AddLocalMinPolygon(s1, d, e, TRUE)
  PROVE  Turned(s, t, d) /\ Turned(s, t, e)
<1>1. StateType(s) /\ d \in Edge /\ e \in Edge /\ StateType(sH) /\ LeftOf(s, d, e)
  BY TwoNeighbours DEF Sound, Relabelled, Tilted
<1>2. /\ Relabelled(sH, s1)
      /\ \A x \in Edge : /\ s1.edge[x].join_with
                              = IF x = e THEN "NoJoin" ELSE IF x = d THEN "NoJoin" ELSE sH.edge[x].join_with
                         /\ s1.edge[x].horizontal = sH.edge[x].horizontal
  <2>1. "NoJoin" \in JoinStates
    BY DEF JoinStates
  <2>2. StateType(sH) /\ d \in Edge /\ e \in Edge
    BY <1>1
  <2> QED BY <2>1, <2>2, JoinsWritten
<1>3. StateType(s1) /\ LeftOf(s1, d, e)
  <2>1. sH.actives = s.actives
    BY DEF Tilted, Relabelled, SameStage
  <2> QED BY <1>1, <1>2, <2>1 DEF Relabelled, SameStage, LeftOf, Count
<1>4. Opened(s1, t, d, e, OpensInFront(s1, d, e, TRUE))
  BY <1>1, <1>3, MinimumOpens
<1>5. SameWinding(s1, t)
  BY <1>3, TypedIsShaped, AddLocalMinKeepsCounts
<1>6. JoinsFreed(s, s1, {d, e})
  BY <1>2 DEF JoinsFreed, Tilted
<1>7. Relabelled(s, s1)
  BY <1>2, RelabelledTransitive DEF Tilted
<1>8. /\ Sound(t) /\ RecordsStay(s, t) /\ Released(s, t) /\ Level(s1, t)
      /\ ~IsJoined(t, d) /\ ~IsJoined(t, e)
  <2> HIDE <1>1, <1>2, <1>3
  <2> QED BY <1>4, <1>5, <1>6, <1>7, PairOpens
<1> QED BY <1>8 DEF Turned

LEMMA TurnSplits ==
  ASSUME NEW s, Sound(s), NEW e \in Active(s), NEW h \in BOOLEAN,
         NEW sH, sH = [s EXCEPT !.edge[e].horizontal = h]
  PROVE  Turned(s, SplitIfJoined(sH, e), e)
<1>1. StateType(s) /\ IsInjective(s.actives) /\ Coupled(s) /\ DrawnUpTo(s, Count(s))
      /\ HorizontalsFree(s)
  BY DEF Sound
<1>2. Count(s) \in Nat /\ DOMAIN s.actives = 1 .. Count(s)
  BY <1>1, ListDomain
<1>3. PICK i \in 1 .. Count(s) : e = s.actives[i]
  BY <1>2 DEF Active, Range
<1>4. e \in Edge /\ PositionOf(s, e) = i
  BY <1>1, <1>2, <1>3, PositionIsUnique, EdgeOfPosition
<1>5. /\ Relabelled(s, sH)
      /\ \A x \in Edge : /\ sH.edge[x].join_with = s.edge[x].join_with
                         /\ sH.edge[x].horizontal = IF x = e THEN h ELSE s.edge[x].horizontal
  BY <1>1, <1>4, HorizontalWritten
<1>6. sH.actives = s.actives /\ StateType(sH) /\ SameStage(s, sH) /\ SameDrawing(s, sH)
      /\ SameWinding(s, sH)
  BY <1>5 DEF Relabelled, SameStage
<1>7. Count(sH) = Count(s) /\ PositionOf(sH, e) = i
  BY <1>4, <1>6 DEF Count, PositionOf
<1>8. JoinAt(s, i) = s.edge[e].join_with /\ JoinAt(s, i) \in {"NoJoin", "Left", "Right"}
  BY <1>1, <1>3, JoinType
<1>9. PairedAt(s, i)
  BY <1>1 DEF DrawnUpTo
<1>10. sH.edge[e].join_with = JoinAt(s, i)
  BY <1>4, <1>5, <1>8
<1>11. CASE JoinAt(s, i) = "NoJoin"
  <2>1. SplitIfJoined(sH, e) = sH /\ ~IsJoined(sH, e) /\ ~IsJoined(s, e)
    BY <1>8, <1>10, <1>11 DEF SplitIfJoined, IsJoined
  <2>2. HorizontalsFree(sH)
    BY <1>1, <1>5, <2>1 DEF HorizontalsFree, IsJoined
  <2>3. Sound(sH) /\ RecordsStay(s, sH) /\ \A x \in Edge : SameSide(s, sH, x)
    BY <1>5, <1>6, <2>2, CarriedSound
  <2>4. Released(s, sH)
    BY <1>5, <1>6, <2>3 DEF Released, IsJoined
  <2> QED BY <2>1, <2>3, <2>4 DEF Turned
<1>12. CASE JoinAt(s, i) = "Right"
  <2>1. JoinAt(s, i + 1) = "Left" /\ JoinAt(s, Count(s) + 1) = "NoJoin"
    BY <1>1, <1>9, <1>12, JoinType DEF PairedAt
  <2>2. i \in 1 .. Count(s) - 1
    BY <1>2, <2>1
  <2> DEFINE f == s.actives[i + 1]
             s1 == WithJoins(sH, e, f, "NoJoin", "NoJoin")
             t == AddLocalMinPolygon(s1, e, f, TRUE)
  <2>3. NextInAel(sH, e) = f
    BY <1>2, <1>6, <1>7, <2>2 DEF NextInAel, At
  <2>4. SplitIfJoined(sH, e) = t
    BY <1>10, <1>12, <2>3 DEF SplitIfJoined, IsJoined, SplitJoinedEdge, WithJoins
  <2>5. Tilted(s, sH, {e, f})
    BY <1>5 DEF Tilted
  <2>6. Turned(s, t, e)
    <3> HIDE <1>1, <1>4, <1>6
    <3> QED BY <1>3, <1>12, <2>2, <2>5, PairTurns
  <2> QED BY <2>4, <2>6
<1>13. CASE JoinAt(s, i) = "Left"
  <2> DEFINE k == i - 1
             d == s.actives[k]
             s1 == WithJoins(sH, d, e, "NoJoin", "NoJoin")
             t == AddLocalMinPolygon(s1, d, e, TRUE)
  <2>1. k \in 1 .. Count(s) - 1 /\ k + 1 = i
    BY <1>2, <1>9, <1>13 DEF PairedAt
  <2>2. PairedAt(s, k)
    BY <1>1, <1>2, <2>1 DEF DrawnUpTo
  <2>3. JoinAt(s, k) = "Right"
    BY <1>13, <2>1, <2>2 DEF PairedAt
  <2>4. PrevInAel(sH, e) = d
    BY <1>2, <1>6, <1>7, <2>1 DEF PrevInAel, At
  <2>5. SplitIfJoined(sH, e) = t
    BY <1>10, <1>13, <2>4 DEF SplitIfJoined, IsJoined, SplitJoinedEdge, WithJoins
  <2>6. e = s.actives[k + 1]
    BY <1>3, <2>1
  <2>7. Tilted(s, sH, {d, e})
    BY <1>5 DEF Tilted
  <2>8. Turned(s, t, e)
    <3> HIDE DEF k
    <3> HIDE <1>1, <1>4, <1>6
    <3> QED BY <2>1, <2>3, <2>6, <2>7, PairTurns
  <2> QED BY <2>5, <2>8
<1> QED BY <1>8, <1>11, <1>12, <1>13

LEMMA JoinsCheckedTwice ==
  ASSUME NEW s, Sound(s), NEW d \in Active(s), NEW e \in Active(s), NEW a, NEW b
  PROVE  JoinChecked(s, CheckJoinRight(CheckJoinLeft(s, d, a), e, b))
<1> DEFINE t == CheckJoinLeft(s, d, a)
           u == CheckJoinRight(t, e, b)
<1>1. JoinChecked(s, t)
  BY JoinsAreChecked
<1>2. Sound(t) /\ e \in Active(t)
  BY <1>1 DEF JoinChecked, SameStage, Active
<1> HIDE DEF t
<1>3. JoinChecked(t, u)
  BY <1>2, JoinsAreChecked
<1> HIDE DEF u
<1>4. Sound(u) /\ RecordsStay(s, u)
  BY <1>1, <1>3, StaysTransitive DEF JoinChecked, Sound
<1>5. SameWinding(s, u)
  BY <1>1, <1>3, SameIsTransitive DEF JoinChecked
<1>6. SameStage(s, u)
  BY <1>1, <1>3 DEF JoinChecked, SameStage, SameBounds
<1>7. \A x \in Edge : u.edge[x].horizontal = s.edge[x].horizontal
  BY <1>1, <1>3 DEF JoinChecked
<1>8. JoinChecked(s, u)
  BY <1>4, <1>5, <1>6, <1>7 DEF JoinChecked
<1> QED BY <1>8 DEF u, t

LEMMA EdgeUpdates ==
  ASSUME NEW s, Sound(s), NEW e \in Active(s), NEW h \in BOOLEAN, NEW a, NEW b
  PROVE  Gone(s, UpdateEdgeIntoAel(s, e, h, a, b))
<1> DEFINE sH == [s EXCEPT !.edge[e].horizontal = h]
           t == SplitIfJoined(sH, e)
<1>1. Turned(s, t, e)
  <2> HIDE DEF sH
  <2> QED BY TurnSplits DEF sH
<1> HIDE DEF t
<1>2. Sound(t) /\ RecordsStay(s, t) /\ e \in Active(t)
  BY <1>1 DEF Turned, Released, SameStage, Active
<1>3. CASE h
  <2>1. UpdateEdgeIntoAel(s, e, h, a, b) = t
    BY <1>3 DEF UpdateEdgeIntoAel, t
  <2> QED BY <1>2, <2>1 DEF Gone
<1>4. CASE ~h
  <2> DEFINE u == CheckJoinRight(CheckJoinLeft(t, e, a), e, b)
  <2>1. UpdateEdgeIntoAel(s, e, h, a, b) = u
    BY <1>4 DEF UpdateEdgeIntoAel, t
  <2>2. JoinChecked(t, u)
    BY <1>2, JoinsCheckedTwice
  <2> HIDE DEF u
  <2>3. Gone(s, u)
    BY <1>2, <2>2, StaysTransitive DEF Gone, JoinChecked, Sound
  <2> QED BY <2>1, <2>3
<1> QED BY <1>3, <1>4

-----------------------------------------------------------------------------
(* A local minimum.  Its left bound contributes exactly when it separates  *)
(* the result from its outside.                                            *)

\* is_contributing of the closed paths, for one edge with its counts.
Contributes(fillrule, cliptype, g, T) ==
  LET inside == IsInsideFill(fillrule, g.wind_cnt2)
  IN  /\ IsPrimaryBoundary(fillrule, g.winding_count)
      /\ CASE cliptype = "Intersection" -> inside
           [] cliptype = "Union"        -> ~inside
           [] cliptype = "Difference"   -> inside = (T = "Clip")
           [] cliptype = "Xor"          -> TRUE

LEMMA PrimaryBoundary ==
  ASSUME NEW rule \in {"EvenOdd", "NonZero", "Positive", "Negative"}, NEW g,
         NEW a \in Int, NEW x \in {-1, 1}, NEW o \in Int, CountsMatch(rule, g, a, a + x, o)
  PROVE  /\ IsPrimaryBoundary(rule, g.winding_count) <=> ~(Filled(rule, a) <=> Filled(rule, a + x))
         /\ IsInsideFill(rule, g.wind_cnt2) <=> Filled(rule, o)
<1>1. CASE rule = "EvenOdd"
  <2>1. g.wind_cnt2 = o % 2 /\ o % 2 \in {0, 1}
    BY <1>1 DEF CountsMatch
  <2>2. ~(a % 2 = 1 <=> (a + x) % 2 = 1)
    <3>1. CASE x = 1
      BY <3>1
    <3>2. CASE x = -1
      BY <3>2
    <3> QED BY <3>1, <3>2
  <2>3. IsPrimaryBoundary(rule, g.winding_count)
    BY <1>1 DEF IsPrimaryBoundary
  <2>4. IsInsideFill(rule, g.wind_cnt2) <=> g.wind_cnt2 # 0
    BY <1>1 DEF IsInsideFill
  <2> QED BY <1>1, <2>1, <2>2, <2>3, <2>4 DEF Filled
<1>2. CASE rule = "NonZero"
  <2>1. g.winding_count = Far(a, a + x) /\ g.wind_cnt2 = o
    BY <1>2 DEF CountsMatch
  <2>2. IsInsideFill(rule, g.wind_cnt2) <=> o # 0
    BY <1>2, <2>1 DEF IsInsideFill
  <2>3. IsPrimaryBoundary(rule, g.winding_count) <=> Far(a, a + x) \in {1, -1}
    BY <1>2, <2>1 DEF IsPrimaryBoundary
  <2> QED BY <1>2, <2>2, <2>3 DEF Filled, Far, Abs
<1>3. CASE rule = "Positive"
  <2>1. g.winding_count = Far(a, a + x) /\ g.wind_cnt2 = o
    BY <1>3 DEF CountsMatch
  <2>2. IsInsideFill(rule, g.wind_cnt2) <=> o > 0
    BY <1>3, <2>1 DEF IsInsideFill
  <2>3. IsPrimaryBoundary(rule, g.winding_count) <=> Far(a, a + x) = 1
    BY <1>3, <2>1 DEF IsPrimaryBoundary
  <2> QED BY <1>3, <2>2, <2>3 DEF Filled, Far, Abs
<1>4. CASE rule = "Negative"
  <2>1. g.winding_count = Far(a, a + x) /\ g.wind_cnt2 = o
    BY <1>4 DEF CountsMatch
  <2>2. IsInsideFill(rule, g.wind_cnt2) <=> o < 0
    BY <1>4, <2>1 DEF IsInsideFill
  <2>3. IsPrimaryBoundary(rule, g.winding_count) <=> Far(a, a + x) = -1
    BY <1>4, <2>1 DEF IsPrimaryBoundary
  <2> QED BY <1>4, <2>2, <2>3 DEF Filled, Far, Abs
<1> QED BY <1>1, <1>2, <1>3, <1>4

LEMMA InsideIsBoolean ==
  ASSUME NEW rule \in {"EvenOdd", "NonZero", "Positive", "Negative"}, NEW n
  PROVE  IsInsideFill(rule, n) \in BOOLEAN
<1>1. CASE rule = "EvenOdd"
  BY <1>1 DEF IsInsideFill
<1>2. CASE rule = "NonZero"
  BY <1>2 DEF IsInsideFill
<1>3. CASE rule = "Positive"
  BY <1>3 DEF IsInsideFill
<1>4. CASE rule = "Negative"
  BY <1>4 DEF IsInsideFill
<1> QED BY <1>1, <1>2, <1>3, <1>4

ContributeCorners(ct, T, g, rule, fA, fB, o, A, B) ==
  /\ ct \in {"Intersection", "Union", "Difference", "Xor"} /\ T \in {"Subject", "Clip"}
  /\ {fA, fB, o, A, B} \subseteq BOOLEAN
  /\ IsPrimaryBoundary(rule, g.winding_count) <=> ~(fA <=> fB)
  /\ IsInsideFill(rule, g.wind_cnt2) <=> o
  /\ A <=> ResultFrom(ct, T, fA, o)
  /\ B <=> ResultFrom(ct, T, fB, o)

LEMMA ContributeFacts ==
  ASSUME NEW ct, NEW T, NEW g, NEW rule, NEW fA, NEW fB, NEW o, NEW A, NEW B,
         rule \in {"EvenOdd", "NonZero", "Positive", "Negative"},
         ContributeCorners(ct, T, g, rule, fA, fB, o, A, B)
  PROVE  Contributes(rule, ct, g, T) <=> ~(A <=> B)
<1>0. /\ {fA, fB, o, A, B} \subseteq BOOLEAN /\ T \in {"Subject", "Clip"}
      /\ IsPrimaryBoundary(rule, g.winding_count) <=> ~(fA <=> fB)
      /\ IsInsideFill(rule, g.wind_cnt2) <=> o
      /\ A <=> ResultFrom(ct, T, fA, o)
      /\ B <=> ResultFrom(ct, T, fB, o)
  BY DEF ContributeCorners
<1>1. PICK inside \in BOOLEAN : inside = IsInsideFill(rule, g.wind_cnt2)
  <2>1. IsInsideFill(rule, g.wind_cnt2) \in BOOLEAN
    BY InsideIsBoolean
  <2> QED BY <2>1
<1>2. inside <=> o
  BY <1>0, <1>1
<1>3. CASE ct = "Intersection"
  <2>1. Contributes(rule, ct, g, T) <=> IsPrimaryBoundary(rule, g.winding_count) /\ inside
    BY <1>3, <1>1 DEF Contributes
  <2>2. (A <=> fA /\ o) /\ (B <=> fB /\ o)
    BY <1>0, <1>3 DEF ResultFrom, InResultOf
  <2> QED BY <1>0, <1>2, <2>1, <2>2
<1>4. CASE ct = "Union"
  <2>1. Contributes(rule, ct, g, T) <=> IsPrimaryBoundary(rule, g.winding_count) /\ ~inside
    BY <1>4, <1>1 DEF Contributes
  <2>2. (A <=> fA \/ o) /\ (B <=> fB \/ o)
    BY <1>0, <1>4 DEF ResultFrom, InResultOf
  <2> QED BY <1>0, <1>2, <2>1, <2>2
<1>5. CASE ct = "Difference"
  <2>1. Contributes(rule, ct, g, T)
          <=> IsPrimaryBoundary(rule, g.winding_count) /\ (inside <=> T = "Clip")
    BY <1>5, <1>1 DEF Contributes
  <2>2. CASE T = "Clip"
    <3>1. (A <=> o /\ ~fA) /\ (B <=> o /\ ~fB)
      BY <1>0, <1>5, <2>2 DEF ResultFrom, InResultOf
    <3> QED BY <1>0, <1>2, <2>1, <2>2, <3>1
  <2>3. CASE T = "Subject"
    <3>1. (A <=> fA /\ ~o) /\ (B <=> fB /\ ~o)
      BY <1>0, <1>5, <2>3 DEF ResultFrom, InResultOf
    <3> QED BY <1>0, <1>2, <2>1, <2>3, <3>1
  <2> QED BY <1>0, <2>2, <2>3
<1>6. CASE ct = "Xor"
  <2>1. Contributes(rule, ct, g, T) <=> IsPrimaryBoundary(rule, g.winding_count)
    BY <1>6 DEF Contributes
  <2>2. CASE T = "Clip"
    <3>1. (A <=> ~(o <=> fA)) /\ (B <=> ~(o <=> fB))
      BY <1>0, <1>6, <2>2 DEF ResultFrom, InResultOf
    <3> QED BY <1>0, <2>1, <3>1
  <2>3. CASE T = "Subject"
    <3>1. (A <=> ~(fA <=> o)) /\ (B <=> ~(fB <=> o))
      BY <1>0, <1>6, <2>3 DEF ResultFrom, InResultOf
    <3> QED BY <1>0, <2>1, <3>1
  <2> QED BY <1>0, <2>2, <2>3
<1> QED BY <1>3, <1>4, <1>5, <1>6 DEF ContributeCorners

LEMMA ContributingTells ==
  ASSUME NEW t, StateType(t), Matches(t), NEW k \in 1 .. Count(t), NEW e, e = t.actives[k]
  PROVE  IsContributing(t, e) <=> ~(InResult(t, k - 1) <=> InResult(t, k))
<1> DEFINE T == t.edge[e].polytype
           g == t.edge[e]
           x == t.edge[e].wind_dx
           a == RegionWinding(t, k - 1, T)
           b == RegionWinding(t, k, T)
           o == RegionWinding(t, k, Other(T))
<1>1. MatchesAt(t, k) /\ T \in {"Subject", "Clip"} /\ x \in {-1, 1} /\ Other(T) # T
  BY EdgeOfPosition DEF Matches, Other
<1>2. CountsMatch(t.fillrule, g, a, b, o)
  BY <1>1 DEF MatchesAt
<1>3. k \in 0 .. Count(t) /\ k - 1 \in 0 .. Count(t)
  BY ListDomain
<1>4. Term(t, k, T) = x
  BY <1>1 DEF Term
<1>5. a \in Int /\ b = a + x /\ o \in Int
  BY <1>3, <1>4, RegionStep
<1>6. /\ t.fillrule \in {"EvenOdd", "NonZero", "Positive", "Negative"}
      /\ t.cliptype \in {"Intersection", "Union", "Difference", "Xor"}
  BY DEF StateType
<1>7. /\ IsPrimaryBoundary(t.fillrule, g.winding_count) <=> ~(Fill(t, k - 1, T) <=> Fill(t, k, T))
      /\ IsInsideFill(t.fillrule, g.wind_cnt2) <=> Fill(t, k, Other(T))
  <2>1. CountsMatch(t.fillrule, g, a, a + x, o)
    BY <1>2, <1>5
  <2>2. /\ IsPrimaryBoundary(t.fillrule, g.winding_count)
             <=> ~(Filled(t.fillrule, a) <=> Filled(t.fillrule, a + x))
        /\ IsInsideFill(t.fillrule, g.wind_cnt2) <=> Filled(t.fillrule, o)
    <3> HIDE DEF g, x, a, b, o
    <3> QED BY <1>1, <1>5, <1>6, <2>1, PrimaryBoundary
  <2> QED BY <1>5, <2>2 DEF Fill
<1>8. Fill(t, k, Other(T)) = Fill(t, k - 1, Other(T))
  BY OtherFillPasses
<1>9. /\ InResult(t, k - 1) \in BOOLEAN /\ InResult(t, k) \in BOOLEAN
      /\ InResult(t, k - 1) <=> ResultFrom(t.cliptype, T, Fill(t, k - 1, T), Fill(t, k - 1, Other(T)))
      /\ InResult(t, k) <=> ResultFrom(t.cliptype, T, Fill(t, k, T), Fill(t, k, Other(T)))
  BY <1>1, <1>3, FillsGiveResult
<1>10. /\ Fill(t, k - 1, T) \in BOOLEAN /\ Fill(t, k, T) \in BOOLEAN /\ Fill(t, k, Other(T)) \in BOOLEAN
  BY <1>3, FillIsBoolean
<1>11. PICK fA \in BOOLEAN, fB \in BOOLEAN, f \in BOOLEAN :
         fA = Fill(t, k - 1, T) /\ fB = Fill(t, k, T) /\ f = Fill(t, k, Other(T))
  BY <1>10
<1>12. PICK A \in BOOLEAN, B \in BOOLEAN : A = InResult(t, k - 1) /\ B = InResult(t, k)
  BY <1>9
<1>13. ContributeCorners(t.cliptype, T, g, t.fillrule, fA, fB, f, A, B)
  <2> HIDE DEF T, g
  <2> QED BY <1>1, <1>6, <1>7, <1>8, <1>9, <1>11, <1>12 DEF ContributeCorners
<1>14. Contributes(t.fillrule, t.cliptype, g, T) <=> ~(A <=> B)
  <2> HIDE DEF T, g
  <2> QED BY <1>6, <1>13, ContributeFacts
<1>15. IsContributing(t, e) <=> Contributes(t.fillrule, t.cliptype, g, T)
  BY DEF IsContributing, Contributes
<1> QED BY <1>12, <1>14, <1>15

\* u has the records, the joins and the horizontals of s.
Carries(s, u) ==
  /\ u.cliptype = s.cliptype /\ u.fillrule = s.fillrule /\ SameDrawing(s, u)
  /\ \A x \in Edge : /\ u.edge[x].join_with = s.edge[x].join_with
                     /\ u.edge[x].horizontal = s.edge[x].horizontal

LEMMA CarriesTransitive ==
  ASSUME NEW s, NEW t, NEW u, Carries(s, t), Carries(t, u)
  PROVE  Carries(s, u)
  BY DEF Carries, SameDrawing, TablesKept, SameOutrecs

LEMMA ListCarries ==
  ASSUME NEW s, StateType(s), NEW i, NEW e
  PROVE  Carries(s, [s EXCEPT !.actives = InsertAt(@, i, e)])
<1> DEFINE q == InsertAt(s.actives, i, e)
           u == [s EXCEPT !.actives = q]
<1>1. [s EXCEPT !.actives = InsertAt(@, i, e)] = u
  OBVIOUS
<1> HIDE DEF q
<1>2. /\ u.cliptype = s.cliptype /\ u.fillrule = s.fillrule /\ u.edge = s.edge
      /\ u.front = s.front /\ u.back = s.back /\ u.has_points = s.has_points
      /\ u.succeeded = s.succeeded /\ u.owner = s.owner
  BY DEF StateType
<1> HIDE DEF u
<1>3. Carries(s, u)
  BY <1>2 DEF Carries, SameDrawing, TablesKept, SameOutrecs
<1> QED BY <1>1, <1>3

LEMMA CountsCarry ==
  ASSUME NEW s, StateType(s), NEW e \in Edge, NEW m \in Int, NEW n \in Int
  PROVE  Carries(s, [s EXCEPT !.edge[e].winding_count = m, !.edge[e].wind_cnt2 = n])
<1> DEFINE t == [s EXCEPT !.edge[e].winding_count = m]
           u == [t EXCEPT !.edge[e].wind_cnt2 = n]
<1>1. [s EXCEPT !.edge[e].winding_count = m, !.edge[e].wind_cnt2 = n] = u
  BY DEF StateType
<1>2. Recounted(s, t)
  BY CountWritten
<1>3. Recounted(t, u)
  <2>1. StateType(t)
    BY <1>2 DEF Recounted
  <2> HIDE DEF t
  <2> QED BY <2>1, CountWritten
<1> HIDE DEF t, u
<1>4. Recounted(s, u)
  BY <1>2, <1>3, RecountedTransitive
<1>5. Carries(s, u)
  BY <1>4 DEF Recounted, Carries, SameStage
<1> QED BY <1>1, <1>5

\* u is s with the two bounds of a local minimum at positions p and p + 1.
Entered(s, u, p, left, right) ==
  /\ StateType(u) /\ IsInjective(u.actives)
  /\ u.actives[p] = left /\ u.actives[p + 1] = right
  /\ PairGone(u, s, p, left, right) /\ MaximaPair(u, left, right)

LEMMA PairEntered ==
  ASSUME NEW s, StateType(s), IsInjective(s.actives),
         NEW left \in Edge, NEW right \in Edge, left # right,
         left \notin Active(s), right \notin Active(s),
         NEW s1, s1.actives = s.actives, s1.fillrule = s.fillrule,
         \A x \in Edge \ {left, right} : s1.edge[x] = s.edge[x],
         s1.edge[right].polytype = s1.edge[left].polytype,
         s1.edge[right].wind_dx = -s1.edge[left].wind_dx,
         s1.edge[left].wind_dx \in {-1, 1},
         NEW p \in 1 .. Count(s) + 1, NEW s2, InsertedAt(s1, s2, p, left),
         NEW m, NEW n, NEW s3, Counted(s2, s3, left, m, n),
         NEW m2, NEW n2, NEW s4, Counted(s3, s4, right, m2, n2),
         NEW s5, InsertedAt(s4, s5, p + 1, right)
  PROVE  Entered(s, s5, p, left, right) /\ s5.edge[left] = s3.edge[left]
<1>0. Count(s) \in Nat /\ DOMAIN s.actives = 1 .. Count(s) /\ p \in Nat
  BY ListDomain, SMTT(30)
<1>1. Count(s1) = Count(s) /\ Count(s4) = Count(s) + 1 /\ Count(s5) = Count(s) + 2
  <2>1. Count(s1) = Count(s)
    BY DEF Count
  <2>2. Count(s2) = Count(s) + 1
    BY <2>1 DEF InsertedAt
  <2>3. Count(s4) = Count(s2)
    BY DEF Counted, Count
  <2> QED BY <1>0, <2>1, <2>2, <2>3 DEF InsertedAt
<1>2. StateType(s5) /\ IsInjective(s5.actives) /\ s.fillrule = s5.fillrule
  BY DEF InsertedAt, Counted
<1>3. \A x \in Edge \ {left, right} : s.edge[x] = s5.edge[x]
  BY DEF InsertedAt, Counted
<1>4. \A k \in 1 .. p - 1 : s.actives[k] = s5.actives[k]
  <2> TAKE k \in 1 .. p - 1
  <2>1. k \in 1 .. (p + 1) - 1
    BY <1>0
  <2> QED BY <2>1 DEF InsertedAt, Counted
<1>5. \A k \in p .. Count(s) : s.actives[k] = s5.actives[k + 2]
  <2> TAKE k \in p .. Count(s)
  <2>1. k + 1 \in p + 1 .. Count(s4) /\ (k + 1) + 1 = k + 2 /\ k \in p .. Count(s1)
    BY <1>0, <1>1
  <2>2. s5.actives[k + 2] = s4.actives[k + 1]
    <3>1. s5.actives[(k + 1) + 1] = s4.actives[k + 1]
      BY <2>1 DEF InsertedAt
    <3> QED BY <2>1, <3>1
  <2>3. s2.actives[k + 1] = s.actives[k]
    BY <2>1 DEF InsertedAt
  <2> QED BY <2>2, <2>3 DEF Counted
<1>6. s5.actives[p] = left /\ s5.actives[p + 1] = right
  <2>1. p \in 1 .. (p + 1) - 1
    BY <1>0
  <2> QED BY <2>1 DEF InsertedAt, Counted
<1>7. /\ s5.edge[left] = s3.edge[left]
      /\ s5.edge[left].polytype = s1.edge[left].polytype
      /\ s5.edge[left].wind_dx = s1.edge[left].wind_dx
  BY DEF InsertedAt, Counted
<1>8. /\ s5.edge[right].polytype = s1.edge[right].polytype
      /\ s5.edge[right].wind_dx = s1.edge[right].wind_dx
  <2>1. s3.edge[right] = s1.edge[right]
    BY DEF InsertedAt, Counted
  <2> QED BY <2>1 DEF InsertedAt, Counted
<1>9. MaximaPair(s5, left, right)
  BY <1>7, <1>8 DEF MaximaPair, SamePolyType
<1>10. PairGone(s5, s, p, left, right)
  <2>1. Count(s) = Count(s5) - 2
    BY <1>0, <1>1
  <2> QED BY <1>2, <1>3, <1>4, <1>5, <2>1 DEF PairGone
<1> QED BY <1>2, <1>6, <1>7, <1>9, <1>10 DEF Entered

\* The two fresh bounds stand cold in the list, between no joined neighbours.
Fresh(s, u, p, left, right) ==
  /\ Entered(s, u, p, left, right) /\ u.cliptype = s.cliptype
  /\ SameDrawing(s, u) /\ HorizontalsFree(u)
  /\ ~IsHot(u, left) /\ ~IsHot(u, right) /\ ~IsJoined(u, left) /\ ~IsJoined(u, right)
  /\ JoinAt(s, p - 1) # "Right"

LEMMA FreshLists ==
  ASSUME NEW s, Sound(s), NEW left \in Edge, NEW right \in Edge, left # right,
         NEW p \in 1 .. Count(s) + 1, NEW u, Fresh(s, u, p, left, right)
  PROVE  /\ Count(s) \in Nat /\ p \in Nat /\ StateType(u) /\ IsInjective(u.actives)
         /\ Count(u) = Count(s) + 2 /\ p \in 1 .. Count(u) - 1
         /\ u.actives[p] = left /\ u.actives[p + 1] = right
         /\ \A k \in 1 .. p - 1 : u.actives[k] = s.actives[k] /\ s.actives[k] \in Edge \ {left, right}
         /\ \A k \in p .. Count(s) :
              u.actives[k + 2] = s.actives[k] /\ s.actives[k] \in Edge \ {left, right}
         /\ \A x \in Edge \ {left, right} : u.edge[x] = s.edge[x]
<1>1. Entered(s, u, p, left, right) /\ StateType(s) /\ IsInjective(s.actives)
  BY DEF Fresh, Sound
<1>2. PairGone(u, s, p, left, right) /\ StateType(u) /\ IsInjective(u.actives)
      /\ u.actives[p] = left /\ u.actives[p + 1] = right
  BY <1>1 DEF Entered
<1>3. Count(s) \in Nat /\ Count(u) \in Nat /\ Count(s) = Count(u) - 2
  BY <1>1, <1>2, ListDomain DEF PairGone
<1>4. p \in Nat /\ Count(u) = Count(s) + 2 /\ p \in 1 .. Count(u) - 1
  BY <1>3
<1>5. \A k \in (1 .. Count(u)) \ {p, p + 1} : u.actives[k] \in Edge \ {left, right}
  BY <1>2, <1>4, TwoNeighbours
<1>6. \A k \in 1 .. p - 1 : u.actives[k] = s.actives[k] /\ s.actives[k] \in Edge \ {left, right}
  <2> TAKE k \in 1 .. p - 1
  <2>1. k \in (1 .. Count(u)) \ {p, p + 1}
    BY <1>3, <1>4
  <2>2. s.actives[k] = u.actives[k]
    BY <1>2 DEF PairGone
  <2> QED BY <1>5, <2>1, <2>2
<1>7. \A k \in p .. Count(s) : u.actives[k + 2] = s.actives[k] /\ s.actives[k] \in Edge \ {left, right}
  <2> TAKE k \in p .. Count(s)
  <2>1. k + 2 \in (1 .. Count(u)) \ {p, p + 1}
    BY <1>3, <1>4
  <2>2. s.actives[k] = u.actives[k + 2]
    BY <1>2 DEF PairGone
  <2> QED BY <1>5, <2>1, <2>2
<1>8. \A x \in Edge \ {left, right} : u.edge[x] = s.edge[x]
  BY <1>2 DEF PairGone
<1> QED BY <1>2, <1>3, <1>4, <1>6, <1>7, <1>8

LEMMA FreshRegions ==
  ASSUME NEW s, Sound(s), NEW left \in Edge, NEW right \in Edge, left # right,
         NEW p \in 1 .. Count(s) + 1, NEW u, Fresh(s, u, p, left, right)
  PROVE  /\ InResult(u, p + 1) <=> InResult(u, p - 1)
         /\ \A k \in 0 .. p - 1 : InResult(u, k) <=> InResult(s, k)
         /\ \A k \in p - 1 .. Count(s) : InResult(u, k + 2) <=> InResult(s, k)
<1>1. /\ StateType(u) /\ IsInjective(u.actives) /\ p \in 1 .. Count(u) - 1
      /\ u.actives[p] = left /\ u.actives[p + 1] = right
  BY FreshLists
<1>2. PairGone(u, s, p, left, right) /\ MaximaPair(u, left, right) /\ u.cliptype = s.cliptype
  BY DEF Fresh, Entered
<1>3. /\ InResult(u, p + 1) <=> InResult(u, p - 1)
      /\ \A k \in 0 .. p - 1 : InResult(s, k) <=> InResult(u, k)
      /\ \A k \in p - 1 .. Count(s) : InResult(s, k) <=> InResult(u, k + 2)
  BY <1>1, <1>2, RegionsGone
<1> QED BY <1>3

LEMMA FreshKeeps ==
  ASSUME NEW s, Sound(s), NEW left \in Edge, NEW right \in Edge, left # right,
         NEW p \in 1 .. Count(s) + 1, NEW u, Fresh(s, u, p, left, right)
  PROVE  /\ Coupled(u) /\ RecordsStay(s, u) /\ \A x \in Edge : SameSide(s, u, x)
         /\ left \in Active(u) /\ right \in Active(u)
<1>1. StateType(s) /\ Coupled(s)
  BY DEF Sound
<1>2. /\ Count(s) \in Nat /\ p \in Nat /\ StateType(u) /\ Count(u) = Count(s) + 2
      /\ u.actives[p] = left /\ u.actives[p + 1] = right
      /\ \A k \in 1 .. p - 1 : u.actives[k] = s.actives[k]
      /\ \A k \in p .. Count(s) : u.actives[k + 2] = s.actives[k]
  BY FreshLists
<1>3. DOMAIN s.actives = 1 .. Count(s) /\ DOMAIN u.actives = 1 .. Count(u)
  BY <1>1, <1>2, ListDomain
<1>4. ASSUME NEW x \in Edge, IsHot(s, x) PROVE x \in Active(u)
  <2>1. PICK k \in 1 .. Count(s) : s.actives[k] = x
    BY <1>1, <1>3, <1>4 DEF Coupled, HoldsSide, Active, Range
  <2>2. CASE k < p
    <3>1. k \in 1 .. p - 1 /\ k \in 1 .. Count(u)
      BY <1>2, <2>2
    <3> QED BY <1>2, <1>3, <2>1, <3>1 DEF Active, Range
  <2>3. CASE k >= p
    <3>1. k \in p .. Count(s) /\ k + 2 \in 1 .. Count(u)
      BY <1>2, <2>3
    <3> QED BY <1>2, <1>3, <2>1, <3>1 DEF Active, Range
  <2> QED BY <1>2, <2>1, <2>2, <2>3
<1>5. Coupled(u) /\ RecordsStay(s, u) /\ \A x \in Edge : SameSide(s, u, x)
  <2>1. SameDrawing(s, u)
    BY DEF Fresh
  <2> QED BY <1>1, <1>4, <2>1, DrawingCarries
<1>6. left \in Active(u) /\ right \in Active(u)
  <2>1. p \in 1 .. Count(u) /\ p + 1 \in 1 .. Count(u)
    BY <1>2
  <2> QED BY <1>2, <1>3, <2>1 DEF Active, Range
<1> QED BY <1>5, <1>6

\* What the records of the fresh bounds leave of the other edges.
LEMMA FreshWith ==
  ASSUME NEW s, Sound(s), NEW left \in Edge, NEW right \in Edge, left # right,
         NEW p \in 1 .. Count(s) + 1, NEW u, Fresh(s, u, p, left, right),
         NEW w, Redrawn(u, w, {left, right})
  PROVE  With(s, w, p) /\ JoinAt(w, p) = "NoJoin" /\ JoinAt(w, p + 1) = "NoJoin"
<1>1. /\ Count(s) \in Nat /\ p \in Nat /\ StateType(u)
      /\ Count(u) = Count(s) + 2 /\ p \in 1 .. Count(u) - 1
      /\ u.actives[p] = left /\ u.actives[p + 1] = right
      /\ \A k \in 1 .. p - 1 : u.actives[k] = s.actives[k] /\ s.actives[k] \in Edge \ {left, right}
      /\ \A k \in p .. Count(s) :
           u.actives[k + 2] = s.actives[k] /\ s.actives[k] \in Edge \ {left, right}
      /\ \A x \in Edge \ {left, right} : u.edge[x] = s.edge[x]
  BY FreshLists
<1>2. /\ StateType(w) /\ SameStage(u, w)
      /\ \A x \in Edge : /\ w.edge[x].join_with = u.edge[x].join_with
                         /\ x \notin {left, right} => SameSide(u, w, x)
  BY RedrawnKeeps
<1>3. w.actives = u.actives /\ Count(w) = Count(u)
      /\ \A k \in 0 .. Count(u) : InResult(w, k) <=> InResult(u, k)
  BY <1>1, <1>2, SameResult DEF SameStage
<1>4. \A x \in Edge \ {left, right} : SameSide(s, w, x) /\ w.edge[x].join_with = s.edge[x].join_with
  BY <1>1, <1>2, FreshKeeps DEF SameSide
<1>5. /\ \A k \in 0 .. p - 1 : InResult(w, k) <=> InResult(s, k)
      /\ \A k \in p - 1 .. Count(s) : InResult(w, k + 2) <=> InResult(s, k)
  <2>1. \A k \in 0 .. p - 1 : k \in 0 .. Count(u)
    BY <1>1
  <2>2. \A k \in p - 1 .. Count(s) : k + 2 \in 0 .. Count(u)
    BY <1>1
  <2> QED BY <1>3, <2>1, <2>2, FreshRegions
<1>6. \A k \in 1 .. p - 1 : Alike(s, k, w, k)
  <2> TAKE k \in 1 .. p - 1
  <2>1. k \in 1 .. Count(s) /\ k \in 1 .. Count(w)
    BY <1>1, <1>3
  <2>2. w.actives[k] = s.actives[k] /\ s.actives[k] \in Edge \ {left, right}
    BY <1>1, <1>3
  <2>3. JoinAt(w, k) = JoinAt(s, k)
    BY <1>4, <2>1, <2>2 DEF JoinAt
  <2> QED BY <1>4, <2>2, <2>3 DEF Alike, SameSide
<1>7. \A k \in p .. Count(s) : Alike(s, k, w, k + 2)
  <2> TAKE k \in p .. Count(s)
  <2>1. k \in 1 .. Count(s) /\ k + 2 \in 1 .. Count(w)
    BY <1>1, <1>3
  <2>2. w.actives[k + 2] = s.actives[k] /\ s.actives[k] \in Edge \ {left, right}
    BY <1>1, <1>3
  <2>3. JoinAt(w, k + 2) = JoinAt(s, k)
    BY <1>4, <2>1, <2>2 DEF JoinAt
  <2> QED BY <1>4, <2>2, <2>3 DEF Alike, SameSide
<1>8. JoinAt(w, p) = "NoJoin" /\ JoinAt(w, p + 1) = "NoJoin"
  <2>1. p \in 1 .. Count(w) /\ p + 1 \in 1 .. Count(w)
    BY <1>1, <1>3
  <2>2. u.edge[left].join_with = "NoJoin" /\ u.edge[right].join_with = "NoJoin"
    BY DEF Fresh, IsJoined
  <2> QED BY <1>1, <1>2, <1>3, <2>1, <2>2 DEF JoinAt
<1>9. Count(w) = Count(s) + 2
  BY <1>1, <1>3
<1> QED BY <1>5, <1>6, <1>7, <1>8, <1>9 DEF With

LEMMA FreshSound ==
  ASSUME NEW s, Sound(s), NEW left \in Edge, NEW right \in Edge, left # right,
         NEW p \in 1 .. Count(s) + 1, NEW u, Fresh(s, u, p, left, right),
         NEW w, Redrawn(u, w, {left, right}), DrawnAt(w, p), DrawnAt(w, p + 1)
  PROVE  Gone(s, w)
<1>1. StateType(s) /\ s.succeeded /\ DrawnUpTo(s, Count(s))
  BY DEF Sound
<1>2. StateType(u) /\ IsInjective(u.actives)
  BY FreshLists
<1>3. /\ StateType(w) /\ SameStage(u, w) /\ w.succeeded = u.succeeded /\ Coupled(w) /\ RecordsStay(u, w)
      /\ \A x \in Edge : /\ w.edge[x].join_with = u.edge[x].join_with
                         /\ w.edge[x].horizontal = u.edge[x].horizontal
  BY RedrawnKeeps
<1>4. With(s, w, p) /\ JoinAt(w, p) = "NoJoin" /\ JoinAt(w, p + 1) = "NoJoin"
  BY FreshWith
<1>5. HorizontalsFree(u) /\ SameDrawing(s, u) /\ JoinAt(s, p - 1) # "Right"
  BY DEF Fresh
<1>6. DrawnUpTo(w, Count(w))
  BY <1>1, <1>3, <1>4, <1>5, PutIn
<1>7. HorizontalsFree(w)
  BY <1>3, <1>5 DEF HorizontalsFree, IsJoined
<1>8. w.succeeded
  BY <1>1, <1>3, <1>5 DEF SameDrawing
<1>9. RecordsStay(s, w)
  <2>1. RecordsStay(s, u)
    BY FreshKeeps
  <2> QED BY <1>1, <1>2, <1>3, <2>1, StaysTransitive
<1>10. IsInjective(w.actives)
  BY <1>2, <1>3 DEF SameStage
<1> QED BY <1>3, <1>6, <1>7, <1>8, <1>9, <1>10 DEF Gone, Sound

\* The list left of the fresh bounds is drawn.
LEMMA FreshBefore ==
  ASSUME NEW s, Sound(s), NEW left \in Edge, NEW right \in Edge, left # right,
         NEW p \in 1 .. Count(s) + 1, NEW u, Fresh(s, u, p, left, right)
  PROVE  DrawnUpTo(u, p - 1) /\ JoinAt(u, p - 1) # "Right"
<1>1. StateType(s) /\ DrawnUpTo(s, Count(s))
  BY DEF Sound
<1>2. Count(s) \in Nat /\ p \in Nat /\ StateType(u) /\ Count(u) = Count(s) + 2
  BY FreshLists
<1>3. Redrawn(u, u, {left, right})
  BY <1>2, FreshKeeps, RedrawnReflexive
<1>4. With(s, u, p) /\ JoinAt(u, p) = "NoJoin"
  BY <1>3, FreshWith
<1>5. JoinAt(s, p - 1) # "Right"
  BY DEF Fresh
<1>6. ASSUME NEW k \in 1 .. p - 1 PROVE DrawnAt(u, k) /\ PairedAt(u, k)
  <2>1. k \in 1 .. Count(s) /\ k \in 1 .. Count(u) /\ k - 1 \in 0 .. p - 1 /\ k \in 0 .. p - 1
    BY <1>2
  <2>2. DrawnAt(s, k) /\ PairedAt(s, k)
    BY <1>1, <2>1 DEF DrawnUpTo
  <2>3. Alike(s, k, u, k)
    BY <1>4 DEF With
  <2>4. (InResult(u, k - 1) <=> InResult(s, k - 1)) /\ (InResult(u, k) <=> InResult(s, k))
    BY <1>4, <2>1 DEF With
  <2>5. JoinAt(u, k + 1) = "Left" <=> JoinAt(s, k + 1) = "Left"
    <3>1. CASE k = p - 1
      <4>1. k + 1 = p
        BY <1>2, <3>1
      <4>2. JoinAt(s, k + 1) # "Left"
        BY <1>5, <2>2, <3>1 DEF PairedAt
      <4> QED BY <1>4, <4>1, <4>2
    <3>2. CASE k # p - 1
      <4>1. k + 1 \in 1 .. p - 1
        BY <1>2, <3>2
      <4>2. Alike(s, k + 1, u, k + 1)
        BY <1>4, <4>1 DEF With
      <4> QED BY <4>2 DEF Alike
    <3> QED BY <3>1, <3>2
  <2>6. JoinAt(s, k) = "Left" => k > 1
    BY <2>2 DEF PairedAt
  <2> QED BY <1>1, <1>2, <2>1, <2>2, <2>3, <2>4, <2>5, <2>6, DrawnAlike, PairedAlike
<1>7. JoinAt(u, p - 1) # "Right"
  <2>1. CASE p = 1
    BY <1>2, <2>1, JoinType
  <2>2. CASE p # 1
    <3>1. p - 1 \in 1 .. p - 1
      BY <1>2, <2>2
    <3>2. Alike(s, p - 1, u, p - 1)
      BY <1>4, <3>1 DEF With
    <3> QED BY <1>5, <3>2 DEF Alike
  <2> QED BY <2>1, <2>2
<1> QED BY <1>6, <1>7 DEF DrawnUpTo

LEMMA FreshCold ==
  ASSUME NEW s, Sound(s), NEW left \in Edge, NEW right \in Edge, left # right,
         NEW p \in 1 .. Count(s) + 1, NEW u, Fresh(s, u, p, left, right),
         InResult(u, p - 1) <=> InResult(u, p)
  PROVE  Gone(s, u)
<1>1. /\ StateType(u) /\ u.actives[p] = left /\ u.actives[p + 1] = right /\ p \in Nat
  BY FreshLists
<1>2. Redrawn(u, u, {left, right})
  BY <1>1, FreshKeeps, RedrawnReflexive
<1>3. InResult(u, p + 1) <=> InResult(u, p - 1)
  BY FreshRegions
<1>4. ~IsHot(u, left) /\ ~IsHot(u, right) /\ ~IsJoined(u, left) /\ ~IsJoined(u, right)
  BY DEF Fresh
<1>5. DrawnAt(u, p)
  BY <1>1, <1>4 DEF DrawnAt
<1>6. DrawnAt(u, p + 1)
  <2>1. (p + 1) - 1 = p
    BY <1>1
  <2>2. InResult(u, p) <=> InResult(u, p + 1)
    BY <1>3
  <2> QED BY <1>1, <1>4, <2>1, <2>2 DEF DrawnAt
<1> QED BY <1>2, <1>5, <1>6, FreshSound

LEMMA FreshOpens ==
  ASSUME NEW s, Sound(s), NEW left \in Edge, NEW right \in Edge, left # right,
         NEW p \in 1 .. Count(s) + 1, NEW u, Fresh(s, u, p, left, right),
         ~(InResult(u, p - 1) <=> InResult(u, p))
  PROVE  Gone(s, AddLocalMinPolygon(u, left, right, TRUE))
<1> DEFINE w == AddLocalMinPolygon(u, left, right, TRUE)
<1>1. /\ StateType(u) /\ IsInjective(u.actives) /\ p \in Nat /\ Count(u) \in Nat
      /\ p \in 1 .. Count(u) - 1 /\ u.actives[p] = left /\ u.actives[p + 1] = right
  BY FreshLists, ListDomain
<1>2. Coupled(u) /\ left \in Active(u) /\ right \in Active(u)
  BY FreshKeeps
<1>3. ~IsHot(u, left) /\ ~IsHot(u, right) /\ ~IsJoined(u, left) /\ ~IsJoined(u, right)
  BY DEF Fresh
<1>4. PICK F \in BOOLEAN : F = OpensInFront(u, left, right, TRUE)
  BY DEF OpensInFront, IsFront
<1>5. F <=> ~InResult(u, p - 1)
  <2>1. p \in 1 .. Count(u) /\ p + 1 \in 1 .. Count(u) /\ p + 1 > p /\ TRUE \in BOOLEAN
    BY <1>1
  <2>2. OpensInFront(u, u.actives[p], u.actives[p + 1], TRUE) <=> ~(InResult(u, p - 1) <=> TRUE)
    BY <1>1, <2>1, FreshBefore, OpensWithTheResult
  <2> QED BY <1>1, <1>4, <2>2
<1>6. Opened(u, w, left, right, F)
  <2>1. LeftOf(u, left, right)
    BY <1>1, TwoNeighbours
  <2> QED BY <1>1, <1>4, <2>1, MinimumOpens
<1> HIDE DEF w
<1>7. /\ Redrawn(u, w, {left, right}) /\ IsHot(w, left) /\ IsHot(w, right)
      /\ IsFront(w, left) <=> F
      /\ IsFront(w, right) <=> ~F
  BY <1>1, <1>2, <1>3, <1>6, MinimumDraws
<1>8. StateType(w) /\ SameStage(u, w)
  BY <1>7, RedrawnKeeps
<1>9. w.actives = u.actives /\ \A k \in 0 .. Count(u) : InResult(w, k) <=> InResult(u, k)
  BY <1>1, <1>8, SameResult DEF SameStage
<1>10. /\ InResult(w, p - 1) <=> InResult(u, p - 1)
       /\ InResult(w, p) <=> InResult(u, p)
       /\ InResult(w, p + 1) <=> InResult(u, p + 1)
  <2>1. p - 1 \in 0 .. Count(u) /\ p \in 0 .. Count(u) /\ p + 1 \in 0 .. Count(u)
    BY <1>1
  <2> QED BY <1>9, <2>1
<1>11. InResult(u, p + 1) <=> InResult(u, p - 1)
  BY FreshRegions
<1>12. DrawnAt(w, p)
  BY <1>1, <1>5, <1>7, <1>9, <1>10 DEF DrawnAt
<1>13. DrawnAt(w, p + 1)
  <2>1. (p + 1) - 1 = p
    BY <1>1
  <2> QED BY <1>1, <1>5, <1>7, <1>9, <1>10, <1>11, <2>1 DEF DrawnAt
<1>14. Gone(s, w)
  BY <1>7, <1>12, <1>13, FreshSound
<1> QED BY <1>14 DEF w

LEMMA FreshMinimum ==
  ASSUME NEW s, Sound(s), NEW left \in Edge, NEW right \in Edge, left # right,
         NEW p \in 1 .. Count(s) + 1, NEW u, Fresh(s, u, p, left, right), Matches(u), NEW collinear
  PROVE  /\ ~IsContributing(u, left) => Gone(s, u)
         /\ IsContributing(u, left) =>
              Gone(s, CheckJoinLeft(AddLocalMinPolygon(u, left, right, TRUE), left, collinear))
<1>1. /\ StateType(u) /\ p \in Nat /\ Count(u) \in Nat
      /\ p \in 1 .. Count(u) - 1 /\ u.actives[p] = left
  BY FreshLists, ListDomain
<1>2. IsContributing(u, left) <=> ~(InResult(u, p - 1) <=> InResult(u, p))
  <2>1. p \in 1 .. Count(u)
    BY <1>1
  <2> QED BY <1>1, <2>1, ContributingTells
<1>3. ASSUME ~IsContributing(u, left) PROVE Gone(s, u)
  BY <1>2, <1>3, FreshCold
<1>4. ASSUME IsContributing(u, left)
      PROVE  Gone(s, CheckJoinLeft(AddLocalMinPolygon(u, left, right, TRUE), left, collinear))
  <2> DEFINE w == AddLocalMinPolygon(u, left, right, TRUE)
             v == CheckJoinLeft(w, left, collinear)
  <2>1. Gone(s, w)
    BY <1>2, <1>4, FreshOpens
  <2>2. left \in Active(w)
    <3>1. SameWinding(u, w)
      BY <1>1, TypedIsShaped, AddLocalMinKeepsCounts
    <3>2. left \in Active(u)
      BY FreshKeeps
    <3> HIDE DEF w
    <3> QED BY <3>1, <3>2 DEF SameWinding, Active
  <2> HIDE DEF w
  <2>3. JoinChecked(w, v)
    BY <2>1, <2>2, JoinsAreChecked DEF Gone
  <2> HIDE DEF v
  <2>4. Gone(s, v)
    BY <2>1, <2>3, StaysTransitive DEF Gone, JoinChecked, Sound
  <2> QED BY <2>4 DEF v, w
<1> QED BY <1>3, <1>4

\* insert_left_edge never parts two joined neighbours.
LEMMA InsertedUnjoined ==
  ASSUME NEW s, Sound(s), NEW left \in Edge, NEW right \in Edge,
         left \notin Active(s), right \notin Active(s), NEW after \in 0 .. Count(s),
         NEW s1, s1.actives = s.actives, \A x \in Edge \ {left, right} : s1.edge[x] = s.edge[x]
  PROVE  JoinAt(s, InsertionPoint(s1, after) - 1) # "Right"
<1>1. StateType(s) /\ DrawnUpTo(s, Count(s))
  BY DEF Sound
<1>2. Count(s) \in Nat /\ DOMAIN s.actives = 1 .. Count(s) /\ Count(s1) = Count(s)
  BY <1>1, ListDomain DEF Count
<1>3. CASE after = 0
  <2>1. InsertionPoint(s1, after) - 1 = 0
    BY <1>3 DEF InsertionPoint
  <2> QED BY <1>1, <2>1, JoinType
<1>4. CASE after # 0
  <2>1. after \in 1 .. Count(s)
    BY <1>2, <1>4
  <2>2. s.actives[after] \in Active(s) /\ s.actives[after] \in Edge
    BY <1>1, <1>2, <2>1, EdgeOfPosition DEF Active, Range
  <2>3. At(s1, after) = s.actives[after]
    BY <1>2, <2>1 DEF At
  <2>4. s1.edge[At(s1, after)].join_with = JoinAt(s, after)
    BY <2>1, <2>2, <2>3 DEF JoinAt
  <2>5. CASE JoinAt(s, after) = "Right"
    <3>1. InsertionPoint(s1, after) - 1 = after + 1
      BY <1>2, <2>1, <2>4, <2>5 DEF InsertionPoint
    <3>2. PairedAt(s, after)
      BY <1>1, <2>1 DEF DrawnUpTo
    <3>3. JoinAt(s, after + 1) = "Left"
      BY <2>5, <3>2 DEF PairedAt
    <3> QED BY <3>1, <3>3
  <2>6. CASE JoinAt(s, after) # "Right"
    <3>1. InsertionPoint(s1, after) - 1 = after
      BY <1>2, <2>1, <2>4, <2>6 DEF InsertionPoint
    <3> QED BY <2>6, <3>1
  <2> QED BY <2>5, <2>6
<1> QED BY <1>3, <1>4

LEMMA MinimumEnters ==
  ASSUME NEW s, Sound(s), Matches(s),
         NEW left \in Edge, NEW right \in Edge, left # right,
         left \notin Active(s), right \notin Active(s), NEW collinear,
         NEW after \in 0 .. Count(s), InsertionPoint(s, after) <= Count(s) + 1,
         NEW l \in EdgeType, NEW r \in EdgeType,
         l.outrec = NoRecord, r.outrec = NoRecord,
         l.join_with = "NoJoin", r.join_with = "NoJoin",
         r.polytype = l.polytype, r.wind_dx = -l.wind_dx
  PROVE  Gone(s, InsertMinimum(s, left, right, l, r, after, collinear))
<1> DEFINE s1 == [s EXCEPT !.edge[left] = l, !.edge[right] = r]
           p == InsertionPoint(s1, after)
           s2 == InsertLeftEdge(s1, left, after)
           m == ClosedWindingCount(s2, left, PreviousOfType(s2, left))
           w == ClosedOppositeCount(s2, left, PreviousOfType(s2, left))
           s3 == SetWindCountForClosedPathEdge(s2, left)
           s4 == [s3 EXCEPT !.edge[right].winding_count = s3.edge[left].winding_count,
                            !.edge[right].wind_cnt2 = s3.edge[left].wind_cnt2]
           s5 == InsertRightEdge(s4, left, right)
           s6 == CheckJoinLeft(AddLocalMinPolygon(s5, left, right, TRUE), left, collinear)
<1>0. StateType(s) /\ IsInjective(s.actives) /\ Coupled(s) /\ HorizontalsFree(s)
  BY DEF Sound
<1>1. /\ StateType(s1) /\ p \in 1 .. Count(s) + 1
      /\ InsertedAt(s1, s2, p, left)
      /\ Counted(s2, s3, left, m, w)
      /\ Counted(s3, s4, right, s3.edge[left].winding_count, s3.edge[left].wind_cnt2)
      /\ InsertedAt(s4, s5, p + 1, right)
      /\ Matches(s5)
  BY <1>0, MinimumSteps
<1>2. /\ s1.actives = s.actives /\ s1.fillrule = s.fillrule /\ s1.cliptype = s.cliptype
      /\ s1.front = s.front /\ s1.back = s.back /\ s1.has_points = s.has_points
      /\ s1.succeeded = s.succeeded /\ s1.owner = s.owner
      /\ \A x \in Edge \ {left, right} : s1.edge[x] = s.edge[x]
      /\ s1.edge[left] = l /\ s1.edge[right] = r
  BY <1>0 DEF StateType
<1>3. /\ s2 = [s1 EXCEPT !.actives = InsertAt(@, p, left)]
      /\ s3 = [s2 EXCEPT !.edge[left].winding_count = m, !.edge[left].wind_cnt2 = w]
      /\ s5 = [s4 EXCEPT !.actives = InsertAt(@, PositionOf(s4, left) + 1, right)]
  BY DEF InsertLeftEdge, SetWindCountForClosedPathEdge, InsertRightEdge
<1>4. s4 = [s3 EXCEPT !.edge[right].winding_count = s3.edge[left].winding_count,
                      !.edge[right].wind_cnt2 = s3.edge[left].wind_cnt2]
  OBVIOUS
<1>5. InsertMinimum(s, left, right, l, r, after, collinear)
        = IF IsContributing(s3, left) THEN s6 ELSE s5
  BY DEF InsertMinimum, InsertBounds
<1>6. JoinAt(s, p - 1) # "Right"
  <2> HIDE DEF s1
  <2> QED BY <1>2, InsertedUnjoined
<1> HIDE DEF s1, p, s2, m, w, s3, s4, s5
<1>7. StateType(s2) /\ StateType(s3) /\ StateType(s4) /\ StateType(s5)
  BY <1>1 DEF InsertedAt, Counted
<1>8. Entered(s, s5, p, left, right) /\ s5.edge[left] = s3.edge[left]
  <2>1. l.wind_dx \in {-1, 1}
    BY DEF EdgeType
  <2>2. /\ s1.edge[right].polytype = s1.edge[left].polytype
        /\ s1.edge[right].wind_dx = -s1.edge[left].wind_dx
        /\ s1.edge[left].wind_dx \in {-1, 1}
    BY <1>2, <2>1
  <2> QED BY <1>0, <1>1, <1>2, <2>2, PairEntered, SMTT(30)
<1>9. Carries(s1, s5) /\ Carries(s3, s5)
  <2>1. Carries(s1, s2)
    BY <1>1, <1>3, ListCarries
  <2>2. m \in Int /\ w \in Int
    <3>1. s3.edge[left].winding_count \in Int /\ s3.edge[left].wind_cnt2 \in Int
      BY <1>7, CountsAreIntegers
    <3> QED BY <1>1, <3>1 DEF Counted
  <2>3. Carries(s2, s3)
    BY <1>3, <1>7, <2>2, CountsCarry
  <2>4. Carries(s3, s4)
    <3>1. s3.edge[left].winding_count \in Int /\ s3.edge[left].wind_cnt2 \in Int
      BY <1>7, CountsAreIntegers
    <3> QED BY <1>4, <1>7, <3>1, CountsCarry
  <2>5. Carries(s4, s5)
    BY <1>3, <1>7, ListCarries
  <2> QED BY <2>1, <2>3, <2>4, <2>5, CarriesTransitive
<1>10. /\ s5.cliptype = s.cliptype /\ s5.fillrule = s.fillrule /\ s5.succeeded = s.succeeded
       /\ TablesKept(s, s5) /\ s5.owner = s.owner
       /\ \A x \in Edge : /\ s5.edge[x].outrec = s1.edge[x].outrec
                          /\ s5.edge[x].join_with = s1.edge[x].join_with
                          /\ s5.edge[x].horizontal = s1.edge[x].horizontal
  BY <1>2, <1>9 DEF Carries, SameDrawing, TablesKept, SameOutrecs
<1>11. ~IsHot(s, left) /\ ~IsHot(s, right)
  BY <1>0 DEF Coupled, HoldsSide
<1>12. SameDrawing(s, s5)
  <2>1. ASSUME NEW x \in Edge PROVE s5.edge[x].outrec = s.edge[x].outrec
    <3>1. CASE x \in {left, right}
      BY <1>2, <1>10, <1>11, <3>1 DEF IsHot
    <3>2. CASE x \notin {left, right}
      BY <1>2, <1>10, <3>2
    <3> QED BY <3>1, <3>2
  <2> QED BY <1>10, <2>1 DEF SameDrawing, SameOutrecs
<1>13. ~IsHot(s5, left) /\ ~IsHot(s5, right) /\ ~IsJoined(s5, left) /\ ~IsJoined(s5, right)
  BY <1>2, <1>10 DEF IsHot, IsJoined
<1>14. HorizontalsFree(s5)
  <2> SUFFICES ASSUME NEW x \in Edge, s5.edge[x].horizontal PROVE ~IsJoined(s5, x)
    BY DEF HorizontalsFree
  <2>1. CASE x \in {left, right}
    BY <1>13, <2>1
  <2>2. CASE x \notin {left, right}
    BY <1>0, <1>2, <1>10, <2>2 DEF HorizontalsFree, IsJoined
  <2> QED BY <2>1, <2>2
<1>15. Fresh(s, s5, p, left, right)
  BY <1>6, <1>8, <1>10, <1>12, <1>13, <1>14 DEF Fresh
<1>16. IsContributing(s3, left) = IsContributing(s5, left)
  <2>1. s3.cliptype = s5.cliptype /\ s3.fillrule = s5.fillrule
    BY <1>9 DEF Carries
  <2> QED BY <1>8, <2>1 DEF IsContributing
<1>17. /\ ~IsContributing(s5, left) => Gone(s, s5)
       /\ IsContributing(s5, left) => Gone(s, s6)
  BY <1>1, <1>15, FreshMinimum
<1> HIDE DEF s6
<1> QED BY <1>5, <1>16, <1>17

-----------------------------------------------------------------------------
(* The inductive invariant of the output and its preservation, action by   *)
(* action.  The handlers rely on what they did first: the bounds of a      *)
(* maximum were split, and an edge that runs horizontally is never joined. *)

TaskSound(s, t) ==
  /\ t.kind = "maxima" => ~IsJoined(s, t.edge) /\ ~IsJoined(s, t.pair)
  /\ t.kind = "horizontal" => s.edge[t.edge].horizontal

SInv == Sound(state) /\ TaskSound(state, task)

\* What every step does to the output.
Kept == SInv' /\ RecordsStay(state, state')

LEMMA OutputStep ==
  ASSUME NEW s, NEW t, Step(s, t), Gone(state, s), TaskSound(s, t)
  PROVE  Kept
<1>1. state' = s /\ task' = t
  BY DEF Step
<1>2. Sound(state)'
  BY <1>1 DEF Gone
<1>3. TaskSound(state, task)'
  BY <1>1
<1>4. RecordsStay(state, state')
  BY <1>1 DEF Gone
<1> QED BY <1>2, <1>3, <1>4 DEF Kept, SInv

LEMMA FreeTask ==
  ASSUME NEW s, NEW t, t.kind \notin {"maxima", "horizontal"}
  PROVE  TaskSound(s, t)
  BY DEF TaskSound

LEMMA IdleIsFree ==
  ASSUME NEW s
  PROVE  TaskSound(s, Idle)
  BY DEF TaskSound, Idle

LEMMA OutputFacts ==
  ASSUME WInv, SInv
  PROVE  /\ Sound(state) /\ StateType(state) /\ Matches(state) /\ TaskSound(state, task)
         /\ IsInjective(state.actives) /\ Intact(state, task) /\ HorizontalsFree(state)
         /\ Count(state) \in Nat /\ DOMAIN state.actives = 1 .. Count(state)
         /\ \A i \in 1 .. Count(state) : At(state, i) = state.actives[i]
  BY WInvFacts, InvFacts DEF SInv, Sound

LEMMA GoneReflexive ==
  ASSUME NEW s, Sound(s)
  PROVE  Gone(s, s)
  BY ReleasedReflexive DEF Gone, Sound

LEMMA GoneTransitive ==
  ASSUME NEW s, NEW t, NEW u, Sound(s), Gone(s, t), Gone(t, u)
  PROVE  Gone(s, u)
  BY StaysTransitive DEF Gone, Sound

\* The neighbours that crossed are in the list still.
LEMMA CrossedEdges ==
  ASSUME WInv, SInv, NEW i \in 1 .. Count(state) - 1
  PROVE  LET d == state.actives[i]
             e == state.actives[i + 1]
             t == Cross(state, d, e)
         IN  Passed(state, t) /\ Gone(state, t) /\ d \in Active(t) /\ e \in Active(t)
<1> DEFINE d == state.actives[i]
           e == state.actives[i + 1]
           t == Cross(state, d, e)
<1>1. i \in DOMAIN state.actives /\ i + 1 \in DOMAIN state.actives
  BY OutputFacts
<1>2. Passed(state, t)
  BY OutputFacts, CrossPasses
<1>3. Active(t) = Active(state)
  BY <1>1, OutputFacts, CrossIntact
<1>4. d \in Active(state) /\ e \in Active(state)
  BY <1>1 DEF Active, Range
<1> HIDE DEF t, d, e
<1>5. Gone(state, t)
  BY <1>2 DEF Passed, Gone
<1> QED BY <1>2, <1>3, <1>4, <1>5 DEF t, d, e

LEMMA OutputInsert ==
  ASSUME WInv, SInv, InsertLocalMinimum
  PROVE  Kept
<1>1. PICK left, right \in Edge \ Active(state), polytype \in PathTypes, wind_dx \in {-1, 1},
           after \in 0 .. Count(state), left_horizontal, right_horizontal \in HorizontalChoice,
           collinear \in JoinChoice :
           /\ left # right
           /\ InsertionPoint(state, after) <= Count(state) + 1
           /\ Step(InsertMinimum(state, left, right, Bound(polytype, wind_dx, left_horizontal),
                                 Bound(polytype, -wind_dx, right_horizontal), after, collinear),
                   [kind |-> "bound", edge |-> right, pair |-> NoEdge])
  BY DEF InsertLocalMinimum
<1> DEFINE l == Bound(polytype, wind_dx, left_horizontal)
           r == Bound(polytype, -wind_dx, right_horizontal)
           s == InsertMinimum(state, left, right, l, r, after, collinear)
           t == [kind |-> "bound", edge |-> right, pair |-> NoEdge]
<1>2. /\ l \in EdgeType /\ l.outrec = NoRecord /\ l.join_with = "NoJoin"
      /\ r \in EdgeType /\ r.outrec = NoRecord /\ r.join_with = "NoJoin"
  BY BoundIsEdge, ActiveEdgesAssumption
<1>3. r.polytype = l.polytype /\ r.wind_dx = -l.wind_dx
  BY DEF Bound
<1>4. Gone(state, s)
  <2> HIDE DEF l, r
  <2> QED BY <1>1, <1>2, <1>3, OutputFacts, MinimumEnters
<1>5. Step(s, t)
  BY <1>1
<1>6. TaskSound(s, t)
  <2> HIDE DEF s
  <2> QED BY DEF TaskSound
<1> HIDE DEF s, t
<1> QED BY <1>4, <1>5, <1>6, OutputStep

LEMMA OutputBound ==
  ASSUME WInv, SInv, BoundCross \/ BoundDone
  PROVE  Kept
<1>1. task.edge \in Active(state) /\ task.kind = "bound"
  BY OutputFacts DEF BoundCross, BoundDone, Intact
<1>2. CASE BoundCross
  <2> DEFINE e == NextInAel(state, task.edge)
             s == Cross(state, task.edge, e)
  <2>1. PICK i \in 1 .. Count(state) - 1 : task.edge = state.actives[i] /\ e = state.actives[i + 1]
    BY <1>1, <1>2, OutputFacts, NeighbourPosition DEF BoundCross
  <2>2. Gone(state, s)
    <3> HIDE DEF e
    <3> QED BY <2>1, CrossedEdges
  <2>3. Step(s, task)
    BY <1>2 DEF BoundCross
  <2> HIDE DEF s
  <2>4. TaskSound(s, task)
    BY <1>1, FreeTask
  <2> QED BY <2>2, <2>3, <2>4, OutputStep
<1>3. CASE BoundDone
  <2>1. PICK collinear \in JoinChoice : Step(CheckJoinRight(state, task.edge, collinear), Idle)
    BY <1>3 DEF BoundDone
  <2> DEFINE s == CheckJoinRight(state, task.edge, collinear)
  <2>2. JoinChecked(state, s)
    BY <1>1, OutputFacts, JoinsAreChecked
  <2>3. Step(s, Idle)
    BY <2>1
  <2> HIDE DEF s
  <2>4. Gone(state, s)
    BY <2>2 DEF JoinChecked, Gone
  <2> QED BY <2>3, <2>4, IdleIsFree, OutputStep
<1> QED BY <1>2, <1>3

LEMMA OutputIntersection ==
  ASSUME WInv, SInv, Intersection
  PROVE  Kept
<1>1. PICK i \in 1 .. Count(state) - 1, join_left, join_right \in JoinChoice :
        LET first == At(state, i)
            second == At(state, i + 1)
            crossed == Cross(state, first, second)
        IN  Step(CheckJoinRight(CheckJoinLeft(crossed, second, join_left), first, join_right), Idle)
  BY DEF Intersection
<1> DEFINE first == state.actives[i]
           second == state.actives[i + 1]
           t == Cross(state, first, second)
           s == CheckJoinRight(CheckJoinLeft(t, second, join_left), first, join_right)
<1>2. At(state, i) = first /\ At(state, i + 1) = second
  BY OutputFacts
<1>3. Step(s, Idle)
  BY <1>1, <1>2
<1>4. Gone(state, t) /\ first \in Active(t) /\ second \in Active(t)
  BY CrossedEdges
<1> HIDE DEF t, first, second
<1>5. JoinChecked(t, s)
  BY <1>4, JoinsCheckedTwice DEF Gone
<1> HIDE DEF s
<1>6. Gone(t, s)
  BY <1>5 DEF JoinChecked, Gone
<1>7. Gone(state, s)
  BY <1>4, <1>6, OutputFacts, GoneTransitive
<1> QED BY <1>3, <1>7, IdleIsFree, OutputStep

LEMMA OutputUpdate ==
  ASSUME WInv, SInv, UpdateTopEdge \/ HorizontalDone
  PROVE  Kept
<1>1. PICK e, horizontal, join_left, join_right :
        /\ e \in Active(state) /\ horizontal \in BOOLEAN
        /\ Step(UpdateEdgeIntoAel(state, e, horizontal, join_left, join_right), Idle)
  <2>1. CASE UpdateTopEdge
    BY <2>1, ActiveEdgesAssumption DEF UpdateTopEdge
  <2>2. CASE HorizontalDone
    <3>1. task.edge \in Active(state)
      BY <2>2, OutputFacts DEF HorizontalDone, Intact
    <3> QED BY <2>2, <3>1 DEF HorizontalDone
  <2> QED BY <2>1, <2>2
<1> DEFINE s == UpdateEdgeIntoAel(state, e, horizontal, join_left, join_right)
<1>2. Gone(state, s)
  BY <1>1, OutputFacts, EdgeUpdates
<1>3. Step(s, Idle)
  BY <1>1
<1> HIDE DEF s
<1> QED BY <1>2, <1>3, IdleIsFree, OutputStep

LEMMA OutputBeginMaxima ==
  ASSUME WInv, SInv, BeginMaxima
  PROVE  Kept
<1>1. PICK i, j \in 1 .. Count(state) :
        Step(SplitIfJoined(SplitIfJoined(state, At(state, i)), At(state, j)),
             [kind |-> "maxima", edge |-> At(state, i), pair |-> At(state, j)])
  BY DEF BeginMaxima
<1> DEFINE e == At(state, i)
           pair == At(state, j)
           s == SplitIfJoined(SplitIfJoined(state, e), pair)
           t == [kind |-> "maxima", edge |-> e, pair |-> pair]
<1>2. e \in Active(state) /\ pair \in Active(state)
  BY OutputFacts DEF Active, Range
<1>3. SplitAt(state, s, e) /\ SplitAt(state, s, pair)
  <2> HIDE DEF e, pair
  <2> QED BY <1>2, OutputFacts, BothSplit
<1>4. Step(s, t)
  BY <1>1
<1> HIDE DEF s, e, pair
<1>5. Gone(state, s)
  BY <1>3 DEF SplitAt, Gone
<1>6. TaskSound(s, t)
  BY <1>3 DEF SplitAt, TaskSound
<1> HIDE DEF t
<1> QED BY <1>4, <1>5, <1>6, OutputStep

LEMMA OutputMaximaCross ==
  ASSUME WInv, SInv, MaximaCross
  PROVE  Kept
<1> DEFINE e == NextInAel(state, task.edge)
           s == Cross(state, task.edge, e)
<1>1. task.kind = "maxima" /\ Step(s, task)
  BY DEF MaximaCross
<1>2. PICK i, j \in 1 .. Count(state) :
        i < j /\ state.actives[i] = task.edge /\ state.actives[j] = task.pair
  BY <1>1, OutputFacts DEF Intact
<1>3. i \in 1 .. Count(state) - 1 /\ e = state.actives[i + 1]
  <2>1. PositionOf(state, task.edge) = i
    BY <1>2, OutputFacts, PositionIsUnique
  <2>2. e = At(state, i + 1)
    BY <2>1 DEF NextInAel
  <2>3. i + 1 \in 1 .. Count(state) /\ i \in 1 .. Count(state) - 1
    BY <1>2, OutputFacts
  <2> QED BY <2>2, <2>3, OutputFacts
<1>4. Passed(state, s) /\ Gone(state, s)
  <2> HIDE DEF e
  <2> QED BY <1>2, <1>3, CrossedEdges
<1> HIDE DEF s
<1>5. TaskSound(s, task)
  <2>1. task.edge \in Edge /\ task.pair \in Edge
    BY <1>1, WInvFacts, TaskEdges DEF IInv
  <2>2. ~IsJoined(state, task.edge) /\ ~IsJoined(state, task.pair)
    BY <1>1, OutputFacts DEF TaskSound
  <2> QED BY <1>1, <1>4, <2>1, <2>2 DEF TaskSound, Passed
<1> QED BY <1>1, <1>4, <1>5, OutputStep

LEMMA OutputMaximaDone ==
  ASSUME WInv, SInv, MaximaDone
  PROVE  Kept
<1> DEFINE d == task.edge
           e == task.pair
           s1 == IF IsHot(state, d) THEN AddLocalMaxPolygon(state, d, e) ELSE state
           s2 == RemoveFromAel(RemoveFromAel(s1, d), e)
<1>1. task.kind = "maxima" /\ e = NextInAel(state, d) /\ d \in Active(state) /\ e \in Edge
  BY TaskEdges, WInvFacts, OutputFacts DEF MaximaDone, IInv, Intact
<1>2. PICK i \in 1 .. Count(state) - 1 : d = state.actives[i] /\ e = state.actives[i + 1]
  <2>1. NextInAel(state, d) # NoEdge
    BY <1>1, ActiveEdgesAssumption
  <2> QED BY <1>1, <2>1, OutputFacts, NeighbourPosition
<1>3. MaximaPair(state, d, e)
  BY <1>1, WInvFacts DEF PairMatches
<1>4. ~IsJoined(state, d) /\ ~IsJoined(state, e)
  BY <1>1, OutputFacts DEF TaskSound
<1>5. Step(s2, Idle)
  BY DEF MaximaDone
<1> HIDE DEF d, e
<1>6. /\ ~IsHot(state, d) => BothGone(state, state, d, e)
      /\ IsHot(state, d) => BothGone(state, AddLocalMaxPolygon(state, d, e), d, e)
  BY <1>2, <1>3, <1>4, OutputFacts, MaximumCloses
<1>7. BothGone(state, s1, d, e)
  BY <1>6
<1>8. Gone(state, s2)
  <2> HIDE DEF s1
  <2> QED BY <1>7 DEF BothGone
<1> HIDE DEF s2
<1> QED BY <1>5, <1>8, IdleIsFree, OutputStep

LEMMA OutputBeginHorizontal ==
  ASSUME WInv, SInv, BeginHorizontal
  PROVE  Kept
<1>1. PICK e \in Horizontals(state) :
        Step(state, [kind |-> "horizontal", edge |-> e, pair |-> NoEdge])
  BY DEF BeginHorizontal
<1> DEFINE t == [kind |-> "horizontal", edge |-> e, pair |-> NoEdge]
<1>2. TaskSound(state, t)
  BY DEF TaskSound, Horizontals
<1>3. Step(state, t)
  BY <1>1
<1> HIDE DEF t
<1> QED BY <1>2, <1>3, OutputFacts, GoneReflexive, OutputStep

LEMMA OutputHorizontalCross ==
  ASSUME WInv, SInv, HorizontalCrossRight \/ HorizontalCrossLeft
  PROVE  Kept
<1>1. task.edge \in Active(state) /\ task.kind = "horizontal" /\ task.edge \in Edge
  BY WInvFacts, TaskEdges, OutputFacts DEF HorizontalCrossRight, HorizontalCrossLeft, Intact, IInv
<1>2. ASSUME NEW i \in 1 .. Count(state) - 1, NEW d \in {state.actives[i], state.actives[i + 1]},
             NEW join, NEW s, Step(s, task),
             LET t == Cross(state, state.actives[i], state.actives[i + 1])
             IN  s \in {CheckJoinLeft(t, d, join), CheckJoinRight(t, d, join)}
      PROVE  Kept
  <2> DEFINE t == Cross(state, state.actives[i], state.actives[i + 1])
  <2>1. Passed(state, t) /\ Gone(state, t) /\ d \in Active(t)
    BY CrossedEdges
  <2>2. s \in {CheckJoinLeft(t, d, join), CheckJoinRight(t, d, join)}
    BY <1>2
  <2> HIDE DEF t
  <2>3. JoinChecked(t, CheckJoinLeft(t, d, join)) /\ JoinChecked(t, CheckJoinRight(t, d, join))
    BY <2>1, JoinsAreChecked DEF Gone
  <2>4. JoinChecked(t, s)
    BY ONLY <2>2, <2>3
  <2>5. Gone(t, s)
    BY <2>4 DEF JoinChecked, Gone
  <2>6. Gone(state, s)
    BY <2>1, <2>5, OutputFacts, GoneTransitive
  <2>7. s.edge[task.edge].horizontal
    <3>1. state.edge[task.edge].horizontal
      BY <1>1, OutputFacts DEF TaskSound
    <3> QED BY <1>1, <2>1, <2>4, <3>1 DEF Passed, JoinChecked
  <2>8. TaskSound(s, task)
    BY <1>1, <2>7 DEF TaskSound
  <2> QED BY <1>2, <2>6, <2>8, OutputStep
<1>3. CASE HorizontalCrossRight
  <2> DEFINE e == NextInAel(state, task.edge)
  <2>1. PICK join \in JoinChoice : e # NoEdge /\ Step(CheckJoinLeft(Cross(state, task.edge, e), e, join), task)
    BY <1>3 DEF HorizontalCrossRight
  <2>2. PICK i \in 1 .. Count(state) - 1 : task.edge = state.actives[i] /\ e = state.actives[i + 1]
    BY <1>1, <2>1, OutputFacts, NeighbourPosition
  <2> HIDE DEF e
  <2> QED BY <1>2, <2>1, <2>2
<1>4. CASE HorizontalCrossLeft
  <2> DEFINE e == PrevInAel(state, task.edge)
  <2>1. PICK join \in JoinChoice : e # NoEdge /\ Step(CheckJoinRight(Cross(state, e, task.edge), e, join), task)
    BY <1>4 DEF HorizontalCrossLeft
  <2>2. PICK i \in 1 .. Count(state) - 1 : e = state.actives[i] /\ task.edge = state.actives[i + 1]
    BY <1>1, <2>1, OutputFacts, NeighbourPosition
  <2> HIDE DEF e
  <2> QED BY <1>2, <2>1, <2>2
<1> QED BY <1>3, <1>4

\* A bound of a maximum that is neither hot nor joined has a partner that is
\* neither.
LEMMA ColdMaximum ==
  ASSUME NEW s, Sound(s), NEW i \in 1 .. Count(s) - 1, NEW d, d = s.actives[i],
         NEW e, e = s.actives[i + 1], MaximaPair(s, d, e), ~IsJoined(s, e), ~IsHot(s, e)
  PROVE  ~IsJoined(s, d) /\ ~IsHot(s, d)
<1>1. StateType(s) /\ IsInjective(s.actives) /\ DrawnUpTo(s, Count(s))
  BY DEF Sound
<1>2. /\ Count(s) \in Nat /\ i \in Nat /\ i \in 1 .. Count(s) /\ i + 1 \in 1 .. Count(s)
      /\ (i + 1) - 1 = i
  BY <1>1, TwoNeighbours
<1>3. InResult(s, i + 1) <=> InResult(s, i - 1)
  <2>1. \A T \in {"Subject", "Clip"} : RegionWinding(s, i + 1, T) = RegionWinding(s, i - 1, T)
    BY <1>1, MaximumSums
  <2>2. i + 1 \in 0 .. Count(s) /\ i - 1 \in 0 .. Count(s)
    BY <1>2
  <2> QED BY <1>1, <2>1, <2>2, SumsGiveResult
<1>4. DrawnAt(s, i) /\ DrawnAt(s, i + 1)
  BY <1>1, <1>2 DEF DrawnUpTo
<1> QED BY <1>2, <1>3, <1>4 DEF DrawnAt

\* The maximum of a horizontal bound, whichever side its partner is on.
Neighbours(s, i, h, e) ==
  \/ h = s.actives[i] /\ e = s.actives[i + 1] /\ e = NextInAel(s, h)
  \/ e = s.actives[i] /\ h = s.actives[i + 1] /\ e # NextInAel(s, h)

LEMMA WhichNeighbour ==
  ASSUME NEW s, StateType(s), IsInjective(s.actives), NEW h \in Active(s), NEW e,
         e \in {NextInAel(s, h), PrevInAel(s, h)} \ {NoEdge}
  PROVE  \E i \in 1 .. Count(s) - 1 : Neighbours(s, i, h, e)
<1>1. Count(s) \in Nat /\ DOMAIN s.actives = 1 .. Count(s)
  BY DEF StateType, Count
<1>2. CASE e = NextInAel(s, h)
  BY <1>2, NeighbourPosition DEF Neighbours
<1>3. CASE e = PrevInAel(s, h) /\ e # NextInAel(s, h)
  BY <1>3, NeighbourPosition DEF Neighbours
<1> QED BY <1>2, <1>3

LEMMA HorizontalMaximumCloses ==
  ASSUME NEW s, Sound(s), NEW i \in 1 .. Count(s) - 1, NEW d, d = s.actives[i],
         NEW e, e = s.actives[i + 1], MaximaPair(s, d, e),
         NEW h \in {d, e}, NEW g \in {d, e} \ {h}, ~IsJoined(s, h)
  PROVE  /\ ~IsHot(s, h) => BothGone(s, s, d, e)
         /\ IsHot(s, h) => BothGone(s, AddLocalMaxPolygon(SplitIfJoined(s, g), d, e), d, e)
<1>1. StateType(s) /\ IsInjective(s.actives)
  BY DEF Sound
<1>2. d \in Edge /\ e \in Edge /\ d # e /\ d \in Active(s) /\ e \in Active(s)
  BY <1>1, TwoNeighbours
<1>3. ASSUME ~IsHot(s, h) PROVE BothGone(s, s, d, e)
  <2>1. ~IsJoined(s, d) /\ ~IsHot(s, d)
    BY <1>3, ColdMaximum
  <2> QED BY <2>1, MaximumCloses
<1>4. ASSUME IsHot(s, h) PROVE BothGone(s, AddLocalMaxPolygon(SplitIfJoined(s, g), d, e), d, e)
  <2> DEFINE u == SplitIfJoined(s, g)
             v == AddLocalMaxPolygon(u, d, e)
  <2>1. SplitAt(s, u, g)
    BY <1>2, SplitEdgeSound
  <2> HIDE DEF u
  <2>2. Sound(u) /\ RecordsStay(s, u) /\ SameWinding(s, u) /\ SameStage(s, u)
    BY <2>1 DEF SplitAt, Released
  <2>3. u.actives = s.actives /\ Count(u) = Count(s)
    BY <2>2 DEF SameStage, Count
  <2>4. ~IsJoined(u, h) /\ ~IsJoined(u, g) /\ IsHot(u, h)
    BY <1>2, <1>4, <2>1 DEF SplitAt, Released, SameSide
  <2>5. ~IsJoined(u, d) /\ ~IsJoined(u, e)
    BY <1>2, <2>4
  <2>6. MaximaPair(u, d, e)
    BY <1>2, <2>2, SameKeepsBounds, PairKept
  <2>7. IsHot(u, d)
    BY <2>2, <2>3, <2>4, <2>5, <2>6, MaximumCloses
  <2>8. BothGone(u, v, d, e)
    BY <2>2, <2>3, <2>5, <2>6, <2>7, MaximumCloses
  <2> HIDE DEF v
  <2>9. BothGone(s, v, d, e)
    <3>1. Gone(s, u)
      BY <2>2 DEF Gone
    <3> QED BY <2>8, <3>1, GoneTransitive DEF BothGone
  <2> QED BY <2>9 DEF u, v
<1> QED BY <1>3, <1>4

LEMMA OutputHorizontalMaxima ==
  ASSUME WInv, SInv, HorizontalMaxima
  PROVE  Kept
<1> DEFINE h == task.edge
           left(e) == IF e = NextInAel(state, h) THEN h ELSE e
           right(e) == IF e = NextInAel(state, h) THEN e ELSE h
           s1(e) == IF IsHot(state, h) THEN AddLocalMaxPolygon(SplitIfJoined(state, e), left(e), right(e))
                                       ELSE state
           s2(e) == RemoveFromAel(RemoveFromAel(s1(e), e), h)
<1>1. PICK e \in {NextInAel(state, h), PrevInAel(state, h)} \ {NoEdge} :
        MaximaPair(state, h, e) /\ Step(s2(e), Idle)
  BY DEF HorizontalMaxima
<1>2. task.kind = "horizontal" /\ h \in Active(state) /\ h \in Edge
  BY WInvFacts, TaskEdges, OutputFacts DEF HorizontalMaxima, Intact, IInv
<1>3. ~IsJoined(state, h)
  BY <1>2, OutputFacts DEF TaskSound, HorizontalsFree
<1> HIDE DEF h
<1>4. PICK i \in 1 .. Count(state) - 1 : Neighbours(state, i, h, e)
  BY <1>1, <1>2, OutputFacts, WhichNeighbour
<1> DEFINE d == state.actives[i]
           f == state.actives[i + 1]
<1>5. left(e) = d /\ right(e) = f /\ {h, e} = {d, f}
  BY <1>4 DEF Neighbours
<1>6. /\ d \in Edge /\ f \in Edge /\ d # f /\ d = state.actives[i] /\ f = state.actives[i + 1]
      /\ state.edge[d].wind_dx \in {-1, 1} /\ state.edge[f].wind_dx \in {-1, 1}
  <2>1. d \in Edge /\ f \in Edge /\ d # f
    BY OutputFacts, TwoNeighbours
  <2> HIDE DEF d, f
  <2>2. state.edge[d].wind_dx \in {-1, 1} /\ state.edge[f].wind_dx \in {-1, 1}
    BY <2>1, OutputFacts DEF StateType, EdgeType
  <2> QED BY <2>1, <2>2 DEF d, f
<1> DEFINE x == s1(e)
<1> HIDE DEF d, f
<1>7. h \in {d, f} /\ e \in {d, f} \ {h}
  BY <1>5, <1>6
<1>8. MaximaPair(state, d, f)
  BY <1>1, <1>6, <1>7 DEF MaximaPair, SamePolyType
<1>9. /\ ~IsHot(state, h) => BothGone(state, state, d, f)
      /\ IsHot(state, h) => BothGone(state, AddLocalMaxPolygon(SplitIfJoined(state, e), d, f), d, f)
  BY <1>3, <1>6, <1>7, <1>8, OutputFacts, HorizontalMaximumCloses
<1>10. BothGone(state, x, d, f)
  BY <1>5, <1>9
<1>11. Step(RemoveFromAel(RemoveFromAel(x, e), h), Idle)
  BY <1>1
<1> HIDE DEF x
<1>12. Gone(state, RemoveFromAel(RemoveFromAel(x, e), h))
  BY <1>7, <1>10 DEF BothGone
<1> DEFINE y == RemoveFromAel(RemoveFromAel(x, e), h)
<1>13. Step(y, Idle) /\ Gone(state, y)
  BY <1>11, <1>12
<1> HIDE DEF y
<1> QED BY <1>13, IdleIsFree, OutputStep

LEMMA OutputUnchanged ==
  ASSUME WInv, SInv, NextPhase \/ UNCHANGED vars
  PROVE  Kept
<1>1. state' = state /\ task' = task
  BY DEF NextPhase, vars
<1>2. Sound(state)' /\ TaskSound(state, task)'
  BY <1>1, OutputFacts
<1>3. RecordsStay(state, state')
  BY <1>1, OutputFacts, ReleasedReflexive DEF Sound
<1> QED BY <1>2, <1>3 DEF Kept, SInv

\* A sweep starts with an empty list, no record and nothing joined.
LEMMA OutputInit ==
  ASSUME Init
  PROVE  SInv
<1>1. StateType(state)
  BY InitEstablishes, InvFacts
<1>2. /\ state.actives = <<>> /\ state.edge = [e \in Edge |-> Dead] /\ state.front = <<>>
      /\ state.succeeded /\ task = Idle
  BY DEF Init
<1>3. Dead.outrec = NoRecord /\ Dead.horizontal = FALSE
  BY DEF Dead, Bound
<1>4. \A e \in Edge : ~IsHot(state, e) /\ state.edge[e].horizontal = FALSE
  BY <1>2, <1>3 DEF IsHot
<1>5. Coupled(state)
  BY <1>2, <1>4 DEF Coupled
<1>6. HorizontalsFree(state)
  BY <1>4 DEF HorizontalsFree
<1>7. IsInjective(state.actives)
  BY InitEstablishes, InvFacts
<1>8. DrawnUpTo(state, Count(state))
  BY <1>2 DEF DrawnUpTo, Count
<1>9. TaskSound(state, task)
  BY <1>2, IdleIsFree
<1> QED BY <1>1, <1>2, <1>5, <1>6, <1>7, <1>8, <1>9 DEF SInv, Sound

LEMMA OutputNext ==
  ASSUME WInv, SInv, [Next]_vars
  PROVE  Kept
<1>1. CASE InsertLocalMinimum
  BY <1>1, OutputInsert
<1>2. CASE BoundCross \/ BoundDone
  BY <1>2, OutputBound
<1>3. CASE Intersection
  BY <1>3, OutputIntersection
<1>4. CASE UpdateTopEdge \/ HorizontalDone
  BY <1>4, OutputUpdate
<1>5. CASE BeginMaxima
  BY <1>5, OutputBeginMaxima
<1>6. CASE MaximaCross
  BY <1>6, OutputMaximaCross
<1>7. CASE MaximaDone
  BY <1>7, OutputMaximaDone
<1>8. CASE BeginHorizontal
  BY <1>8, OutputBeginHorizontal
<1>9. CASE HorizontalCrossRight \/ HorizontalCrossLeft
  BY <1>9, OutputHorizontalCross
<1>10. CASE HorizontalMaxima
  BY <1>10, OutputHorizontalMaxima
<1>11. CASE NextPhase \/ UNCHANGED vars
  BY <1>11, OutputUnchanged
<1> QED BY <1>1, <1>2, <1>3, <1>4, <1>5, <1>6, <1>7, <1>8, <1>9, <1>10, <1>11 DEF Next

-----------------------------------------------------------------------------
(* What the invariant says of a run.                                       *)

LEMMA OutputInvariant == Spec => []SInv
<1>1. Init => SInv
  BY OutputInit
<1>2. WInv /\ SInv /\ [Next]_vars => SInv'
  BY OutputNext DEF Kept
<1> QED BY <1>1, <1>2, WindingInvariant, PTL DEF Spec

LEMMA SoundFacts ==
  ASSUME SInv
  PROVE  /\ Sound(state) /\ StateType(state) /\ Count(state) \in Nat
         /\ DOMAIN state.actives = 1 .. Count(state) /\ Coupled(state)
         /\ \A i \in 1 .. Count(state) : DrawnAt(state, i) /\ PairedAt(state, i)
  BY DEF SInv, Sound, DrawnUpTo, StateType, Count

\* An edge builds output, or lies in a joined pair, exactly when it separates
\* the result from its outside: intersect_edges, insert_local_minima_into_ael
\* and the maxima open, exchange and close the right records, whichever edges
\* meet in whichever order, for every clip type and fill rule.
THEOREM OutputBoundsTheResult == Spec => []HotEdgesBoundTheResult
<1>1. SInv => HotEdgesBoundTheResult
  <2> SUFFICES ASSUME SInv PROVE HotEdgesBoundTheResult
    OBVIOUS
  <2> SUFFICES ASSUME NEW i \in DOMAIN state.actives
               PROVE  (IsHot(state, state.actives[i]) \/ IsJoined(state, state.actives[i]))
                        <=> (InResult(state, i - 1) # InResult(state, i))
    BY DEF HotEdgesBoundTheResult
  <2>1. i \in 1 .. Count(state) /\ Count(state) \in Nat /\ StateType(state) /\ DrawnAt(state, i)
    BY SoundFacts
  <2>2. i \in 0 .. Count(state) /\ i - 1 \in 0 .. Count(state)
    BY <2>1
  <2>3. PICK a \in BOOLEAN : a = InResult(state, i - 1)
    BY <2>1, <2>2, ResultOfFills
  <2>4. PICK b \in BOOLEAN : b = InResult(state, i)
    BY <2>1, <2>2, ResultOfFills
  <2>5. (a # b) <=> ~(a <=> b)
    OBVIOUS
  <2>6. (IsHot(state, state.actives[i]) \/ IsJoined(state, state.actives[i])) <=> ~(a <=> b)
    BY <2>1, <2>3, <2>4 DEF DrawnAt
  <2> QED BY <2>3, <2>4, <2>5, <2>6
<1> QED BY <1>1, OutputInvariant, PTL

\* Every ring is drawn with the result on its right side: the front edge of a
\* record has the result on its right, the back edge on its left, although
\* swap_outrecs and join_outrec_paths exchange and hand over the sides.
THEOREM RingsAreOriented == Spec => []FrontHasResultOnRight
<1>1. SInv => FrontHasResultOnRight
  BY SoundFacts DEF FrontHasResultOnRight, DrawnAt
<1> QED BY <1>1, OutputInvariant, PTL

\* A record under construction has its two edges, each naming it, and a closed
\* one has none: no handler leaves an edge pointing at a record that another
\* one closed or joined away.
THEOREM RecordsStayCoupled == Spec => []RecordsCoupled
<1>1. SInv => RecordsCoupled
  <2> SUFFICES ASSUME SInv PROVE RecordsCoupled
    OBVIOUS
  <2>1. Coupled(state) /\ Records(state) = 1 .. Len(state.front)
    BY SoundFacts DEF Records, StateType
  <2> QED BY <2>1 DEF RecordsCoupled, Coupled, HoldsSide, RecordClosed, RecordOpen
<1> QED BY <1>1, OutputInvariant, PTL

\* Joined edges come in neighbouring pairs, the left one joined to its right,
\* and build nothing: every handler that parts the two splits them first.
THEOREM JoinsStayPaired == Spec => []JoinsPaired
<1>1. SInv => JoinsPaired
  BY SoundFacts DEF JoinsPaired, PairedAt, JoinAt
<1> QED BY <1>1, OutputInvariant, PTL

\* add_local_max_polygon never meets two edges on the same side of a record:
\* the sweep of closed paths does not fail.
THEOREM SweepNeverFails == Spec => []NeverFails
<1>1. SInv => NeverFails
  BY SoundFacts DEF Sound, NeverFails
<1> QED BY <1>1, OutputInvariant, PTL

\* No step opens a closed record again or gives points back to a record that
\* was joined to another.
THEOREM ClosedForGood == Spec => ClosedRecordsStayClosed
<1> DEFINE StayClosed == \A r \in Records(state) :
             /\ state.front[r] = NoEdge => state'.front[r] = NoEdge /\ state'.back[r] = NoEdge
             /\ ~state.has_points[r] => ~state'.has_points[r]
<1>1. WInv /\ SInv /\ [Next]_vars => [StayClosed]_vars
  <2> SUFFICES ASSUME WInv, SInv, [Next]_vars PROVE StayClosed
    OBVIOUS
  <2>1. RecordsStay(state, state')
    BY OutputNext DEF Kept
  <2>2. Records(state) = 1 .. Len(state.front)
    BY SoundFacts DEF Records, StateType
  <2> QED BY <2>1, <2>2 DEF RecordsStay, RecordClosed
<1>2. Spec => [][StayClosed]_vars
  <2> HIDE DEF StayClosed
  <2> QED BY <1>1, WindingInvariant, OutputInvariant, PTL DEF Spec
<1> QED BY <1>2 DEF ClosedRecordsStayClosed

LEMMA OwnersStayRooted == Spec => []Rooted(state)
<1>1. Init => Rooted(state)
  <2> SUFFICES ASSUME Init PROVE Rooted(state)
    OBVIOUS
  <2>1. state.owner = <<>> /\ state.front = <<>>
    BY DEF Init
  <2>2. Len(state.front) = 0 /\ Len(state.owner) = 0 /\ 1 .. 0 = {} /\ DOMAIN state.owner = {}
    BY <2>1
  <2>3. state.owner \in [1 .. 0 -> 0 .. 0] /\ state.owner \in Seq(0 .. 0)
    BY <2>1, <2>2
  <2> QED BY <2>2, <2>3 DEF Rooted, Roots
<1>2. WInv /\ SInv /\ Rooted(state) /\ [Next]_vars => Rooted(state)'
  <2> SUFFICES ASSUME WInv, SInv, Rooted(state), [Next]_vars PROVE Rooted(state)'
    OBVIOUS
  <2>1. OwnersStay(state, state')
    BY OutputNext DEF Kept, RecordsStay
  <2>2. Rooted(state')
    BY <2>1 DEF OwnersStay
  <2> QED BY <2>2 DEF Rooted
<1> HIDE DEF Rooted
<1> QED BY <1>1, <1>2, WindingInvariant, OutputInvariant, PTL DEF Spec

\* The owners of the records never form a cycle, whatever set_owner,
\* get_real_outrec and the joins of records wrote: every walk along owners,
\* in this sweep or in the passes after it, ends.
THEOREM OwnersNeverCycle == Spec => []OwnersAcyclic
<1>1. SInv /\ Rooted(state) => OwnersAcyclic
  <2> SUFFICES ASSUME SInv, Rooted(state) PROVE OwnersAcyclic
    OBVIOUS
  <2>1. Records(state) = 1 .. Len(state.front)
    BY SoundFacts DEF Records, StateType
  <2> QED BY <2>1 DEF Rooted, Roots, OwnersAcyclic
<1> QED BY <1>1, OwnersStayRooted, OutputInvariant, PTL
=============================================================================
