--------------------------- MODULE OutputRingsProofs ---------------------------
(***************************************************************************)
(* Proofs about OutputRings: the links of the output points stay those of  *)
(* closed rings, every step finds the points, the records and the frames   *)
(* it reads, and from every record the owners come to an end.  First what  *)
(* the operators return (iterated steps, changed links, records, loops     *)
(* over rings), then the invariant, then one lemma for each action.        *)
(***************************************************************************)
EXTENDS OutputRings, SequenceTheorems, FiniteSetTheorems, WellFoundedInduction, TLAPS
-----------------------------------------------------------------------------
(* What Iterated walks through.                                            *)

LEMMA Least ==
  ASSUME NEW T, T \subseteq Nat, T # {}
  PROVE  \E n \in T : \A m \in T : n <= m
<1>1. PICK n \in T : \A m \in T : ~(<<m, n>> \in OpToRel(<, Nat))
  BY NatLessThanWellFounded, WFMin, Zenon
<1>2. \A m \in T : ~(m < n)
  BY <1>1 DEF OpToRel
<1> QED BY <1>2

StaysIn(step, S) == \A s \in S : step[s] \in S

\* F holds the first m steps from p on.
Walks(F, step, p, m) == F[0] = p /\ \A i \in 1 .. m : F[i] = step[F[i - 1]]

LEMMA WalkExists ==
  ASSUME NEW S, NEW step, NEW p \in S, StaysIn(step, S), NEW n \in Nat
  PROVE  \E F \in [0 .. n -> S] : Walks(F, step, p, n)
<1> DEFINE Walk(m) == \E F \in [0 .. m -> S] : Walks(F, step, p, m)
           T == {m \in Nat : ~ Walk(m)}
<1> SUFFICES ASSUME T # {} PROVE FALSE
  OBVIOUS
<1>1. PICK m \in T : \A k \in T : m <= k
  <2>1. T \subseteq Nat
    OBVIOUS
  <2> HIDE DEF T
  <2> QED BY <2>1, Least
<1>2. m \in Nat /\ ~ Walk(m)
  BY <1>1
<1>3. m # 0
  <2> DEFINE F == [i \in 0 .. 0 |-> p]
  <2>1. F \in [0 .. 0 -> S] /\ Walks(F, step, p, 0)
    BY DEF Walks
  <2> QED BY <1>2, <2>1
<1>4. m - 1 \in Nat /\ ~ (m <= m - 1) /\ m \in 1 .. m
  BY <1>2, <1>3
<1>5. PICK F \in [0 .. m - 1 -> S] : Walks(F, step, p, m - 1)
  BY <1>1, <1>4
<1> DEFINE G == [i \in 0 .. m |-> IF i = m THEN step[F[m - 1]] ELSE F[i]]
<1>6. G \in [0 .. m -> S]
  <2>1. F[m - 1] \in S
    BY <1>4, <1>5
  <2> QED BY <1>4, <1>5, <2>1 DEF StaysIn
<1>7. Walks(G, step, p, m)
  <2>1. G[0] = p
    BY <1>2, <1>3, <1>5 DEF Walks
  <2>2. ASSUME NEW i \in 1 .. m PROVE G[i] = step[G[i - 1]]
    <3>1. i \in 0 .. m /\ i - 1 \in 0 .. m /\ i - 1 # m
      BY <1>2
    <3>2. CASE i = m
      BY <3>1, <3>2
    <3>3. CASE i # m
      <4>1. i \in 1 .. m - 1
        BY <1>2, <3>3
      <4>2. F[i] = step[F[i - 1]]
        BY <1>5, <4>1 DEF Walks
      <4> QED BY <3>1, <3>3, <4>2
    <3> QED BY <3>2, <3>3
  <2> QED BY <2>1, <2>2 DEF Walks
<1> QED BY <1>2, <1>6, <1>7

LEMMA WalksAgree ==
  ASSUME NEW step, NEW p, NEW m \in Nat, NEW n \in Nat, NEW F, NEW G,
         Walks(F, step, p, m), Walks(G, step, p, n), NEW k \in 0 .. m, k \in 0 .. n
  PROVE  F[k] = G[k]
<1> DEFINE T == {i \in 0 .. k : F[i] # G[i]}
<1>1. T = {}
  <2> SUFFICES ASSUME T # {} PROVE FALSE
    OBVIOUS
  <2>1. PICK i \in T : \A j \in T : i <= j
    <3>1. T \subseteq Nat
      OBVIOUS
    <3> HIDE DEF T
    <3> QED BY <3>1, Least
  <2>2. i # 0
    BY <2>1 DEF Walks
  <2>3. i - 1 \in 0 .. k /\ ~ (i <= i - 1) /\ i \in 1 .. m /\ i \in 1 .. n
    BY <2>1, <2>2
  <2>4. F[i - 1] = G[i - 1]
    BY <2>1, <2>3
  <2>5. F[i] = step[F[i - 1]] /\ G[i] = step[G[i - 1]]
    BY <2>3 DEF Walks
  <2> QED BY <2>1, <2>4, <2>5
<1> QED BY <1>1

\* The places walked through are those of the recursive function in Iterated.
WalkOf(W, step, p) == W[0] = p /\ \A k \in Nat : W[k + 1] = step[W[k]]

IteratedIs(W, step, p) == \A n \in Nat : Iterated(step, p, n) = W[n]

LEMMA WholeWalkExists ==
  ASSUME NEW S, NEW step, NEW p \in S, StaysIn(step, S)
  PROVE  \E W \in [Nat -> S] : WalkOf(W, step, p)
<1> DEFINE F(n) == CHOOSE f \in [0 .. n -> S] : Walks(f, step, p, n)
           W == [n \in Nat |-> F(n)[n]]
<1>1. ASSUME NEW n \in Nat PROVE F(n) \in [0 .. n -> S] /\ Walks(F(n), step, p, n)
  BY WalkExists
<1> HIDE DEF F
<1>2. W \in [Nat -> S]
  BY <1>1
<1>3. W[0] = p
  BY <1>1 DEF Walks
<1>4. ASSUME NEW k \in Nat PROVE W[k + 1] = step[W[k]]
  <2>1. k + 1 \in Nat /\ k + 1 \in 1 .. k + 1 /\ (k + 1) - 1 = k /\ k \in 0 .. k + 1 /\ k \in 0 .. k
    OBVIOUS
  <2>2. F(k + 1)[k + 1] = step[F(k + 1)[k]]
    BY <1>1, <2>1 DEF Walks
  <2>3. F(k + 1)[k] = F(k)[k]
    <3>1. Walks(F(k + 1), step, p, k + 1) /\ Walks(F(k), step, p, k)
      BY <1>1, <2>1
    <3> QED BY <2>1, <3>1, WalksAgree
  <2> QED BY <2>1, <2>2, <2>3
<1> HIDE DEF W
<1> QED BY <1>2, <1>3, <1>4 DEF WalkOf

LEMMA IteratedWalks ==
  ASSUME NEW S, NEW step, NEW p \in S, StaysIn(step, S)
  PROVE  \E W \in [Nat -> S] : WalkOf(W, step, p) /\ IteratedIs(W, step, p)
<1> DEFINE Body(w) == [k \in Nat |-> IF k = 0 THEN p ELSE step[w[k - 1]]]
           w0 == CHOOSE w : w = Body(w)
<1>1. PICK W \in [Nat -> S] : WalkOf(W, step, p)
  BY WholeWalkExists
<1>2. W = Body(W)
  <2>1. ASSUME NEW k \in Nat PROVE W[k] = IF k = 0 THEN p ELSE step[W[k - 1]]
    <3>1. CASE k = 0
      BY <1>1, <3>1 DEF WalkOf
    <3>2. CASE k # 0
      <4>1. k - 1 \in Nat /\ (k - 1) + 1 = k
        BY <3>2
      <4> QED BY <1>1, <3>2, <4>1 DEF WalkOf
    <3> QED BY <3>1, <3>2
  <2> QED BY <2>1
<1>3. w0 = Body(w0)
  BY <1>2
<1>4. ASSUME NEW n \in Nat PROVE Iterated(step, p, n) = w0[n]
  BY DEF Iterated
<1> HIDE DEF w0
<1>5. ASSUME NEW n \in Nat PROVE w0[n] = W[n]
  <2>1. Walks(w0, step, p, n)
    BY <1>3 DEF Walks
  <2>2. Walks(W, step, p, n)
    <3>1. ASSUME NEW i \in 1 .. n PROVE W[i] = step[W[i - 1]]
      <4>1. i - 1 \in Nat /\ (i - 1) + 1 = i
        OBVIOUS
      <4> QED BY <1>1, <4>1 DEF WalkOf
    <3> QED BY <1>1, <3>1 DEF Walks, WalkOf
  <2>3. n \in 0 .. n
    OBVIOUS
  <2> QED BY <2>1, <2>2, <2>3, WalksAgree
<1> QED BY <1>1, <1>4, <1>5 DEF IteratedIs

LEMMA IteratedIn ==
  ASSUME NEW S, NEW step, NEW p \in S, StaysIn(step, S), NEW n \in Nat
  PROVE  Iterated(step, p, n) \in S
<1>1. PICK W \in [Nat -> S] : WalkOf(W, step, p) /\ IteratedIs(W, step, p)
  BY IteratedWalks
<1> QED BY <1>1 DEF IteratedIs

-----------------------------------------------------------------------------
(* Links of points.                                                        *)

Place == [x : Int, y : Int]

Point == [pt : Place, next : Nat, prev : Nat, outrec : Nat, has_horizontal_segment : BOOLEAN]

PointsIntact(points) == points \in Seq(Point) /\ RingsIntactIn(points)

SetNext(points, p, q) == [points EXCEPT ![p].next = q]

SetPrev(points, p, q) == [points EXCEPT ![p].prev = q]

NextIs(changed, points, p, q) ==
  /\ changed \in Seq(Point) /\ Len(changed) = Len(points) /\ DOMAIN changed = DOMAIN points
  /\ \A x \in DOMAIN points : changed[x].next = IF x = p THEN q ELSE points[x].next
  /\ \A x \in DOMAIN points : changed[x].prev = points[x].prev
  /\ \A x \in DOMAIN points : changed[x].outrec = points[x].outrec

PrevIs(changed, points, p, q) ==
  /\ changed \in Seq(Point) /\ Len(changed) = Len(points) /\ DOMAIN changed = DOMAIN points
  /\ \A x \in DOMAIN points : changed[x].next = points[x].next
  /\ \A x \in DOMAIN points : changed[x].prev = IF x = p THEN q ELSE points[x].prev
  /\ \A x \in DOMAIN points : changed[x].outrec = points[x].outrec

LEMMA NextChanged ==
  ASSUME NEW points \in Seq(Point), NEW p \in DOMAIN points, NEW q \in Nat
  PROVE  NextIs(SetNext(points, p, q), points, p, q)
<1> DEFINE point == [points[p] EXCEPT !.next = q]
           changed == [points EXCEPT ![p] = point]
<1>1. points[p] \in Point /\ p \in 1 .. Len(points)
  OBVIOUS
<1>2. /\ point \in Point /\ point.next = q /\ point.prev = points[p].prev
      /\ point.outrec = points[p].outrec
  BY <1>1 DEF Point
<1> HIDE DEF point
<1>3. changed \in Seq(Point) /\ Len(changed) = Len(points) /\ DOMAIN changed = DOMAIN points
  BY <1>1, <1>2, ExceptSeq
<1>4. \A x \in DOMAIN points : changed[x] = IF x = p THEN point ELSE points[x]
  OBVIOUS
<1>5. changed = SetNext(points, p, q)
  BY DEF SetNext, point
<1> HIDE DEF changed
<1> QED BY <1>2, <1>3, <1>4, <1>5 DEF NextIs

LEMMA PrevChanged ==
  ASSUME NEW points \in Seq(Point), NEW p \in DOMAIN points, NEW q \in Nat
  PROVE  PrevIs(SetPrev(points, p, q), points, p, q)
<1> DEFINE point == [points[p] EXCEPT !.prev = q]
           changed == [points EXCEPT ![p] = point]
<1>1. points[p] \in Point /\ p \in 1 .. Len(points)
  OBVIOUS
<1>2. /\ point \in Point /\ point.prev = q /\ point.next = points[p].next
      /\ point.outrec = points[p].outrec
  BY <1>1 DEF Point
<1> HIDE DEF point
<1>3. changed \in Seq(Point) /\ Len(changed) = Len(points) /\ DOMAIN changed = DOMAIN points
  BY <1>1, <1>2, ExceptSeq
<1>4. \A x \in DOMAIN points : changed[x] = IF x = p THEN point ELSE points[x]
  OBVIOUS
<1>5. changed = SetPrev(points, p, q)
  BY DEF SetPrev, point
<1> HIDE DEF changed
<1> QED BY <1>2, <1>3, <1>4, <1>5 DEF PrevIs

LEMMA LinksInDomain ==
  ASSUME NEW points, PointsIntact(points), NEW p \in DOMAIN points
  PROVE  /\ points[p].next \in DOMAIN points /\ points[p].prev \in DOMAIN points
         /\ points[points[p].next].prev = p /\ points[points[p].prev].next = p
BY DEF PointsIntact, RingsIntactIn

LEMMA PointsAreNumbers ==
  ASSUME NEW points, PointsIntact(points), NEW p \in DOMAIN points
  PROVE  p \in Nat /\ p \in 1 .. Len(points) /\ Len(points) \in Nat
BY DEF PointsIntact

LEMMA LinkedKeepsRings ==
  ASSUME PointsIntact(op), NEW p \in DOMAIN op, NEW q \in DOMAIN op
  PROVE  /\ PointsIntact(Linked(p, q)) /\ Len(Linked(p, q)) = Len(op)
         /\ \A x \in DOMAIN op : Linked(p, q)[x].outrec = op[x].outrec
<1> DEFINE b == op[p].next
           s == op[q].prev
           o1 == SetNext(op, p, q)
           o2 == SetPrev(o1, q, p)
           o3 == SetPrev(o2, b, s)
           o4 == SetNext(o3, s, b)
<1>1. /\ b \in DOMAIN op /\ s \in DOMAIN op
      /\ b \in Nat /\ s \in Nat /\ p \in Nat /\ q \in Nat /\ op \in Seq(Point)
  BY LinksInDomain, PointsAreNumbers DEF PointsIntact
<1>2. Linked(p, q) = o4
  BY DEF Linked, SetNext, SetPrev
<1> HIDE DEF o1, o2, o3, o4
<1>3. NextIs(o1, op, p, q)
  BY <1>1, NextChanged DEF o1
<1>4. PrevIs(o2, o1, q, p)
  <2>1. o1 \in Seq(Point) /\ q \in DOMAIN o1
    BY <1>3 DEF NextIs
  <2> QED BY <1>1, <2>1, PrevChanged DEF o2
<1>5. PrevIs(o3, o2, b, s)
  <2>1. o2 \in Seq(Point) /\ b \in DOMAIN o2
    BY <1>1, <1>3, <1>4 DEF NextIs, PrevIs
  <2> QED BY <1>1, <2>1, PrevChanged DEF o3
<1>6. NextIs(o4, o3, s, b)
  <2>1. o3 \in Seq(Point) /\ s \in DOMAIN o3
    BY <1>1, <1>3, <1>4, <1>5 DEF NextIs, PrevIs
  <2> QED BY <1>1, <2>1, NextChanged DEF o4
<1>7. /\ o4 \in Seq(Point) /\ Len(o4) = Len(op) /\ DOMAIN o4 = DOMAIN op
      /\ \A x \in DOMAIN op : o4[x].next = IF x = s THEN b ELSE IF x = p THEN q ELSE op[x].next
      /\ \A x \in DOMAIN op : o4[x].prev = IF x = b THEN s ELSE IF x = q THEN p ELSE op[x].prev
      /\ \A x \in DOMAIN op : o4[x].outrec = op[x].outrec
  BY <1>3, <1>4, <1>5, <1>6 DEF NextIs, PrevIs
<1>8. RingsIntactIn(o4)
  <2> SUFFICES ASSUME NEW x \in DOMAIN op
               PROVE  /\ o4[x].next \in DOMAIN op /\ o4[o4[x].next].prev = x
                      /\ o4[x].prev \in DOMAIN op /\ o4[o4[x].prev].next = x
    BY <1>7 DEF RingsIntactIn
  <2>1. /\ op[x].next \in DOMAIN op /\ op[x].prev \in DOMAIN op
        /\ op[op[x].next].prev = x /\ op[op[x].prev].next = x
        /\ op[b].prev = p /\ op[s].next = q /\ op[p].next = b /\ op[q].prev = s
    BY <1>1, LinksInDomain
  <2> HIDE DEF o4, b, s
  <2>2. o4[x].next \in DOMAIN op /\ o4[o4[x].next].prev = x
    BY <1>1, <1>7, <2>1
  <2>3. o4[x].prev \in DOMAIN op /\ o4[o4[x].prev].next = x
    BY <1>1, <1>7, <2>1
  <2> QED BY <2>2, <2>3
<1> QED BY <1>2, <1>7, <1>8 DEF PointsIntact

-----------------------------------------------------------------------------
(* Points put into a ring and taken out of it.                             *)

SameLinks(changed, points) ==
  /\ changed \in Seq(Point) /\ Len(changed) = Len(points) /\ DOMAIN changed = DOMAIN points
  /\ \A x \in DOMAIN points : changed[x].next = points[x].next /\ changed[x].prev = points[x].prev

LEMMA SameLinksKeepRings ==
  ASSUME NEW points, NEW changed, PointsIntact(points), SameLinks(changed, points)
  PROVE  PointsIntact(changed) /\ Len(changed) = Len(points)
BY DEF PointsIntact, RingsIntactIn, SameLinks

SetPoint(points, p, point) == [points EXCEPT ![p] = point]

PointIs(changed, points, p, point) ==
  /\ changed \in Seq(Point) /\ Len(changed) = Len(points) /\ DOMAIN changed = DOMAIN points
  /\ \A x \in DOMAIN points : changed[x] = IF x = p THEN point ELSE points[x]

LEMMA PointChanged ==
  ASSUME NEW points \in Seq(Point), NEW p \in DOMAIN points, NEW point \in Point
  PROVE  PointIs(SetPoint(points, p, point), points, p, point)
<1>1. p \in 1 .. Len(points)
  OBVIOUS
<1>2. /\ SetPoint(points, p, point) \in Seq(Point)
      /\ Len(SetPoint(points, p, point)) = Len(points)
      /\ DOMAIN SetPoint(points, p, point) = DOMAIN points
  BY <1>1, ExceptSeq DEF SetPoint
<1>3. \A x \in DOMAIN points : SetPoint(points, p, point)[x] = IF x = p THEN point ELSE points[x]
  BY DEF SetPoint
<1> QED BY <1>2, <1>3 DEF PointIs

\* The new point is between p and q.
Between2(points, p, q, point) ==
  Append(SetNext(SetPrev(points, q, Len(points) + 1), p, Len(points) + 1), point)

AppendedTo(longer, points, point) ==
  /\ longer \in Seq(Point) /\ Len(longer) = Len(points) + 1
  /\ DOMAIN longer = (DOMAIN points) \cup {Len(points) + 1}
  /\ longer[Len(points) + 1] = point
  /\ \A x \in DOMAIN points : longer[x] = points[x] /\ x # Len(points) + 1

LEMMA PointAppended ==
  ASSUME NEW points \in Seq(Point), NEW point \in Point
  PROVE  AppendedTo(Append(points, point), points, point)
<1>1. /\ Append(points, point) \in Seq(Point) /\ Len(Append(points, point)) = Len(points) + 1
      /\ Len(points) \in Nat
  OBVIOUS
<1>2. \A x \in 1 .. Len(points) : Append(points, point)[x] = points[x]
  OBVIOUS
<1>3. Append(points, point)[Len(points) + 1] = point
  OBVIOUS
<1>4. DOMAIN points = 1 .. Len(points) /\ DOMAIN Append(points, point) = 1 .. Len(points) + 1
  BY <1>1
<1> QED BY <1>1, <1>2, <1>3, <1>4 DEF AppendedTo

LEMMA InsertedKeepsRings ==
  ASSUME NEW points, PointsIntact(points), NEW p \in DOMAIN points, NEW q, q = points[p].next,
         NEW point \in Point, point.next = q, point.prev = p
  PROVE  PointsIntact(Between2(points, p, q, point)) /\ Len(Between2(points, p, q, point)) = Len(points) + 1
<1> DEFINE n == Len(points) + 1
           o1 == SetPrev(points, q, n)
           o2 == SetNext(o1, p, n)
           o3 == Append(o2, point)
<1>1. /\ q \in DOMAIN points /\ points[q].prev = p /\ points[p].next = q
      /\ n \in Nat /\ points \in Seq(Point) /\ p \in Nat /\ q \in Nat
      /\ \A x \in DOMAIN points : x # n
  <2>1. q \in DOMAIN points /\ points[q].prev = p /\ points[p].next = q
    BY LinksInDomain
  <2>2. points \in Seq(Point)
    BY DEF PointsIntact
  <2>3. n \in Nat /\ DOMAIN points \subseteq Nat /\ \A x \in DOMAIN points : x # n
    BY <2>2
  <2> QED BY <2>1, <2>2, <2>3
<1>2. Between2(points, p, q, point) = o3
  BY DEF Between2
<1> HIDE DEF n, o1, o2, o3
<1>3. PrevIs(o1, points, q, n)
  BY <1>1, PrevChanged DEF o1
<1>4. NextIs(o2, o1, p, n)
  <2>1. o1 \in Seq(Point) /\ p \in DOMAIN o1
    BY <1>3 DEF PrevIs
  <2> QED BY <1>1, <2>1, NextChanged DEF o2
<1>5. AppendedTo(o3, o2, point)
  <2>1. o2 \in Seq(Point)
    BY <1>4 DEF NextIs
  <2> QED BY <2>1, PointAppended DEF o3
<1>6. /\ o3 \in Seq(Point) /\ Len(o3) = n /\ DOMAIN o3 = (DOMAIN points) \cup {n}
      /\ \A x \in DOMAIN points : o3[x].next = IF x = p THEN n ELSE points[x].next
      /\ \A x \in DOMAIN points : o3[x].prev = IF x = q THEN n ELSE points[x].prev
      /\ o3[n].next = q /\ o3[n].prev = p
  BY <1>1, <1>3, <1>4, <1>5 DEF NextIs, PrevIs, AppendedTo, n
<1>7. RingsIntactIn(o3)
  <2> SUFFICES ASSUME NEW x \in DOMAIN o3
               PROVE  /\ o3[x].next \in DOMAIN o3 /\ o3[o3[x].next].prev = x
                      /\ o3[x].prev \in DOMAIN o3 /\ o3[o3[x].prev].next = x
    BY DEF RingsIntactIn
  <2>1. CASE x = n
    BY <1>1, <1>6, <2>1
  <2>2. CASE x \in DOMAIN points
    <3>1. /\ points[x].next \in DOMAIN points /\ points[x].prev \in DOMAIN points
          /\ points[points[x].next].prev = x /\ points[points[x].prev].next = x
      BY <2>2, LinksInDomain
    <3>2. o3[x].next \in DOMAIN o3 /\ o3[o3[x].next].prev = x
      BY <1>1, <1>6, <2>2, <3>1
    <3>3. o3[x].prev \in DOMAIN o3 /\ o3[o3[x].prev].next = x
      BY <1>1, <1>6, <2>2, <3>1
    <3> QED BY <3>2, <3>3
  <2> QED BY <1>6, <2>1, <2>2
<1> QED BY <1>2, <1>6, <1>7 DEF PointsIntact, n

LEMMA NewPointType ==
  ASSUME NEW pt \in Place, NEW next \in Nat, NEW prev \in Nat, NEW outrec \in Nat
  PROVE  /\ NewPoint(pt, next, prev, outrec) \in Point
         /\ NewPoint(pt, next, prev, outrec).next = next /\ NewPoint(pt, next, prev, outrec).prev = prev
         /\ NewPoint(pt, next, prev, outrec).outrec = outrec
BY DEF NewPoint, Point

LEMMA PointFields ==
  ASSUME NEW points, PointsIntact(points), NEW p \in DOMAIN points
  PROVE  /\ points[p] \in Point /\ points[p].pt \in Place /\ points[p].outrec \in Nat
         /\ points[p].next \in Nat /\ points[p].prev \in Nat
<1>1. points[p] \in Point
  BY DEF PointsIntact
<1> QED BY <1>1 DEF Point

LEMMA DuplicateAfterKeepsRings ==
  ASSUME NEW points, PointsIntact(points), NEW p \in DOMAIN points
  PROVE  PointsIntact(DuplicateAfter(points, p)) /\ Len(DuplicateAfter(points, p)) = Len(points) + 1
<1> DEFINE q == points[p].next
           point == NewPoint(points[p].pt, q, p, points[p].outrec)
<1>1. /\ points[p].pt \in Place /\ points[p].outrec \in Nat /\ q \in Nat /\ p \in Nat
      /\ points[q].prev = p /\ q \in DOMAIN points
  BY PointFields, LinksInDomain, PointsAreNumbers
<1>2. point \in Point /\ point.next = q /\ point.prev = p
  BY <1>1, NewPointType
<1>3. DuplicateAfter(points, p) = Between2(points, p, q, point)
  BY DEF DuplicateAfter, Between2, SetNext, SetPrev
<1> HIDE DEF point
<1> QED BY <1>2, <1>3, InsertedKeepsRings

\* The two links are set in the other order.
LEMMA EitherOrder ==
  ASSUME NEW points, PointsIntact(points), NEW p \in DOMAIN points, NEW q \in DOMAIN points, NEW n \in Nat
  PROVE  SetPrev(SetNext(points, p, n), q, n) = SetNext(SetPrev(points, q, n), p, n)
<1>1. points \in Seq(Point) /\ points[p] \in Point /\ points[q] \in Point
  BY PointFields DEF PointsIntact
<1> QED BY <1>1 DEF SetPrev, SetNext, Point

LEMMA DuplicateBeforeKeepsRings ==
  ASSUME NEW points, PointsIntact(points), NEW p \in DOMAIN points
  PROVE  /\ PointsIntact(DuplicateBefore(points, p))
         /\ Len(DuplicateBefore(points, p)) = Len(points) + 1
<1> DEFINE s == points[p].prev
           n == Len(points) + 1
           point == NewPoint(points[p].pt, p, s, points[p].outrec)
<1>1. /\ points[p].pt \in Place /\ points[p].outrec \in Nat /\ s \in Nat /\ p \in Nat
      /\ points[s].next = p /\ s \in DOMAIN points /\ n \in Nat
  <2>1. points[p].pt \in Place /\ points[p].outrec \in Nat /\ s \in Nat
    BY PointFields
  <2>2. s \in DOMAIN points /\ points[s].next = p
    BY LinksInDomain
  <2>3. p \in Nat /\ Len(points) \in Nat
    BY PointsAreNumbers
  <2>4. n \in Nat
    BY ONLY <2>3
  <2> HIDE DEF s
  <2> QED BY ONLY <2>1, <2>2, <2>3, <2>4
<1>2. point \in Point /\ point.next = p /\ point.prev = s
  BY <1>1, NewPointType
<1>3. DuplicateBefore(points, p) = Append(SetPrev(SetNext(points, s, n), p, n), point)
  BY DEF DuplicateBefore, SetNext, SetPrev
<1>4. SetPrev(SetNext(points, s, n), p, n) = SetNext(SetPrev(points, p, n), s, n)
  BY <1>1, EitherOrder
<1>5. DuplicateBefore(points, p) = Between2(points, s, p, point)
  BY <1>3, <1>4 DEF Between2
<1> HIDE DEF point, s
<1> QED BY <1>1, <1>2, <1>5, InsertedKeepsRings

LEMMA AloneType ==
  ASSUME NEW points, PointsIntact(points), NEW p \in DOMAIN points
  PROVE  Alone(points, p) \in Point /\ Alone(points, p).next = p /\ Alone(points, p).prev = p
<1>1. points[p] \in Point /\ p \in Nat
  BY PointFields, PointsAreNumbers
<1> QED BY <1>1 DEF Alone, Point, None

LEMMA TakenOutKeepsRings ==
  ASSUME PointsIntact(op), NEW p \in DOMAIN op
  PROVE  PointsIntact(dispose_out_point(p)) /\ Len(dispose_out_point(p)) = Len(op)
<1> DEFINE s == op[p].prev
           b == op[p].next
           point == Alone(op, p)
           o1 == SetNext(op, s, b)
           o2 == SetPrev(o1, b, s)
           o3 == SetPoint(o2, p, point)
<1>1. /\ s \in DOMAIN op /\ b \in DOMAIN op /\ s \in Nat /\ b \in Nat /\ op \in Seq(Point)
      /\ op[s].next = p /\ op[b].prev = p /\ op[p].next = b /\ op[p].prev = s
  BY LinksInDomain, PointFields DEF PointsIntact
<1>2. dispose_out_point(p) = o3
  BY DEF dispose_out_point, SetNext, SetPrev, SetPoint
<1>3. point \in Point /\ point.next = p /\ point.prev = p
  BY AloneType
<1> HIDE DEF o1, o2, o3, s, b, point
<1>4. NextIs(o1, op, s, b)
  BY <1>1, NextChanged DEF o1
<1>5. PrevIs(o2, o1, b, s)
  <2>1. o1 \in Seq(Point) /\ b \in DOMAIN o1
    BY <1>1, <1>4 DEF NextIs
  <2> QED BY <1>1, <2>1, PrevChanged DEF o2
<1>6. PointIs(o3, o2, p, point)
  <2>1. o2 \in Seq(Point) /\ p \in DOMAIN o2
    BY <1>4, <1>5 DEF NextIs, PrevIs
  <2> QED BY <1>3, <2>1, PointChanged DEF o3
<1>7. /\ o3 \in Seq(Point) /\ Len(o3) = Len(op) /\ DOMAIN o3 = DOMAIN op
      /\ \A x \in DOMAIN op : o3[x].next = IF x = p THEN p ELSE IF x = s THEN b ELSE op[x].next
      /\ \A x \in DOMAIN op : o3[x].prev = IF x = p THEN p ELSE IF x = b THEN s ELSE op[x].prev
  BY <1>3, <1>4, <1>5, <1>6 DEF NextIs, PrevIs, PointIs
<1>8. RingsIntactIn(o3)
  <2> SUFFICES ASSUME NEW x \in DOMAIN op
               PROVE  /\ o3[x].next \in DOMAIN op /\ o3[o3[x].next].prev = x
                      /\ o3[x].prev \in DOMAIN op /\ o3[o3[x].prev].next = x
    BY <1>7 DEF RingsIntactIn
  <2>1. /\ op[x].next \in DOMAIN op /\ op[x].prev \in DOMAIN op
        /\ op[op[x].next].prev = x /\ op[op[x].prev].next = x
    BY LinksInDomain
  <2>2. o3[x].next \in DOMAIN op /\ o3[o3[x].next].prev = x
    BY <1>1, <1>7, <2>1
  <2>3. o3[x].prev \in DOMAIN op /\ o3[o3[x].prev].next = x
    BY <1>1, <1>7, <2>1
  <2> QED BY <2>2, <2>3
<1> QED BY <1>2, <1>7, <1>8 DEF PointsIntact

\* The points of a set the walk does not leave are taken out.
WithoutRing(ring) == [p \in DOMAIN op |-> IF p \in ring THEN Alone(op, p) ELSE op[p]]

LEMMA RingTakenOutKeepsRings ==
  ASSUME PointsIntact(op), NEW ring, \A q \in ring : op[q].next \in ring /\ op[q].prev \in ring
  PROVE  PointsIntact(WithoutRing(ring)) /\ Len(WithoutRing(ring)) = Len(op)
<1> DEFINE o == WithoutRing(ring)
<1>1. op \in Seq(Point) /\ Len(op) \in Nat /\ DOMAIN op = 1 .. Len(op)
  BY DEF PointsIntact
<1>2. \A p \in DOMAIN op : Alone(op, p) \in Point /\ Alone(op, p).next = p /\ Alone(op, p).prev = p
  BY AloneType
<1>3. /\ o \in Seq(Point) /\ Len(o) = Len(op) /\ DOMAIN o = DOMAIN op
  <2>1. \A p \in DOMAIN op : op[p] \in Point
    BY <1>1
  <2>2. o \in [1 .. Len(op) -> Point]
    BY <1>1, <1>2, <2>1 DEF WithoutRing
  <2> HIDE DEF o
  <2> QED BY <1>1, <2>2
<1>4. /\ \A x \in DOMAIN op : o[x].next = IF x \in ring THEN x ELSE op[x].next
      /\ \A x \in DOMAIN op : o[x].prev = IF x \in ring THEN x ELSE op[x].prev
  BY <1>2 DEF WithoutRing
<1> HIDE DEF o
<1>5. RingsIntactIn(o)
  <2> SUFFICES ASSUME NEW x \in DOMAIN op
               PROVE  /\ o[x].next \in DOMAIN op /\ o[o[x].next].prev = x
                      /\ o[x].prev \in DOMAIN op /\ o[o[x].prev].next = x
    BY <1>3 DEF RingsIntactIn
  <2>1. /\ op[x].next \in DOMAIN op /\ op[x].prev \in DOMAIN op
        /\ op[op[x].next].prev = x /\ op[op[x].prev].next = x
    BY LinksInDomain
  <2>2. o[x].next \in DOMAIN op /\ o[o[x].next].prev = x
    BY <1>4, <2>1
  <2>3. o[x].prev \in DOMAIN op /\ o[o[x].prev].next = x
    BY <1>4, <2>1
  <2> QED BY <2>2, <2>3
<1> QED BY <1>3, <1>5 DEF PointsIntact, o

LEMMA DisposedKeepsRings ==
  ASSUME PointsIntact(op), NEW r, dispose_out_points(r)
  PROVE  PointsIntact(op') /\ Len(op') = Len(op) /\ rec' = [rec EXCEPT ![r].pts = None]
<1> DEFINE ring == RingOf(op, rec[r].pts)
<1>1. \A q \in ring : op[q].next \in ring /\ op[q].prev \in ring
  BY DEF dispose_out_points, WalkReturns
<1>2. op' = WithoutRing(ring) /\ rec' = [rec EXCEPT ![r].pts = None]
  BY DEF dispose_out_points, WithoutRing
<1> HIDE DEF ring
<1>3. PointsIntact(WithoutRing(ring)) /\ Len(WithoutRing(ring)) = Len(op)
  BY <1>1, RingTakenOutKeepsRings
<1> QED BY <1>2, <1>3

\* A point names the record it named or the record r.
OutrecsOr(changed, points, r) == \A x \in DOMAIN points : changed[x].outrec \in {r, points[x].outrec}

LEMMA FixedPointsKeepRings ==
  ASSUME NEW points, PointsIntact(points), NEW records, NEW r \in Nat
  PROVE  /\ SameLinks(fix_output_record_points(points, records, r), points)
         /\ OutrecsOr(fix_output_record_points(points, records, r), points, r)
<1> DEFINE ring == RingOf(points, records[r].pts)
           o == fix_output_record_points(points, records, r)
<1>1. o = [p \in DOMAIN points |-> IF p \in ring THEN [points[p] EXCEPT !.outrec = r] ELSE points[p]]
  BY DEF fix_output_record_points
<1> HIDE DEF ring, o
<1>2. points \in Seq(Point) /\ Len(points) \in Nat /\ DOMAIN points = 1 .. Len(points)
  BY DEF PointsIntact
<1>3. \A p \in DOMAIN points : /\ points[p] \in Point
                               /\ [points[p] EXCEPT !.outrec = r] \in Point
                               /\ [points[p] EXCEPT !.outrec = r].next = points[p].next
                               /\ [points[p] EXCEPT !.outrec = r].prev = points[p].prev
                               /\ [points[p] EXCEPT !.outrec = r].outrec = r
  <2> SUFFICES ASSUME NEW p \in DOMAIN points
               PROVE  /\ points[p] \in Point
                      /\ [points[p] EXCEPT !.outrec = r] \in Point
                      /\ [points[p] EXCEPT !.outrec = r].next = points[p].next
                      /\ [points[p] EXCEPT !.outrec = r].prev = points[p].prev
                      /\ [points[p] EXCEPT !.outrec = r].outrec = r
    OBVIOUS
  <2>1. points[p] \in Point
    BY <1>2
  <2> QED BY <2>1 DEF Point
<1>4. o \in [1 .. Len(points) -> Point]
  BY <1>1, <1>2, <1>3
<1>5. o \in Seq(Point) /\ Len(o) = Len(points) /\ DOMAIN o = DOMAIN points
  BY <1>2, <1>4
<1>6. \A x \in DOMAIN points : o[x].next = points[x].next /\ o[x].prev = points[x].prev
  BY <1>1, <1>3
<1>7. SameLinks(o, points)
  BY <1>5, <1>6 DEF SameLinks
<1>8. OutrecsOr(o, points, r)
  BY <1>1, <1>3 DEF OutrecsOr
<1> QED BY <1>7, <1>8 DEF o

LEMMA OutrecChangeKeepsLinks ==
  ASSUME NEW points, PointsIntact(points), NEW p, NEW r \in Nat
  PROVE  /\ SameLinks([points EXCEPT ![p].outrec = r], points)
         /\ OutrecsOr([points EXCEPT ![p].outrec = r], points, r)
<1>1. points \in Seq(Point)
  BY DEF PointsIntact
<1>2. CASE p \in DOMAIN points
  <2> DEFINE point == [points[p] EXCEPT !.outrec = r]
  <2>1. points[p] \in Point
    BY <1>1, <1>2
  <2>2. /\ point \in Point /\ point.next = points[p].next /\ point.prev = points[p].prev
        /\ point.outrec = r
    BY <2>1 DEF Point
  <2>3. PointIs(SetPoint(points, p, point), points, p, point)
    <3> HIDE DEF point
    <3> QED BY <1>1, <1>2, <2>2, PointChanged
  <2>4. [points EXCEPT ![p].outrec = r] = SetPoint(points, p, point)
    BY DEF SetPoint
  <2> HIDE DEF point
  <2> QED BY <2>2, <2>3, <2>4 DEF SameLinks, PointIs, OutrecsOr
<1>3. CASE p \notin DOMAIN points
  <2>1. [points EXCEPT ![p].outrec = r] = points
    BY <1>1, <1>3
  <2> QED BY <1>1, <2>1 DEF SameLinks, OutrecsOr
<1> QED BY <1>2, <1>3

-----------------------------------------------------------------------------
(* Rings that cross themselves.                                            *)

LEMMA SignOfZero ==
  ASSUME NEW v \in Int
  PROVE  Sign(v) \in Int /\ (v = 0 => Sign(v) = 0)
BY DEF Sign

LEMMA CrossIsNumber ==
  ASSUME NEW a \in Place, NEW b \in Place, NEW c \in Place
  PROVE  cross_product_sign(a, b, c) \in Int
BY SignOfZero DEF cross_product_sign, Place

LEMMA CrossOfNothing ==
  ASSUME NEW a \in Place, NEW b \in Place, NEW c \in Place, a = b \/ b = c \/ a = c
  PROVE  cross_product_sign(a, b, c) = 0
<1>1. a.x \in Int /\ a.y \in Int /\ b.x \in Int /\ b.y \in Int /\ c.x \in Int /\ c.y \in Int
  BY DEF Place
<1> DEFINE v == (b.x - a.x) * (c.y - b.y) - (b.y - a.y) * (c.x - b.x)
<1>2. v \in Int
  BY <1>1
<1>3. v = 0
  <2>1. CASE a = b
    BY <1>1, <2>1
  <2>2. CASE b = c
    BY <1>1, <2>2
  <2>3. CASE a = c
    <3> DEFINE m == b.x - a.x
               n == b.y - a.y
    <3>1. m \in Int /\ n \in Int /\ c.y - b.y = - n /\ c.x - b.x = - m
      BY <1>1, <2>3
    <3>2. v = m * (- n) - n * (- m)
      BY <3>1
    <3> HIDE DEF m, n, v
    <3>3. m * (- n) - n * (- m) = 0
      BY ONLY <3>1
    <3> QED BY <3>2, <3>3
  <2> QED BY <2>1, <2>2, <2>3
<1>4. cross_product_sign(a, b, c) = Sign(v)
  BY DEF cross_product_sign
<1> HIDE DEF v
<1> QED BY <1>2, <1>3, <1>4, SignOfZero

LEMMA CrossingPlacesDiffer ==
  ASSUME NEW a \in Place, NEW b \in Place, NEW c \in Place, NEW d \in Place,
         ProperlyIntersect(a, b, c, d)
  PROVE  a # b /\ a # c /\ a # d /\ b # c /\ b # d
<1> DEFINE u == cross_product_sign(a, b, c)
           v == cross_product_sign(a, b, d)
<1>1. u \in Int /\ v \in Int
  BY CrossIsNumber
<1>2. u * v < 0
  BY DEF ProperlyIntersect
<1>3. u # 0 /\ v # 0
  <2> HIDE DEF u, v
  <2> QED BY <1>1, <1>2
<1> QED BY <1>3, CrossOfNothing

LEMMA IntersectionIsPlace ==
  ASSUME NEW a \in Place, NEW b \in Place, NEW c \in Place, NEW d \in Place
  PROVE  line_intersection_point(a, b, c, d) \in Place
<1>1. /\ a.x \in Int /\ a.y \in Int /\ b.x \in Int /\ b.y \in Int
      /\ c.x \in Int /\ c.y \in Int /\ d.x \in Int /\ d.y \in Int
  BY DEF Place
<1> DEFINE determinant == (b.y - a.y) * (d.x - c.x) - (d.y - c.y) * (b.x - a.x)
           ratio == Sign(determinant) * ((a.x - c.x) * (d.y - c.y) - (a.y - c.y) * (d.x - c.x))
           size == Sign(determinant) * determinant
           n1 == a.x * size + ratio * (b.x - a.x)
           n2 == a.y * size + ratio * (b.y - a.y)
<1>2. determinant \in Int
  BY <1>1
<1>3. Sign(determinant) \in Int
  <2> HIDE DEF determinant
  <2> QED BY <1>2, SignOfZero
<1>4. ratio \in Int /\ size \in Int
  <2>1. (a.x - c.x) * (d.y - c.y) - (a.y - c.y) * (d.x - c.x) \in Int
    BY <1>1
  <2> HIDE DEF determinant
  <2> QED BY <1>2, <1>3, <2>1
<1>5. n1 \in Int /\ n2 \in Int
  <2> HIDE DEF ratio, size
  <2> QED BY <1>1, <1>4
<1>6. line_intersection_point(a, b, c, d)
        = IF ratio <= 0 THEN a ELSE IF ratio >= size THEN b
          ELSE [x |-> Truncated(n1, size), y |-> Truncated(n2, size)]
  BY DEF line_intersection_point
<1> HIDE DEF determinant, ratio, size, n1, n2
<1>7. CASE ratio <= 0 \/ ratio >= size
  BY <1>6, <1>7
<1>8. CASE ~ (ratio <= 0 \/ ratio >= size)
  <2>1. size > 0
    BY <1>4, <1>8
  <2>2. Truncated(n1, size) \in Int /\ Truncated(n2, size) \in Int
    BY <1>4, <1>5, <2>1 DEF Truncated
  <2> QED BY <1>6, <1>8, <2>2 DEF Place
<1> QED BY <1>7, <1>8

\* The four points of a crossing at p follow each other and are different.
CornersDiffer(p) ==
  LET s == op[p].prev
      q == op[p].next
      a == Ahead(p)
  IN  /\ s \in DOMAIN op /\ q \in DOMAIN op /\ a \in DOMAIN op
      /\ s # p /\ s # q /\ s # a /\ p # q /\ p # a /\ q # a
      /\ op[s].next = p /\ op[q].prev = p /\ op[q].next = a /\ op[a].prev = q

LEMMA CrossingCornersDiffer ==
  ASSUME PointsIntact(op), NEW p \in DOMAIN op, CrossesNextButOne(p)
  PROVE  CornersDiffer(p)
<1> DEFINE s == op[p].prev
           q == op[p].next
           a == Ahead(p)
<1>1. /\ s \in DOMAIN op /\ q \in DOMAIN op /\ op[s].next = p /\ op[q].prev = p
  BY LinksInDomain
<1>2. a \in DOMAIN op /\ op[q].next = a /\ op[a].prev = q
  BY <1>1, LinksInDomain DEF Ahead
<1>3. op[s].pt \in Place /\ op[p].pt \in Place /\ op[q].pt \in Place /\ op[a].pt \in Place
  BY <1>1, <1>2, PointFields
<1>4. ProperlyIntersect(op[s].pt, op[p].pt, op[q].pt, op[a].pt)
  BY DEF CrossesNextButOne
<1>5. /\ op[s].pt # op[p].pt /\ op[s].pt # op[q].pt /\ op[s].pt # op[a].pt
      /\ op[p].pt # op[q].pt /\ op[p].pt # op[a].pt
  BY <1>3, <1>4, CrossingPlacesDiffer
<1>6. q # a
  <2> SUFFICES ASSUME q = a PROVE FALSE
    OBVIOUS
  <2>1. op[q].prev = q
    BY <1>2
  <2> QED BY <1>1, <1>5, <2>1
<1> HIDE DEF s, q, a
<1>7. s # p /\ s # q /\ s # a /\ p # q /\ p # a
  BY <1>5
<1> QED BY <1>1, <1>2, <1>6, <1>7 DEF CornersDiffer, s, q, a

\* The ring passes over p and the point after it.
Skips(points, p) ==
  LET s == op[p].prev
      a == Ahead(p)
      n == Len(op) + 1
  IN  /\ points \in Seq(Point) /\ (DOMAIN op) \subseteq DOMAIN points
      /\ \A x \in DOMAIN op : x # s => points[x].next = op[x].next
      /\ \A x \in DOMAIN op : x # a => points[x].prev = op[x].prev
      /\ \/ /\ Len(points) = Len(op) /\ DOMAIN points = DOMAIN op
            /\ points[s].next = a /\ points[a].prev = s
         \/ /\ Len(points) = n /\ DOMAIN points = (DOMAIN op) \cup {n}
            /\ points[s].next = n /\ points[a].prev = n
            /\ points[n].next = a /\ points[n].prev = s

LEMMA ShortenedRingSkips ==
  ASSUME PointsIntact(op), NEW p \in DOMAIN op, p = Top.current, CrossesNextButOne(p)
  PROVE  Skips(ShortenedRing, p)
<1> DEFINE s == op[p].prev
           q == op[p].next
           a == Ahead(p)
           n == Len(op) + 1
<1>1. CornersDiffer(p)
  BY CrossingCornersDiffer
<1>2. /\ s \in DOMAIN op /\ q \in DOMAIN op /\ a \in DOMAIN op /\ s # a /\ op \in Seq(Point)
      /\ s \in Nat /\ a \in Nat /\ n \in Nat /\ \A x \in DOMAIN op : x # n
  <2>1. s \in DOMAIN op /\ q \in DOMAIN op /\ a \in DOMAIN op /\ s # a
    BY <1>1 DEF CornersDiffer
  <2>2. op \in Seq(Point)
    BY DEF PointsIntact
  <2>3. n \in Nat /\ DOMAIN op \subseteq Nat /\ \A x \in DOMAIN op : x # n
    BY <2>2
  <2> HIDE DEF s, a, n
  <2> QED BY <2>1, <2>2, <2>3
<1>3. Crossing \in Place /\ op[s].outrec \in Nat
  <2>1. op[s].pt \in Place /\ op[p].pt \in Place /\ op[q].pt \in Place /\ op[a].pt \in Place
    BY <1>2, PointFields
  <2>2. Crossing = line_intersection_point(op[s].pt, op[p].pt, op[q].pt, op[a].pt)
    BY DEF Crossing
  <2>3. op[s].outrec \in Nat
    BY <1>2, PointFields
  <2> QED BY <2>1, <2>2, <2>3, IntersectionIsPlace
<1>4. CASE Crossing \in {op[s].pt, op[a].pt}
  <2> DEFINE o1 == SetPrev(op, a, s)
             o2 == SetNext(o1, s, a)
  <2>1. ShortenedRing = o2
    BY <1>4 DEF ShortenedRing, SetNext, SetPrev
  <2> HIDE DEF o1, o2, s, a, n
  <2>2. PrevIs(o1, op, a, s)
    BY <1>2, PrevChanged DEF o1
  <2>3. NextIs(o2, o1, s, a)
    <3>1. o1 \in Seq(Point) /\ s \in DOMAIN o1
      BY <1>2, <2>2 DEF PrevIs
    <3> QED BY <1>2, <3>1, NextChanged DEF o2
  <2>4. /\ o2 \in Seq(Point) /\ Len(o2) = Len(op) /\ DOMAIN o2 = DOMAIN op
        /\ o2[s].next = a /\ o2[a].prev = s
        /\ \A x \in DOMAIN op : x # s => o2[x].next = op[x].next
        /\ \A x \in DOMAIN op : x # a => o2[x].prev = op[x].prev
    BY <1>2, <2>2, <2>3 DEF NextIs, PrevIs
  <2> QED BY <2>1, <2>4 DEF Skips, s, a
<1>5. CASE ~ (Crossing \in {op[s].pt, op[a].pt})
  <2> DEFINE point == NewPoint(Crossing, a, s, op[s].outrec)
             o1 == SetPrev(op, a, n)
             o2 == SetNext(o1, s, n)
             o3 == Append(o2, point)
  <2>1. ShortenedRing = o3
    BY <1>5 DEF ShortenedRing, SetNext, SetPrev
  <2>2. point \in Point /\ point.next = a /\ point.prev = s
    <3>1. s \in Nat /\ a \in Nat
      BY <1>2
    <3>2. ASSUME NEW pt \in Place, NEW r \in Nat
          PROVE  /\ NewPoint(pt, a, s, r) \in Point
                 /\ NewPoint(pt, a, s, r).next = a /\ NewPoint(pt, a, s, r).prev = s
      BY <3>1, NewPointType
    <3> QED BY <1>3, <3>2
  <2> HIDE DEF o1, o2, o3, s, a, n, point
  <2>3. PrevIs(o1, op, a, n)
    BY <1>2, PrevChanged DEF o1
  <2>4. NextIs(o2, o1, s, n)
    <3>1. o1 \in Seq(Point) /\ s \in DOMAIN o1
      BY <1>2, <2>3 DEF PrevIs
    <3> QED BY <1>2, <3>1, NextChanged DEF o2
  <2>5. AppendedTo(o3, o2, point)
    <3>1. o2 \in Seq(Point)
      BY <2>4 DEF NextIs
    <3> QED BY <2>2, <3>1, PointAppended DEF o3
  <2>6. /\ o3 \in Seq(Point) /\ Len(o3) = Len(op) + 1 /\ DOMAIN o3 = (DOMAIN op) \cup {Len(op) + 1}
        /\ o3[Len(op) + 1] = point
        /\ \A x \in DOMAIN op : o3[x] = o2[x]
    BY <2>3, <2>4, <2>5 DEF NextIs, PrevIs, AppendedTo
  <2>7. /\ o3[s].next = n /\ o3[a].prev = n
        /\ \A x \in DOMAIN op : x # s => o3[x].next = op[x].next
        /\ \A x \in DOMAIN op : x # a => o3[x].prev = op[x].prev
    BY <1>2, <2>3, <2>4, <2>6 DEF NextIs, PrevIs
  <2> QED BY <2>1, <2>2, <2>6, <2>7 DEF Skips, s, a, n
<1> QED BY <1>4, <1>5

\* The new place of the ring after the two points are gone or in a ring of their own.
LEMMA SkippedPlaces ==
  ASSUME PointsIntact(op), NEW p \in DOMAIN op, CornersDiffer(p), NEW points, Skips(points, p),
         NEW x \in DOMAIN points, x # p, x # op[p].next
  PROVE  /\ points[x].next \in DOMAIN points \ {p, op[p].next} /\ points[points[x].next].prev = x
         /\ points[x].prev \in DOMAIN points \ {p, op[p].next} /\ points[points[x].prev].next = x
<1> DEFINE s == op[p].prev
           q == op[p].next
           a == Ahead(p)
           n == Len(op) + 1
<1>1. /\ s \in DOMAIN op /\ q \in DOMAIN op /\ a \in DOMAIN op
      /\ s # p /\ s # q /\ s # a /\ p # q /\ p # a /\ q # a
      /\ op[s].next = p /\ op[q].prev = p /\ op[q].next = a /\ op[a].prev = q
      /\ op[p].next = q /\ op[p].prev = s
  BY DEF CornersDiffer
<1>2. \A y \in DOMAIN op : y # n
  BY DEF PointsIntact
<1>3. ASSUME NEW y \in DOMAIN op
      PROVE  /\ op[y].next \in DOMAIN op /\ op[op[y].next].prev = y
             /\ op[y].prev \in DOMAIN op /\ op[op[y].prev].next = y
  BY LinksInDomain
<1>4. /\ (DOMAIN op) \subseteq DOMAIN points
      /\ \A y \in DOMAIN op : y # s => points[y].next = op[y].next
      /\ \A y \in DOMAIN op : y # a => points[y].prev = op[y].prev
      /\ \/ /\ DOMAIN points = DOMAIN op
            /\ points[s].next = a /\ points[a].prev = s
         \/ /\ DOMAIN points = (DOMAIN op) \cup {n}
            /\ points[s].next = n /\ points[a].prev = n
            /\ points[n].next = a /\ points[n].prev = s
  BY DEF Skips
<1> HIDE DEF s, q, a, n
<1>5. x # q
  BY DEF q
<1>6. CASE x \in DOMAIN op
  <2>1. points[x].next \in DOMAIN points \ {p, q} /\ points[points[x].next].prev = x
    <3>1. CASE x = s
      BY <1>1, <1>2, <1>4, <3>1
    <3>2. CASE x # s
      <4>1. /\ op[x].next \in DOMAIN op /\ op[op[x].next].prev = x /\ points[x].next = op[x].next
            /\ op[x].next # p /\ op[x].next # q /\ op[x].next # a
        <5>1. op[x].next \in DOMAIN op /\ op[op[x].next].prev = x
          BY <1>3, <1>6
        <5>2. points[x].next = op[x].next
          BY <1>4, <1>6, <3>2
        <5>3. op[x].next # p /\ op[x].next # q /\ op[x].next # a
          BY <1>1, <1>5, <3>2, <5>1
        <5> QED BY <5>1, <5>2, <5>3
      <4>2. points[op[x].next].prev = op[op[x].next].prev
        BY <1>4, <4>1
      <4> QED BY <1>4, <4>1, <4>2
    <3> QED BY <3>1, <3>2
  <2>2. points[x].prev \in DOMAIN points \ {p, q} /\ points[points[x].prev].next = x
    <3>1. CASE x = a
      BY <1>1, <1>2, <1>4, <3>1
    <3>2. CASE x # a
      <4>1. /\ op[x].prev \in DOMAIN op /\ op[op[x].prev].next = x /\ points[x].prev = op[x].prev
            /\ op[x].prev # p /\ op[x].prev # q /\ op[x].prev # s
        BY <1>1, <1>3, <1>4, <1>5, <1>6, <3>2
      <4>2. points[op[x].prev].next = op[op[x].prev].next
        BY <1>4, <4>1
      <4> QED BY <1>4, <4>1, <4>2
    <3> QED BY <3>1, <3>2
  <2> QED BY <2>1, <2>2 DEF q
<1>7. CASE x \notin DOMAIN op
  <2>1. x = n /\ points[n].next = a /\ points[n].prev = s /\ points[s].next = n /\ points[a].prev = n
    BY <1>4, <1>7
  <2>2. /\ points[x].next \in DOMAIN points \ {p, q} /\ points[points[x].next].prev = x
        /\ points[x].prev \in DOMAIN points \ {p, q} /\ points[points[x].prev].next = x
    BY <1>1, <1>4, <2>1
  <2> QED BY <2>2 DEF q
<1> QED BY <1>6, <1>7

Dropped(points, p) == [points EXCEPT ![p] = Alone(op, p), ![op[p].next] = Alone(op, op[p].next)]

LEMMA DroppedKeepsRings ==
  ASSUME PointsIntact(op), NEW p \in DOMAIN op, CornersDiffer(p), NEW points, Skips(points, p)
  PROVE  PointsIntact(Dropped(points, p)) /\ Len(Dropped(points, p)) = Len(points)
<1> DEFINE q == op[p].next
           o1 == SetPoint(points, p, Alone(op, p))
           o2 == SetPoint(o1, q, Alone(op, q))
<1>1. /\ points \in Seq(Point) /\ p \in DOMAIN points /\ q \in DOMAIN points /\ q \in DOMAIN op
      /\ p # q
  BY DEF CornersDiffer, Skips
<1>2. /\ Alone(op, p) \in Point /\ Alone(op, p).next = p /\ Alone(op, p).prev = p
      /\ Alone(op, q) \in Point /\ Alone(op, q).next = q /\ Alone(op, q).prev = q
  BY <1>1, AloneType
<1>3. Dropped(points, p) = o2
  BY DEF Dropped, SetPoint
<1> HIDE DEF o1, o2
<1>4. PointIs(o1, points, p, Alone(op, p))
  BY <1>1, <1>2, PointChanged DEF o1
<1>5. PointIs(o2, o1, q, Alone(op, q))
  <2>1. o1 \in Seq(Point) /\ q \in DOMAIN o1
    BY <1>1, <1>4 DEF PointIs
  <2> QED BY <1>2, <2>1, PointChanged DEF o2
<1>6. /\ o2 \in Seq(Point) /\ Len(o2) = Len(points) /\ DOMAIN o2 = DOMAIN points
      /\ o2[p] = Alone(op, p) /\ o2[q] = Alone(op, q)
      /\ \A x \in DOMAIN points : x \notin {p, q} => o2[x] = points[x]
  BY <1>1, <1>4, <1>5 DEF PointIs
<1>7. RingsIntactIn(o2)
  <2> SUFFICES ASSUME NEW x \in DOMAIN points
               PROVE  /\ o2[x].next \in DOMAIN points /\ o2[o2[x].next].prev = x
                      /\ o2[x].prev \in DOMAIN points /\ o2[o2[x].prev].next = x
    BY <1>6 DEF RingsIntactIn
  <2>1. CASE x \in {p, q}
    BY <1>2, <1>6, <2>1
  <2>2. CASE x \notin {p, q}
    <3>0. x # p /\ x # op[p].next
      BY <2>2
    <3>1. /\ points[x].next \in DOMAIN points \ {p, q} /\ points[points[x].next].prev = x
          /\ points[x].prev \in DOMAIN points \ {p, q} /\ points[points[x].prev].next = x
      BY <3>0, SkippedPlaces
    <3> HIDE DEF q
    <3> QED BY <1>6, <2>2, <3>1
  <2> QED BY <2>1, <2>2
<1> QED BY <1>3, <1>6, <1>7 DEF PointsIntact

LEMMA SplitOffKeepsRings ==
  ASSUME PointsIntact(op), NEW p \in DOMAIN op, p = Top.current, CrossesNextButOne(p),
         NEW points, Skips(points, p), NEW split \in Nat
  PROVE  /\ PointsIntact(WithSplitOff(points, split))
         /\ Len(WithSplitOff(points, split)) = Len(points) + 1
<1> DEFINE q == op[p].next
           n == Len(points) + 1
           first == [points[p] EXCEPT !.outrec = split, !.prev = n]
           other == [points[q] EXCEPT !.outrec = split, !.next = n]
           point == NewPoint(Crossing, p, q, split)
           o1 == SetPoint(points, p, first)
           o2 == SetPoint(o1, q, other)
           o3 == Append(o2, point)
<1>0. CornersDiffer(p)
  BY CrossingCornersDiffer
<1>1. /\ points \in Seq(Point) /\ p \in DOMAIN points /\ q \in DOMAIN points /\ q \in DOMAIN op
      /\ p # q /\ points[p].next = q /\ points[q].prev = p
  BY <1>0 DEF CornersDiffer, Skips
<1>2. /\ n \in Nat /\ p \in Nat /\ q \in Nat /\ points[p] \in Point /\ points[q] \in Point
      /\ \A x \in DOMAIN points : x # n
  <2> HIDE DEF q
  <2> QED BY <1>1
<1>3. /\ first \in Point /\ first.next = q /\ first.prev = n
      /\ other \in Point /\ other.next = n /\ other.prev = p
  <2> HIDE DEF q, n
  <2> QED BY <1>1, <1>2 DEF Point
<1>4. point \in Point /\ point.next = p /\ point.prev = q
  <2>1. op[op[p].prev].pt \in Place /\ op[p].pt \in Place /\ op[q].pt \in Place /\ op[Ahead(p)].pt \in Place
    BY <1>0, PointFields DEF CornersDiffer
  <2>2. Crossing = line_intersection_point(op[op[p].prev].pt, op[p].pt, op[q].pt, op[Ahead(p)].pt)
    BY DEF Crossing
  <2>3. Crossing \in Place
    BY <2>1, <2>2, IntersectionIsPlace
  <2> HIDE DEF q
  <2> QED BY <1>2, <2>3, NewPointType
<1>5. WithSplitOff(points, split) = o3
  BY DEF WithSplitOff, SetPoint
<1> HIDE DEF o1, o2, o3, first, other, point, n
<1>6. PointIs(o1, points, p, first)
  BY <1>1, <1>3, PointChanged DEF o1
<1>7. PointIs(o2, o1, q, other)
  <2>1. o1 \in Seq(Point) /\ q \in DOMAIN o1
    BY <1>1, <1>6 DEF PointIs
  <2> QED BY <1>3, <2>1, PointChanged DEF o2
<1>8. AppendedTo(o3, o2, point)
  <2>1. o2 \in Seq(Point)
    BY <1>7 DEF PointIs
  <2> QED BY <1>4, <2>1, PointAppended DEF o3
<1>9. /\ o3 \in Seq(Point) /\ Len(o3) = n /\ DOMAIN o3 = (DOMAIN points) \cup {n}
      /\ o3[p] = first /\ o3[q] = other /\ o3[n] = point
      /\ \A x \in DOMAIN points : x \notin {p, q} => o3[x] = points[x]
  BY <1>1, <1>6, <1>7, <1>8 DEF PointIs, AppendedTo, n
<1>10. RingsIntactIn(o3)
  <2> SUFFICES ASSUME NEW x \in DOMAIN o3
               PROVE  /\ o3[x].next \in DOMAIN o3 /\ o3[o3[x].next].prev = x
                      /\ o3[x].prev \in DOMAIN o3 /\ o3[o3[x].prev].next = x
    BY DEF RingsIntactIn
  <2>1. CASE x \in {p, q, n}
    <3> HIDE DEF q
    <3> QED BY <1>1, <1>3, <1>4, <1>9, <2>1
  <2>2. CASE x \notin {p, q, n}
    <3>0. x \in DOMAIN points /\ x # p /\ x # op[p].next
      BY <1>9, <2>2
    <3>1. /\ points[x].next \in DOMAIN points \ {p, q} /\ points[points[x].next].prev = x
          /\ points[x].prev \in DOMAIN points \ {p, q} /\ points[points[x].prev].next = x
      BY <1>0, <3>0, SkippedPlaces
    <3> HIDE DEF q
    <3> QED BY <1>9, <2>2, <3>0, <3>1
  <2> QED BY <2>1, <2>2
<1> QED BY <1>5, <1>9, <1>10 DEF PointsIntact, n

-----------------------------------------------------------------------------
(* Output records.                                                         *)

Sequence(s) == s \in Seq(Range(s))

LEMMA SequenceOf ==
  ASSUME NEW S, NEW s \in Seq(S)
  PROVE  Sequence(s)
<1>1. s \in [1 .. Len(s) -> S] /\ Len(s) \in Nat
  OBVIOUS
<1>2. s \in [1 .. Len(s) -> Range(s)]
  BY <1>1 DEF Range
<1> QED BY <1>1, <1>2 DEF Sequence

LEMMA SequenceType ==
  ASSUME NEW s, Sequence(s)
  PROVE  Len(s) \in Nat /\ DOMAIN s = 1 .. Len(s)
BY DEF Sequence

LEMMA SequenceChanged ==
  ASSUME NEW s, Sequence(s), NEW i \in DOMAIN s, NEW v
  PROVE  /\ Sequence([s EXCEPT ![i] = v]) /\ Len([s EXCEPT ![i] = v]) = Len(s)
         /\ DOMAIN [s EXCEPT ![i] = v] = DOMAIN s
         /\ \A x \in DOMAIN s : [s EXCEPT ![i] = v][x] = IF x = i THEN v ELSE s[x]
<1> DEFINE S == Range(s) \cup {v}
<1>1. s \in Seq(S) /\ i \in 1 .. Len(s) /\ v \in S
  BY DEF Sequence
<1> HIDE DEF S
<1>2. [s EXCEPT ![i] = v] \in Seq(S) /\ Len([s EXCEPT ![i] = v]) = Len(s)
  BY <1>1, ExceptSeq
<1> QED BY <1>1, <1>2, SequenceOf

LEMMA SequenceAppended ==
  ASSUME NEW s, Sequence(s), NEW v
  PROVE  /\ Sequence(Append(s, v)) /\ Len(Append(s, v)) = Len(s) + 1
         /\ DOMAIN Append(s, v) = 1 .. Len(s) + 1
         /\ Append(s, v)[Len(s) + 1] = v
         /\ \A x \in DOMAIN s : Append(s, v)[x] = s[x]
<1> DEFINE S == Range(s) \cup {v}
<1>1. s \in Seq(S) /\ v \in S
  BY DEF Sequence
<1> HIDE DEF S
<1>2. Append(s, v) \in Seq(S) /\ Len(Append(s, v)) = Len(s) + 1
  BY <1>1
<1>3. /\ DOMAIN Append(s, v) = 1 .. Len(s) + 1 /\ Append(s, v)[Len(s) + 1] = v
      /\ \A x \in DOMAIN s : Append(s, v)[x] = s[x]
  BY <1>1
<1> QED BY <1>2, <1>3, SequenceOf

Fields == {"owner", "has_edges", "pts", "splits", "recursive_split", "bounds", "polygon_node"}

\* A record among n of them, with m points.
RecordIs(record, n, m) ==
  /\ DOMAIN record = Fields
  /\ record.owner \in 0 .. n
  /\ record.pts \in 0 .. m
  /\ record.splits \in Seq(1 .. n)

RecordsAre(records, m) ==
  /\ Sequence(records)
  /\ \A r \in DOMAIN records : RecordIs(records[r], Len(records), m)

SetField(records, r, f, v) == [records EXCEPT ![r][f] = v]

FieldIs(changed, records, r, f, v) ==
  /\ Len(changed) = Len(records) /\ DOMAIN changed = DOMAIN records
  /\ \A x \in DOMAIN records : \A g \in Fields :
       changed[x][g] = IF x = r /\ g = f THEN v ELSE records[x][g]

\* The value can be in the field of one of n records.
Fits(f, v, n, m) ==
  /\ f = "owner" => v \in 0 .. n
  /\ f = "pts" => v \in 0 .. m
  /\ f = "splits" => v \in Seq(1 .. n)

LEMMA FieldSet ==
  ASSUME NEW m \in Nat, NEW records, RecordsAre(records, m), NEW r \in DOMAIN records,
         NEW f \in Fields, NEW v, Fits(f, v, Len(records), m)
  PROVE  RecordsAre(SetField(records, r, f, v), m) /\ FieldIs(SetField(records, r, f, v), records, r, f, v)
<1> DEFINE n == Len(records)
           record == [records[r] EXCEPT ![f] = v]
           changed == [records EXCEPT ![r] = record]
<1>1. Sequence(records) /\ \A x \in DOMAIN records : RecordIs(records[x], n, m)
  BY DEF RecordsAre
<1>2. changed = SetField(records, r, f, v)
  BY DEF SetField
<1>3. DOMAIN record = Fields /\ \A g \in Fields : record[g] = IF g = f THEN v ELSE records[r][g]
  BY <1>1 DEF RecordIs
<1> HIDE DEF record
<1>4. /\ Sequence(changed) /\ Len(changed) = Len(records) /\ DOMAIN changed = DOMAIN records
      /\ \A x \in DOMAIN records : changed[x] = IF x = r THEN record ELSE records[x]
  BY <1>1, SequenceChanged
<1> HIDE DEF changed
<1>5. FieldIs(changed, records, r, f, v)
  BY <1>3, <1>4 DEF FieldIs
<1>6. RecordIs(record, n, m)
  <2>1. RecordIs(records[r], n, m) /\ "owner" \in Fields /\ "pts" \in Fields /\ "splits" \in Fields
    BY <1>1 DEF Fields
  <2> QED BY <1>3, <2>1 DEF RecordIs, Fits
<1> QED BY <1>1, <1>2, <1>4, <1>5, <1>6 DEF RecordsAre

LEMMA SequenceIn ==
  ASSUME NEW S, NEW T, S \subseteq T, NEW s \in Seq(S)
  PROVE  s \in Seq(T)
OBVIOUS

LEMMA MorePoints ==
  ASSUME NEW m \in Nat, NEW k \in Nat, m <= k, NEW records, RecordsAre(records, m)
  PROVE  RecordsAre(records, k)
BY DEF RecordsAre, RecordIs

LEMMA RecordAppended ==
  ASSUME NEW m \in Nat, NEW records, RecordsAre(records, m), NEW pts \in 0 .. m,
         NEW owner \in 0 .. Len(records) + 1
  PROVE  /\ RecordsAre(Append(records, NewRecord(pts, owner)), m)
         /\ Len(Append(records, NewRecord(pts, owner))) = Len(records) + 1
         /\ DOMAIN Append(records, NewRecord(pts, owner)) = 1 .. Len(records) + 1
         /\ Append(records, NewRecord(pts, owner))[Len(records) + 1] = NewRecord(pts, owner)
         /\ \A x \in DOMAIN records : Append(records, NewRecord(pts, owner))[x] = records[x]
<1> DEFINE n == Len(records)
           record == NewRecord(pts, owner)
           longer == Append(records, record)
<1>1. /\ Sequence(records) /\ \A x \in DOMAIN records : RecordIs(records[x], n, m)
      /\ n \in Nat /\ DOMAIN records = 1 .. n
  BY SequenceType DEF RecordsAre
<1>2. RecordIs(record, n + 1, m)
  <2>1. DOMAIN record = Fields
    BY DEF NewRecord, Fields
  <2>2. record.owner = owner /\ record.pts = pts /\ record.splits = <<>>
    BY DEF NewRecord
  <2> HIDE DEF record, n
  <2>3. <<>> \in Seq(1 .. n + 1)
    OBVIOUS
  <2> QED BY <2>1, <2>2, <2>3 DEF RecordIs, n
<1> HIDE DEF record
<1>3. /\ Sequence(longer) /\ Len(longer) = n + 1 /\ DOMAIN longer = 1 .. n + 1
      /\ longer[n + 1] = record /\ \A x \in DOMAIN records : longer[x] = records[x]
  BY <1>1, SequenceAppended
<1>4. \A x \in DOMAIN records : RecordIs(records[x], n + 1, m)
  <2> SUFFICES ASSUME NEW x \in DOMAIN records PROVE RecordIs(records[x], n + 1, m)
    OBVIOUS
  <2>1. RecordIs(records[x], n, m)
    BY <1>1
  <2> HIDE DEF n
  <2>2. 1 .. n \subseteq 1 .. n + 1 /\ 0 .. n \subseteq 0 .. n + 1
    BY <1>1
  <2>3. records[x].splits \in Seq(1 .. n + 1)
    <3>1. records[x].splits \in Seq(1 .. n)
      BY <2>1 DEF RecordIs
    <3> DEFINE S == 1 .. n
               T == 1 .. n + 1
    <3>2. S \subseteq T /\ records[x].splits \in Seq(S)
      BY <2>2, <3>1
    <3> HIDE DEF S, T
    <3>3. records[x].splits \in Seq(T)
      BY ONLY <3>2, SequenceIn
    <3> QED BY <3>3 DEF T
  <2> QED BY <2>1, <2>2, <2>3 DEF RecordIs
<1>5. \A x \in DOMAIN longer : RecordIs(longer[x], n + 1, m)
  BY <1>1, <1>2, <1>3, <1>4
<1> QED BY <1>3, <1>5 DEF RecordsAre, record

-----------------------------------------------------------------------------
(* The records that were emptied lead to one that was not.                 *)

Emptied(records) == {r \in DOMAIN records : records[r].pts = None}

\* The owner of an emptied record is nearer to the end; the numbers are no
\* more than the emptied records.
JoinedInto(records, depth) ==
  /\ depth \in [DOMAIN records -> Nat]
  /\ \A r \in Emptied(records) :
       /\ records[r].owner \in DOMAIN records
       /\ depth[records[r].owner] < depth[r]
       /\ depth[r] <= Cardinality(Emptied(records))

Chains(records) == \E depth : JoinedInto(records, depth)

PastEmpty(records) ==
  [o \in 0 .. Len(records) |-> IF o # None /\ records[o].pts = None THEN records[o].owner ELSE o]

LEMMA EmptiedAreFew ==
  ASSUME NEW records, Sequence(records)
  PROVE  /\ IsFiniteSet(Emptied(records)) /\ Cardinality(Emptied(records)) \in Nat
         /\ Cardinality(Emptied(records)) <= Len(records)
<1>1. DOMAIN records = 1 .. Len(records) /\ Len(records) \in Nat
  BY SequenceType
<1>2. IsFiniteSet(1 .. Len(records)) /\ Cardinality(1 .. Len(records)) = Len(records)
  <2>1. /\ IsFiniteSet(1 .. Len(records))
        /\ Cardinality(1 .. Len(records)) = IF 1 > Len(records) THEN 0 ELSE Len(records) - 1 + 1
    BY <1>1, FS_Interval
  <2> QED BY <1>1, <2>1
<1>3. Emptied(records) \in SUBSET (1 .. Len(records))
  BY <1>1 DEF Emptied
<1>4. IsFiniteSet(Emptied(records)) /\ Cardinality(Emptied(records)) <= Len(records)
  BY <1>2, <1>3, FS_Subset
<1> QED BY <1>4, FS_CardinalityType

LEMMA RealType ==
  ASSUME NEW m, NEW records, RecordsAre(records, m), NEW r \in 0 .. Len(records)
  PROVE  get_real_outrec(records, r) \in 0 .. Len(records)
<1> DEFINE S == 0 .. Len(records)
           step == PastEmpty(records)
<1>1. Len(records) \in Nat /\ DOMAIN records = 1 .. Len(records)
  BY SequenceType DEF RecordsAre
<1>2. StaysIn(step, S)
  BY <1>1 DEF StaysIn, PastEmpty, RecordsAre, RecordIs, None
<1>3. get_real_outrec(records, r) = Iterated(step, r, Len(records))
  BY DEF get_real_outrec, PastEmpty
<1> HIDE DEF S, step
<1>4. Iterated(step, r, Len(records)) \in S
  <2>1. r \in S
    BY DEF S
  <2> QED BY <1>1, <1>2, <2>1, IteratedIn
<1> QED BY <1>3, <1>4 DEF S

LEMMA RealOfLive ==
  ASSUME NEW records, Sequence(records), NEW r \in DOMAIN records, records[r].pts # None
  PROVE  get_real_outrec(records, r) = r
<1> DEFINE S == {r}
           step == PastEmpty(records)
<1>1. Len(records) \in Nat /\ DOMAIN records = 1 .. Len(records)
  BY SequenceType
<1>2. StaysIn(step, S)
  BY <1>1 DEF StaysIn, PastEmpty
<1>3. get_real_outrec(records, r) = Iterated(step, r, Len(records))
  BY DEF get_real_outrec, PastEmpty
<1> HIDE DEF S, step
<1>4. Iterated(step, r, Len(records)) \in S
  <2>1. r \in S
    BY DEF S
  <2> QED BY <1>1, <1>2, <2>1, IteratedIn
<1> QED BY <1>3, <1>4 DEF S

LEMMA RealIsLive ==
  ASSUME NEW m, NEW records, RecordsAre(records, m), Chains(records), NEW r \in DOMAIN records
  PROVE  /\ get_real_outrec(records, r) \in DOMAIN records
         /\ records[get_real_outrec(records, r)].pts # None
<1> DEFINE S == DOMAIN records
           n == Len(records)
           step == PastEmpty(records)
           E == Emptied(records)
<1>1. PICK depth : JoinedInto(records, depth)
  BY DEF Chains
<1>2. n \in Nat /\ S = 1 .. n
  BY SequenceType DEF RecordsAre
<1>3. \A s \in S : step[s] = IF s \in E THEN records[s].owner ELSE s
  BY <1>2 DEF PastEmpty, Emptied, None
<1>4. /\ depth \in [S -> Nat] /\ E \subseteq S
      /\ \A s \in E : /\ records[s].owner \in S /\ depth[records[s].owner] < depth[s]
                      /\ depth[s] <= Cardinality(E)
  BY <1>1 DEF JoinedInto, Emptied
<1>5. get_real_outrec(records, r) = Iterated(step, r, n)
  BY DEF get_real_outrec, PastEmpty
<1>6. Cardinality(E) \in Nat /\ Cardinality(E) <= n
  BY EmptiedAreFew DEF RecordsAre
<1> HIDE DEF S, n, step, E
<1>7. StaysIn(step, S)
  BY <1>3, <1>4 DEF StaysIn
<1>8. PICK W \in [Nat -> S] : WalkOf(W, step, r) /\ IteratedIs(W, step, r)
  <2>1. r \in S
    BY DEF S
  <2> QED BY <1>7, <2>1, IteratedWalks
<1> DEFINE T == {k \in Nat : W[k] \in E /\ depth[W[k]] + k > depth[r]}
<1>9. T = {}
  <2> SUFFICES ASSUME T # {} PROVE FALSE
    OBVIOUS
  <2>1. PICK k \in T : \A j \in T : k <= j
    <3>1. T \subseteq Nat
      OBVIOUS
    <3> HIDE DEF T
    <3> QED BY <3>1, Least
  <2>2. k \in Nat /\ W[k] \in E /\ depth[W[k]] + k > depth[r]
    BY <2>1
  <2>3. k # 0
    <3> SUFFICES ASSUME k = 0 PROVE FALSE
      OBVIOUS
    <3>1. W[k] = r /\ r \in S /\ depth[r] \in Nat
      BY <1>4, <1>8 DEF WalkOf, S
    <3> QED BY <2>2, <3>1
  <2> DEFINE i == k - 1
  <2>4. i \in Nat /\ i + 1 = k /\ ~ (k <= i)
    BY <2>2, <2>3
  <2> HIDE DEF i
  <2>5. W[k] = step[W[i]] /\ W[i] \in S
    BY <1>8, <2>4 DEF WalkOf
  <2>6. W[i] \in E /\ W[k] = records[W[i]].owner
    BY <1>3, <2>2, <2>5
  <2>7. ~ (depth[W[i]] + i > depth[r])
    BY <2>1, <2>4, <2>6
  <2>8. depth[W[k]] < depth[W[i]] /\ depth[W[k]] \in Nat /\ depth[W[i]] \in Nat /\ depth[r] \in Nat
    BY <1>4, <1>8, <2>2, <2>6 DEF S
  <2> QED BY <2>2, <2>4, <2>7, <2>8
<1>10. W[n] \notin E
  <2> SUFFICES ASSUME W[n] \in E PROVE FALSE
    OBVIOUS
  <2>1. ~ (depth[W[n]] + n > depth[r])
    BY <1>2, <1>9
  <2>2. depth[W[n]] > 0
    BY <1>4
  <2>3. depth[r] \in Nat /\ depth[W[n]] \in Nat
    BY <1>4 DEF S
  <2>4. r \in E
    <3> SUFFICES ASSUME r \notin E PROVE FALSE
      OBVIOUS
    <3>1. StaysIn(step, {r}) /\ r \in {r} /\ n \in Nat
      BY <1>2, <1>3 DEF StaysIn, S
    <3>2. Iterated(step, r, n) \in {r}
      BY <3>1, IteratedIn
    <3>3. W[n] = r
      BY <1>2, <1>8, <3>2 DEF IteratedIs
    <3> QED BY <3>3
  <2>5. depth[r] <= n
    BY <1>2, <1>4, <1>6, <2>3, <2>4
  <2> DEFINE a == depth[W[n]]
             b == depth[r]
  <2>6. ~ (a + n > b) /\ a > 0 /\ b <= n /\ a \in Nat /\ b \in Nat
    BY <2>1, <2>2, <2>3, <2>5
  <2> HIDE DEF a, b
  <2> QED BY ONLY <1>2, <2>6
<1>11. get_real_outrec(records, r) = W[n] /\ W[n] \in S
  BY <1>2, <1>5, <1>8 DEF IteratedIs
<1> QED BY <1>10, <1>11 DEF S, E, Emptied

\* Records that are live or were emptied stay so, and new ones are live.
SameChains(changed, records) ==
  /\ DOMAIN records \subseteq DOMAIN changed
  /\ \A r \in DOMAIN records : changed[r].pts = None <=> records[r].pts = None
  /\ \A r \in DOMAIN records : records[r].pts = None => changed[r].owner = records[r].owner
  /\ \A r \in DOMAIN changed \ DOMAIN records : changed[r].pts # None

LEMMA ChainsKept ==
  ASSUME NEW records, NEW changed, SameChains(changed, records), Chains(records)
  PROVE  Chains(changed)
<1>1. PICK depth : JoinedInto(records, depth)
  BY DEF Chains
<1> DEFINE other == [r \in DOMAIN changed |-> IF r \in DOMAIN records THEN depth[r] ELSE 0]
<1>2. Emptied(changed) = Emptied(records)
  BY DEF Emptied, SameChains
<1>3. other \in [DOMAIN changed -> Nat]
  BY <1>1 DEF JoinedInto
<1>4. ASSUME NEW r \in Emptied(changed)
      PROVE  /\ changed[r].owner \in DOMAIN changed
             /\ other[changed[r].owner] < other[r]
             /\ other[r] <= Cardinality(Emptied(changed))
  <2>1. r \in Emptied(records) /\ r \in DOMAIN records /\ r \in DOMAIN changed
    BY <1>2 DEF Emptied
  <2>2. changed[r].owner = records[r].owner
    BY <2>1 DEF SameChains, Emptied
  <2>3. /\ records[r].owner \in DOMAIN records /\ depth[records[r].owner] < depth[r]
        /\ depth[r] <= Cardinality(Emptied(records))
    BY <1>1, <2>1 DEF JoinedInto
  <2>4. records[r].owner \in DOMAIN changed
    BY <2>3 DEF SameChains
  <2> QED BY <1>2, <2>1, <2>2, <2>3, <2>4
<1> HIDE DEF other
<1>5. JoinedInto(changed, other)
  BY <1>3, <1>4 DEF JoinedInto
<1> QED BY <1>5 DEF Chains

\* The record s is emptied into f.
EmptiedInto(changed, records, s, f) ==
  /\ DOMAIN changed = DOMAIN records /\ s \in DOMAIN records /\ f \in DOMAIN records /\ f # s
  /\ \A r \in DOMAIN records : r # s => (changed[r].pts = None <=> records[r].pts = None)
  /\ \A r \in DOMAIN records : records[r].pts = None => changed[r].owner = records[r].owner
  /\ records[s].pts # None /\ records[f].pts # None
  /\ changed[s].pts = None /\ changed[s].owner = f

LEMMA ChainsAfterEmptying ==
  ASSUME NEW records, Sequence(records), NEW changed, NEW s, NEW f, EmptiedInto(changed, records, s, f),
         Chains(records)
  PROVE  Chains(changed)
<1>1. PICK depth : JoinedInto(records, depth)
  BY DEF Chains
<1> DEFINE E == Emptied(records)
           c == Cardinality(E)
           other == [r \in DOMAIN changed |-> IF r \in E THEN depth[r] + 1 ELSE IF r = s THEN 1 ELSE 0]
<1>2. /\ DOMAIN changed = DOMAIN records /\ s \in DOMAIN records /\ s \notin E
      /\ f \in DOMAIN records /\ f # s /\ f \notin E
      /\ \A r \in E : r \in DOMAIN records /\ r # s /\ changed[r].owner = records[r].owner
      /\ changed[s].owner = f
  BY DEF Emptied, EmptiedInto
<1>3. Emptied(changed) = E \cup {s}
  BY DEF Emptied, EmptiedInto
<1>4. c \in Nat /\ Cardinality(E \cup {s}) = c + 1
  <2>1. IsFiniteSet(E) /\ c \in Nat
    BY EmptiedAreFew
  <2> QED BY <1>2, <2>1, FS_AddElement
<1>5. depth \in [DOMAIN records -> Nat]
  BY <1>1 DEF JoinedInto
<1>6. \A r \in E : /\ records[r].owner \in DOMAIN records /\ depth[records[r].owner] < depth[r]
                   /\ depth[r] <= c
  BY <1>1 DEF JoinedInto
<1> HIDE DEF E, c
<1>7. other \in [DOMAIN changed -> Nat]
  BY <1>2, <1>5
<1>8. ASSUME NEW r \in Emptied(changed)
      PROVE  /\ changed[r].owner \in DOMAIN changed
             /\ other[changed[r].owner] < other[r]
             /\ other[r] <= Cardinality(Emptied(changed))
  <2>1. CASE r = s
    <3>1. other[s] = 1 /\ other[f] = 0 /\ changed[r].owner = f
      BY <1>2, <2>1
    <3> QED BY <1>2, <1>3, <1>4, <2>1, <3>1
  <2>2. CASE r # s
    <3> DEFINE o == records[r].owner
    <3>1. r \in E /\ r \in DOMAIN changed /\ changed[r].owner = o
      BY <1>2, <1>3, <2>2
    <3>2. o \in DOMAIN records /\ depth[o] < depth[r] /\ depth[r] <= c /\ depth[o] \in Nat /\ depth[r] \in Nat
      BY <1>2, <1>5, <1>6, <3>1
    <3> HIDE DEF o
    <3>3. other[r] = depth[r] + 1 /\ o \in DOMAIN changed
      BY <1>2, <3>1, <3>2
    <3>4. other[o] < other[r]
      BY <3>2, <3>3
    <3> HIDE DEF other
    <3> QED BY <1>3, <1>4, <3>1, <3>2, <3>3, <3>4
  <2> QED BY <2>1, <2>2
<1> HIDE DEF other
<1>9. JoinedInto(changed, other)
  BY <1>7, <1>8 DEF JoinedInto
<1> QED BY <1>9 DEF Chains

-----------------------------------------------------------------------------
(* Horizontal segments.                                                    *)

LEMMA RunStartType ==
  ASSUME PointsIntact(op), NEW p \in DOMAIN op
  PROVE  RunStart(p) \in DOMAIN op
<1> DEFINE r == rec[get_real_outrec(rec, op[p].outrec)]
           goes(q) == /\ IF r.has_edges THEN q # op[r.pts].next ELSE op[q].prev # p
                      /\ Height(op[q].prev) = Height(p)
           step == [q \in DOMAIN op |-> IF goes(q) THEN op[q].prev ELSE q]
<1>1. RunStart(p) = Iterated(step, p, Len(op))
  BY DEF RunStart
<1>2. \A q \in DOMAIN op : op[q].prev \in DOMAIN op
  BY LinksInDomain
<1> HIDE DEF goes
<1>3. StaysIn(step, DOMAIN op)
  BY <1>2 DEF StaysIn
<1>4. Len(op) \in Nat
  BY DEF PointsIntact
<1> HIDE DEF step
<1> QED BY <1>1, <1>3, <1>4, IteratedIn

LEMMA RunEndType ==
  ASSUME PointsIntact(op), NEW p \in DOMAIN op
  PROVE  RunEnd(p) \in DOMAIN op
<1> DEFINE r == rec[get_real_outrec(rec, op[p].outrec)]
           goes(q) == /\ IF r.has_edges THEN q # r.pts ELSE op[q].next # RunStart(p)
                      /\ Height(op[q].next) = Height(p)
           step == [q \in DOMAIN op |-> IF goes(q) THEN op[q].next ELSE q]
<1>1. RunEnd(p) = Iterated(step, p, Len(op))
  BY DEF RunEnd
<1>2. \A q \in DOMAIN op : op[q].next \in DOMAIN op
  BY LinksInDomain
<1> HIDE DEF goes
<1>3. StaysIn(step, DOMAIN op)
  BY <1>2 DEF StaysIn
<1>4. Len(op) \in Nat
  BY DEF PointsIntact
<1> HIDE DEF step
<1> QED BY <1>1, <1>3, <1>4, IteratedIn

Segment == [left : DOMAIN op, right : Nat, left_to_right : BOOLEAN]

\* The order of the sorted segments.
IsBefore(j, i) ==
  \/ compare_horizontal_segments(segments[j], segments[i])
  \/ j < i /\ ~ compare_horizontal_segments(segments[i], segments[j])

\* Segments that were dropped come last; the others are ordered by their left end.
LEMMA OrderIsStrict ==
  ASSUME PointsIntact(op), segments \in Seq(Segment)
  PROVE  /\ \A i \in DOMAIN segments : ~ IsBefore(i, i)
         /\ \A i, j \in DOMAIN segments : i # j => IsBefore(i, j) \/ IsBefore(j, i)
         /\ \A i, j, k \in DOMAIN segments : IsBefore(i, j) /\ IsBefore(j, k) => IsBefore(i, k)
<1> DEFINE x == [i \in DOMAIN segments |-> op[segments[i].left].pt.x]
           live == [i \in DOMAIN segments |-> segments[i].right # None]
<1>1. /\ DOMAIN segments \subseteq Nat
      /\ \A i \in DOMAIN segments : x[i] \in Int
  <2>1. \A i \in DOMAIN segments : segments[i].left \in DOMAIN op
    <3>1. \A i \in DOMAIN segments : segments[i] \in Segment
      OBVIOUS
    <3>2. \A s \in Segment : s.left \in DOMAIN op
      BY DEF Segment
    <3> QED BY <3>1, <3>2
  <2>2. \A p \in DOMAIN op : op[p].pt.x \in Int
    BY PointFields DEF Place
  <2> QED BY <2>1, <2>2
<1>2. \A i, j \in DOMAIN segments :
        compare_horizontal_segments(segments[i], segments[j]) <=> live[i] /\ (live[j] => x[i] < x[j])
  BY DEF compare_horizontal_segments
<1> HIDE DEF x, live
<1>3. \A i, j \in DOMAIN segments :
        IsBefore(i, j) <=> \/ live[i] /\ (live[j] => x[i] < x[j])
                           \/ i < j /\ ~ (live[j] /\ (live[i] => x[j] < x[i]))
  BY <1>2 DEF IsBefore
<1>4. \A i \in DOMAIN segments : ~ IsBefore(i, i)
  BY <1>1, <1>3
<1>5. ASSUME NEW i \in DOMAIN segments, NEW j \in DOMAIN segments, i # j
      PROVE  IsBefore(i, j) \/ IsBefore(j, i)
  <2>1. i < j \/ j < i
    BY <1>1, <1>5
  <2> QED BY <1>1, <1>3, <2>1
<1>6. ASSUME NEW i \in DOMAIN segments, NEW j \in DOMAIN segments, NEW k \in DOMAIN segments,
             IsBefore(i, j), IsBefore(j, k)
      PROVE  IsBefore(i, k)
  BY <1>1, <1>3, <1>6
<1> QED BY <1>4, <1>5, <1>6

LEMMA SortedPlaceExists ==
  ASSUME PointsIntact(op), segments \in Seq(Segment), NEW k \in DOMAIN segments
  PROVE  \E i \in DOMAIN segments : Cardinality(SortedBefore(i)) = k - 1
<1> DEFINE n == Len(segments)
           D == DOMAIN segments
           rank == [i \in D |-> Cardinality(SortedBefore(i))]
           place == [i \in D |-> rank[i] + 1]
<1>1. n \in Nat /\ D = 1 .. n /\ IsFiniteSet(D) /\ Cardinality(D) = n
  <2>1. n \in Nat /\ D = 1 .. n
    OBVIOUS
  <2>2. IsFiniteSet(1 .. n) /\ Cardinality(1 .. n) = IF 1 > n THEN 0 ELSE n - 1 + 1
    BY <2>1, FS_Interval
  <2> HIDE DEF n, D
  <2> QED BY <2>1, <2>2
<1>2. \A i \in D : SortedBefore(i) = {j \in D : IsBefore(j, i)}
  BY DEF SortedBefore, IsBefore
<1>3. /\ \A i \in D : ~ IsBefore(i, i)
      /\ \A i, j \in D : i # j => IsBefore(i, j) \/ IsBefore(j, i)
      /\ \A i, j, m \in D : IsBefore(i, j) /\ IsBefore(j, m) => IsBefore(i, m)
  BY OrderIsStrict
<1>4. \A i \in D : rank[i] = Cardinality(SortedBefore(i))
  OBVIOUS
<1>5. \A i \in D : place[i] = rank[i] + 1
  OBVIOUS
<1>6. place = [i \in D |-> rank[i] + 1]
  OBVIOUS
<1> HIDE DEF n, D, rank, place
<1>7. ASSUME NEW i \in D PROVE IsFiniteSet(SortedBefore(i)) /\ rank[i] \in 0 .. n - 1
  <2>1. SortedBefore(i) \in SUBSET (D \ {i})
    BY <1>2, <1>3
  <2>2. IsFiniteSet(D \ {i}) /\ Cardinality(D \ {i}) = n - 1
    BY <1>1, FS_RemoveElement
  <2>3. IsFiniteSet(SortedBefore(i)) /\ Cardinality(SortedBefore(i)) <= n - 1
    BY <2>1, <2>2, FS_Subset
  <2>4. Cardinality(SortedBefore(i)) \in Nat
    BY <2>3, FS_CardinalityType
  <2> QED BY <1>1, <1>4, <2>3, <2>4
<1>8. ASSUME NEW i \in D, NEW j \in D, IsBefore(j, i) PROVE rank[j] # rank[i]
  <2>1. SortedBefore(j) \in SUBSET SortedBefore(i)
    BY <1>2, <1>3, <1>8
  <2>2. j \in SortedBefore(i) /\ j \notin SortedBefore(j)
    BY <1>2, <1>3, <1>8
  <2>3. Cardinality(SortedBefore(i)) # Cardinality(SortedBefore(j))
    BY <1>7, <2>1, <2>2, FS_Subset
  <2> QED BY <1>4, <2>3
<1>9. place \in Injection(1 .. n, 1 .. n)
  <2>1. \A i \in D : place[i] \in 1 .. n
    BY <1>1, <1>5, <1>7
  <2>2. place \in [1 .. n -> 1 .. n]
    BY <1>1, <1>6, <2>1
  <2>3. ASSUME NEW i \in D, NEW j \in D, place[i] = place[j] PROVE i = j
    <3>1. rank[i] \in Int /\ rank[j] \in Int
      BY <1>7
    <3>2. rank[i] + 1 = rank[j] + 1
      BY <1>5, <2>3
    <3>3. rank[i] = rank[j]
      BY ONLY <3>1, <3>2
    <3> QED BY <1>3, <1>8, <3>3
  <2> QED BY <1>1, <2>2, <2>3 DEF Injection, IsInjective
<1>10. place \in Surjection(1 .. n, 1 .. n)
  BY <1>1, <1>9, FS_Injection
<1>11. k \in 1 .. n
  BY <1>1 DEF D
<1>12. PICK i \in D : place[i] = k
  BY <1>1, <1>10, <1>11 DEF Surjection
<1>13. rank[i] = k - 1
  BY <1>1, <1>5, <1>7, <1>11, <1>12
<1> QED BY <1>4, <1>13 DEF D

\* The segments in their order.
Sorted == [k \in DOMAIN segments |->
             segments[CHOOSE i \in DOMAIN segments : Cardinality(SortedBefore(i)) = k - 1]]

LEMMA SortedType ==
  ASSUME PointsIntact(op), segments \in Seq(Segment)
  PROVE  Sorted \in Seq(Segment) /\ Len(Sorted) = Len(segments)
<1> DEFINE place(k) == CHOOSE i \in DOMAIN segments : Cardinality(SortedBefore(i)) = k - 1
<1>1. \A k \in DOMAIN segments : place(k) \in DOMAIN segments
  BY SortedPlaceExists
<1>2. Sorted = [k \in DOMAIN segments |-> segments[place(k)]]
  BY DEF Sorted
<1> HIDE DEF place
<1>3. Len(segments) \in Nat /\ DOMAIN segments = 1 .. Len(segments)
  OBVIOUS
<1>4. \A k \in DOMAIN segments : segments[place(k)] \in Segment
  BY <1>1
<1>5. Sorted \in [1 .. Len(segments) -> Segment]
  BY <1>2, <1>3, <1>4
<1> QED BY <1>3, <1>5

-----------------------------------------------------------------------------
(* The stack.                                                              *)

Steps == {"emit", "place", "owners", "resolved", "owner placed", "bounds", "cleaned",
          "clean", "scan", "check", "fix", "fixed",
          "splits", "empty split", "split", "split searched", "split bounded",
          "resolve", "owner", "owner searched", "owner bounded"}

Call == [at : Steps, record : Nat, holder : Nat, index : Nat, current : Nat, start : Nat]

Searching == {"splits", "empty split", "split", "split searched", "split bounded"}

Resolving == {"resolve", "owner", "owner searched", "owner bounded"}

Placing == {"place", "owners", "resolved", "owner placed"}

\* Where a function is that has called another one.
Waiting == {"emit", "place", "cleaned", "empty split", "split searched", "split bounded",
            "owner searched", "owner bounded", "resolved", "owner placed"}

\* What a function has read, of m points, is still there.
FrameIs(f, records, m) ==
  /\ f.record \in DOMAIN records
  /\ f.at = "clean" => records[f.record].pts # None
  /\ f.at \in {"scan", "check", "fix"} => records[f.record].pts # None /\ f.current \in 1 .. m
  /\ f.at \in {"split searched", "split bounded"} => f.current \in DOMAIN records /\ f.current # f.record
  /\ f.at \in Searching => f.holder \in DOMAIN records /\ f.index >= 1
  /\ f.at \in {"empty split", "split"} => f.index <= Len(records[f.holder].splits)
  /\ f.at \in {"owner", "owner searched", "owner bounded"} => records[f.record].owner # None

\* Only one owner is looked for at a time, and all searches are for its record.
Above(f, g) ==
  f.at \in Resolving =>
    /\ g.at \notin Resolving \cup Placing
    /\ g.at \in Searching => f.at = "owner searched" /\ g.record = f.record

LowerAre(stack, records, m) ==
  \A i \in DOMAIN stack : i < Len(stack) => FrameIs(stack[i], records, m)

StackIs(stack, records, m) ==
  /\ stack \in Seq(Call)
  /\ \A i \in DOMAIN stack : FrameIs(stack[i], records, m)
  /\ \A i \in DOMAIN stack : i < Len(stack) => stack[i].at \in Waiting
  /\ \A i, j \in DOMAIN stack : i < j => Above(stack[i], stack[j])

\* What may happen to the records while functions wait.
Grows(changed, records) ==
  /\ DOMAIN records \subseteq DOMAIN changed
  /\ \A r \in DOMAIN records : Len(records[r].splits) <= Len(changed[r].splits)

OwnersStay(stack, records) ==
  \A i \in DOMAIN stack : i < Len(stack) /\ stack[i].at \in Resolving => records[stack[i].record].owner # None

LEMMA SplitsAreSequences ==
  ASSUME NEW m, NEW records, RecordsAre(records, m), NEW r \in DOMAIN records
  PROVE  /\ records[r].splits \in Seq(1 .. Len(records))
         /\ Len(records[r].splits) \in Nat
         /\ DOMAIN records[r].splits = 1 .. Len(records[r].splits)
<1>1. RecordIs(records[r], Len(records), m)
  BY DEF RecordsAre
<1>2. records[r].splits \in Seq(1 .. Len(records))
  BY <1>1 DEF RecordIs
<1> QED BY <1>2

LEMMA WaitingStays ==
  ASSUME NEW f \in Call, f.at \in Waiting, NEW j, NEW records, RecordsAre(records, j), NEW k, NEW changed,
         RecordsAre(changed, k),
         Grows(changed, records), NEW m, FrameIs(f, records, m), NEW n,
         f.at \in Resolving => changed[f.record].owner # None
  PROVE  FrameIs(f, changed, n)
<1>1. f.record \in DOMAIN changed
  BY DEF FrameIs, Grows
<1>2. f.at \notin {"clean", "scan", "check", "fix", "owner"}
  BY DEF Waiting
<1>3. f.at \in {"split searched", "split bounded"} => f.current \in DOMAIN changed /\ f.current # f.record
  BY DEF FrameIs, Grows
<1>4. f.at \in Searching => f.holder \in DOMAIN changed /\ f.index >= 1
  BY DEF FrameIs, Grows
<1>5. f.at \in {"empty split", "split"} => f.index <= Len(changed[f.holder].splits)
  <2> SUFFICES ASSUME f.at \in {"empty split", "split"} PROVE f.index <= Len(changed[f.holder].splits)
    OBVIOUS
  <2>1. f.holder \in DOMAIN records /\ f.index <= Len(records[f.holder].splits) /\ f.index \in Nat
    BY DEF FrameIs, Searching, Call
  <2>2. Len(records[f.holder].splits) \in Nat
    BY <2>1, SplitsAreSequences
  <2>3. f.holder \in DOMAIN changed /\ Len(records[f.holder].splits) <= Len(changed[f.holder].splits)
    BY <2>1 DEF Grows
  <2>4. Len(changed[f.holder].splits) \in Nat
    BY <2>3, SplitsAreSequences
  <2> DEFINE a == f.index
             b == Len(records[f.holder].splits)
             c == Len(changed[f.holder].splits)
  <2>5. a \in Nat /\ b \in Nat /\ c \in Nat /\ a <= b /\ b <= c
    BY <2>1, <2>2, <2>3, <2>4
  <2> HIDE DEF a, b, c
  <2>6. a <= c
    BY ONLY <2>5
  <2> QED BY <2>6 DEF a, c
<1>6. f.at \in {"owner searched", "owner bounded"} => changed[f.record].owner # None
  BY DEF Resolving
<1> QED BY <1>1, <1>2, <1>3, <1>4, <1>5, <1>6 DEF FrameIs

LEMMA LowerStay ==
  ASSUME NEW stack, NEW records, NEW m, StackIs(stack, records, m), NEW j, RecordsAre(records, j), NEW k,
         NEW changed, RecordsAre(changed, k), Grows(changed, records), OwnersStay(stack, changed), NEW n
  PROVE  LowerAre(stack, changed, n)
<1> SUFFICES ASSUME NEW i \in DOMAIN stack, i < Len(stack)
             PROVE  FrameIs(stack[i], changed, n)
  BY DEF LowerAre
<1>1. stack[i] \in Call /\ stack[i].at \in Waiting /\ FrameIs(stack[i], records, m)
  BY DEF StackIs
<1>2. stack[i].at \in Resolving => changed[stack[i].record].owner # None
  BY DEF OwnersStay
<1> QED BY <1>1, <1>2, WaitingStays

SetTop(stack, g) == [stack EXCEPT ![Len(stack)] = g]

AllAbove(stack, g) == \A i \in DOMAIN stack : i < Len(stack) => Above(stack[i], g)

LEMMA TopSet ==
  ASSUME NEW stack, NEW records, NEW m, StackIs(stack, records, m), stack # <<>>,
         NEW changed, NEW n, LowerAre(stack, changed, n), NEW g \in Call, FrameIs(g, changed, n),
         AllAbove(stack, g)
  PROVE  /\ StackIs(SetTop(stack, g), changed, n) /\ SetTop(stack, g) # <<>>
         /\ Last(SetTop(stack, g)) = g
         /\ Len(SetTop(stack, g)) = Len(stack) /\ DOMAIN SetTop(stack, g) = DOMAIN stack
         /\ \A i \in DOMAIN stack : i < Len(stack) => SetTop(stack, g)[i] = stack[i]
<1> DEFINE s == SetTop(stack, g)
           size == Len(stack)
<1>1. stack \in Seq(Call) /\ size \in Nat /\ size \in 1 .. size /\ DOMAIN stack = 1 .. size
  BY DEF StackIs
<1>2. /\ s \in Seq(Call) /\ Len(s) = size /\ DOMAIN s = DOMAIN stack
      /\ \A i \in DOMAIN stack : s[i] = IF i = size THEN g ELSE stack[i]
  BY <1>1, ExceptSeq DEF SetTop
<1> HIDE DEF s, size
<1>3. \A i \in DOMAIN s : i # size => i < size
  BY <1>1, <1>2
<1>4. \A i \in DOMAIN s : FrameIs(s[i], changed, n)
  BY <1>2, <1>3 DEF LowerAre, size
<1>5. \A i \in DOMAIN s : i < Len(s) => s[i].at \in Waiting
  BY <1>1, <1>2 DEF StackIs, size
<1>6. ASSUME NEW i \in DOMAIN s, NEW j \in DOMAIN s, i < j PROVE Above(s[i], s[j])
  <2>1. i \in DOMAIN stack /\ j \in DOMAIN stack /\ i < size /\ i # size
    BY <1>1, <1>2, <1>6
  <2>2. s[i] = stack[i]
    BY <1>2, <2>1
  <2>3. CASE j = size
    BY <1>2, <2>1, <2>2, <2>3 DEF AllAbove, size
  <2>4. CASE j # size
    <3>1. s[j] = stack[j]
      BY <1>2, <2>1, <2>4
    <3>2. Above(stack[i], stack[j])
      BY <1>6, <2>1 DEF StackIs
    <3> QED BY <2>2, <3>1, <3>2
  <2> QED BY <2>3, <2>4
<1>7. StackIs(s, changed, n)
  BY <1>2, <1>4, <1>5, <1>6 DEF StackIs
<1>8. s # <<>> /\ Last(s) = g
  <2>1. s[size] = g /\ size # 0
    BY <1>1, <1>2
  <2> QED BY <1>2, <2>1 DEF Last
<1>9. \A i \in DOMAIN stack : i < Len(stack) => s[i] = stack[i]
  BY <1>1, <1>2 DEF size
<1> QED BY <1>2, <1>7, <1>8, <1>9 DEF s, size

LEMMA FramePushed ==
  ASSUME NEW stack, NEW records, NEW m, StackIs(stack, records, m), stack # <<>> => Last(stack).at \in Waiting,
         NEW h \in Call, FrameIs(h, records, m), \A i \in DOMAIN stack : Above(stack[i], h)
  PROVE  StackIs(Append(stack, h), records, m)
<1> DEFINE s == Append(stack, h)
           size == Len(stack)
<1>1. stack \in Seq(Call) /\ size \in Nat /\ DOMAIN stack = 1 .. size
  BY DEF StackIs
<1>2. /\ s \in Seq(Call) /\ Len(s) = size + 1 /\ DOMAIN s = 1 .. size + 1
      /\ s[size + 1] = h /\ \A i \in DOMAIN stack : s[i] = stack[i]
  <2>1. s \in Seq(Call) /\ Len(s) = size + 1
    BY <1>1
  <2>2. DOMAIN s = 1 .. size + 1
    BY <2>1
  <2>3. s[size + 1] = h /\ \A i \in 1 .. size : s[i] = stack[i]
    BY <1>1
  <2> QED BY <1>1, <2>1, <2>2, <2>3
<1>3. \A i \in DOMAIN stack : stack[i].at \in Waiting
  <2> SUFFICES ASSUME NEW i \in DOMAIN stack PROVE stack[i].at \in Waiting
    OBVIOUS
  <2>1. CASE i < Len(stack)
    BY <2>1 DEF StackIs
  <2>2. CASE ~ (i < Len(stack))
    <3>1. i = Len(stack) /\ stack # <<>>
      BY <1>1, <2>2
    <3> QED BY <3>1 DEF Last
  <2> QED BY <2>1, <2>2
<1> HIDE DEF s, size
<1>4. \A i \in DOMAIN s : i \in DOMAIN stack \/ i = size + 1
  BY <1>1, <1>2
<1>5. \A i \in DOMAIN s : FrameIs(s[i], records, m)
  BY <1>2, <1>4 DEF StackIs
<1>6. \A i \in DOMAIN s : i < Len(s) => s[i].at \in Waiting
  <2> SUFFICES ASSUME NEW i \in DOMAIN s, i < Len(s) PROVE s[i].at \in Waiting
    OBVIOUS
  <2>1. i \in DOMAIN stack
    BY <1>1, <1>2
  <2> QED BY <1>2, <1>3, <2>1
<1>7. ASSUME NEW i \in DOMAIN s, NEW j \in DOMAIN s, i < j PROVE Above(s[i], s[j])
  <2>1. i \in DOMAIN stack /\ s[i] = stack[i]
    BY <1>1, <1>2, <1>7
  <2>2. CASE j = size + 1
    BY <1>2, <2>1, <2>2
  <2>3. CASE j # size + 1
    <3>1. j \in DOMAIN stack /\ s[j] = stack[j]
      BY <1>2, <1>4, <2>3
    <3> QED BY <1>7, <2>1, <3>1 DEF StackIs
  <2> QED BY <2>2, <2>3
<1> QED BY <1>2, <1>5, <1>6, <1>7 DEF StackIs, s

LEMMA FramePopped ==
  ASSUME NEW stack, NEW records, NEW m, StackIs(stack, records, m), stack # <<>>,
         NEW changed, NEW n, LowerAre(stack, changed, n)
  PROVE  StackIs(Front(stack), changed, n)
<1> DEFINE s == Front(stack)
           size == Len(stack)
<1>1. stack \in Seq(Call) /\ size \in Nat /\ size # 0 /\ DOMAIN stack = 1 .. size
  BY DEF StackIs
<1>2. /\ s \in Seq(Call) /\ Len(s) = size - 1 /\ DOMAIN s = 1 .. size - 1
      /\ \A i \in DOMAIN s : s[i] = stack[i]
  <2>1. s = SubSeq(stack, 1, size - 1)
    BY DEF Front
  <2>2. s \in Seq(Call) /\ Len(s) = size - 1
    BY <1>1, <2>1
  <2>3. \A i \in 1 .. size - 1 : s[i] = stack[i]
    BY <1>1, <2>1
  <2> HIDE DEF s
  <2>4. DOMAIN s = 1 .. size - 1
    BY <2>2
  <2> QED BY <2>2, <2>3, <2>4
<1> HIDE DEF s, size
<1>3. \A i \in DOMAIN s : i \in DOMAIN stack /\ i < Len(stack)
  BY <1>1, <1>2 DEF size
<1>4. \A i \in DOMAIN s : FrameIs(s[i], changed, n) /\ s[i].at \in Waiting
  BY <1>2, <1>3 DEF LowerAre, StackIs
<1>5. \A i, j \in DOMAIN s : i < j => Above(s[i], s[j])
  BY <1>2, <1>3 DEF StackIs
<1> QED BY <1>2, <1>4, <1>5 DEF StackIs, s


-----------------------------------------------------------------------------
(* The inductive invariant.                                                *)

Converting == {"update", "pairs", "advance first", "advance second"}

Pairing == {"pairs", "advance first", "advance second"}

OutrecsAre(points, records) == \A p \in DOMAIN points : points[p].outrec \in DOMAIN records

SegmentsAre == pc \in Converting => segments \in Seq(Segment)

PairIs ==
  pc \in Pairing =>
    second \in Nat /\ limit \in Nat /\ index < second /\ second <= limit /\ limit <= Len(segments)

JoinsAre ==
  pc = "joins" => joins \in Seq((DOMAIN op) \X (DOMAIN op)) /\ OutrecsAre(op, rec) /\ Chains(rec)

\* What the loops of each phase rely on.
PhaseIs ==
  /\ call # <<>> => pc \in {"records", "bounds", "resolve"}
  /\ index \in Nat /\ index >= 1
  /\ SegmentsAre
  /\ PairIs
  /\ JoinsAre
  /\ pc \in {"bounds", "resolve"} => limit \in Nat /\ limit <= Len(rec)

IInv ==
  /\ PointsIntact(op)
  /\ RecordsAre(rec, Len(op))
  /\ StackIs(call, rec, Len(op))
  /\ PhaseIs

-----------------------------------------------------------------------------
(* What the sweep leaves.                                                  *)

LEMMA EarlierOwnersAreChains ==
  ASSUME NEW records, Sequence(records), \A r \in Emptied(records) : records[r].owner \in 1 .. r - 1
  PROVE  Chains(records)
<1> DEFINE D == DOMAIN records
           E == Emptied(records)
           below(r) == E \cap (1 .. r)
           depth == [r \in D |-> Cardinality(below(r))]
<1>1. D = 1 .. Len(records) /\ Len(records) \in Nat /\ D \subseteq Nat
  BY SequenceType
<1>2. IsFiniteSet(E) /\ E \subseteq D
  BY EmptiedAreFew DEF Emptied
<1> HIDE DEF E
<1>3. \A r \in D : IsFiniteSet(below(r)) /\ Cardinality(below(r)) \in Nat /\ Cardinality(below(r)) <= Cardinality(E)
  <2> TAKE r \in D
  <2>1. below(r) \subseteq E
    OBVIOUS
  <2> HIDE DEF below
  <2> QED BY <1>2, <2>1, FS_Subset, FS_CardinalityType
<1>4. ASSUME NEW r \in E
      PROVE  /\ records[r].owner \in D /\ depth[records[r].owner] < depth[r]
             /\ depth[r] <= Cardinality(E)
  <2> DEFINE o == records[r].owner
  <2>1. o \in 1 .. r - 1 /\ r \in D
    BY <1>2, <1>4 DEF E
  <2>2. o \in D /\ o \in Nat /\ r \in Nat /\ o < r
    BY <1>1, <2>1
  <2>3. below(o) \subseteq below(r) /\ r \in below(r) /\ r \notin below(o)
    BY <1>4, <2>2
  <2> HIDE DEF below, o
  <2>4. Cardinality(below(o)) < Cardinality(below(r))
    <3>1. Cardinality(below(o)) <= Cardinality(below(r)) /\ Cardinality(below(o)) # Cardinality(below(r))
      BY <1>3, <2>1, <2>3, FS_Subset
    <3> QED BY <1>3, <2>1, <2>2, <3>1
  <2> QED BY <1>3, <2>1, <2>2, <2>4 DEF o
<1>5. JoinedInto(records, depth)
  <2>1. depth \in [D -> Nat]
    BY <1>3
  <2> HIDE DEF depth
  <2> QED BY <1>4, <2>1 DEF JoinedInto, E
<1> QED BY <1>5 DEF Chains

LEMMA InitInvariant ==
  ASSUME Init
  PROVE  IInv
<1> PICK d \in Drawings :
           /\ op = d.op /\ rec = d.rec /\ segments = d.segments /\ joins = d.joins
           /\ options = d.options
           /\ pc = IF d.segments # <<>> THEN "update" ELSE "joins"
           /\ index = 1 /\ second = None /\ limit = 0
           /\ call = <<>> /\ returned = FALSE /\ answer = <<>>
  BY DEF Init
<1> DEFINE Begun == [owner : 0 .. Len(rec), has_edges : BOOLEAN, pts : 0 .. Len(op),
                     splits : {<<>>}, recursive_split : {None}, polygon_node : {None},
                     bounds : [left : {0}, top : {0}, right : {0}, bottom : {0}]]
           Marked == [pt : Place, next : Nat, prev : Nat, outrec : DOMAIN rec,
                      has_horizontal_segment : BOOLEAN]
<1>1. /\ op \in Seq(Marked) /\ RingsIntactIn(op) /\ rec \in Seq(Begun)
      /\ \A r \in DOMAIN rec : rec[r].pts = None => rec[r].owner \in 1 .. r - 1
      /\ segments \in Seq([left : DOMAIN op, right : {None}, left_to_right : BOOLEAN])
      /\ joins \in Seq((DOMAIN op) \X (DOMAIN op))
  <2>1. /\ d.op \in Seq([pt : Place, next : Nat, prev : Nat, outrec : DOMAIN d.rec,
                         has_horizontal_segment : BOOLEAN])
        /\ RingsIntactIn(d.op)
    BY DrawingsAssumption DEF Place
  <2>2. d.rec \in Seq([owner : 0 .. Len(d.rec), has_edges : BOOLEAN, pts : 0 .. Len(d.op),
                       splits : {<<>>}, recursive_split : {None}, polygon_node : {None},
                       bounds : [left : {0}, top : {0}, right : {0}, bottom : {0}]])
    BY DrawingsAssumption
  <2>3. \A r \in DOMAIN d.rec : d.rec[r].pts = None => d.rec[r].owner \in 1 .. r - 1
    BY DrawingsAssumption
  <2>4. /\ d.segments \in Seq([left : DOMAIN d.op, right : {None}, left_to_right : BOOLEAN])
        /\ d.joins \in Seq((DOMAIN d.op) \X (DOMAIN d.op))
    BY DrawingsAssumption
  <2>5. op = d.op /\ rec = d.rec /\ segments = d.segments /\ joins = d.joins
    OBVIOUS
  <2>6. op \in Seq(Marked) /\ RingsIntactIn(op)
    BY ONLY <2>1, <2>5
  <2>7. rec \in Seq(Begun)
    BY ONLY <2>2, <2>5
  <2>8. \A r \in DOMAIN rec : rec[r].pts = None => rec[r].owner \in 1 .. r - 1
    BY ONLY <2>3, <2>5
  <2>9. /\ segments \in Seq([left : DOMAIN op, right : {None}, left_to_right : BOOLEAN])
        /\ joins \in Seq((DOMAIN op) \X (DOMAIN op))
    BY ONLY <2>4, <2>5
  <2> QED BY ONLY <2>6, <2>7, <2>8, <2>9
<1>2. Len(op) \in Nat /\ Len(rec) \in Nat /\ DOMAIN rec = 1 .. Len(rec) /\ DOMAIN op = 1 .. Len(op)
  <2> HIDE DEF Marked, Begun
  <2>1. op \in Seq(Marked) /\ rec \in Seq(Begun)
    BY <1>1
  <2> QED BY ONLY <2>1
<1>3. Sequence(rec)
  BY <1>1, SequenceOf
<1>4. Marked \subseteq Point /\ \A point \in Marked : point.outrec \in DOMAIN rec
  BY <1>2 DEF Point
<1>5. PointsIntact(op) /\ OutrecsAre(op, rec)
  <2> HIDE DEF Marked
  <2>1. op \in Seq(Point)
    BY <1>1, <1>4, SequenceIn
  <2>2. \A p \in DOMAIN op : op[p] \in Marked
    BY <1>1
  <2> QED BY <1>1, <1>4, <2>1, <2>2 DEF PointsIntact, OutrecsAre
<1>6. RecordsAre(rec, Len(op))
  <2>1. ASSUME NEW r \in DOMAIN rec PROVE RecordIs(rec[r], Len(rec), Len(op))
    <3>1. rec[r] \in Begun
      <4> HIDE DEF Begun
      <4> QED BY <1>1
    <3>2. DOMAIN rec[r] = Fields /\ rec[r].splits = <<>>
      BY <3>1 DEF Fields
    <3>3. <<>> \in Seq(1 .. Len(rec))
      OBVIOUS
    <3> QED BY <3>1, <3>2, <3>3 DEF RecordIs
  <2> QED BY <1>3, <2>1 DEF RecordsAre
<1>7. Chains(rec)
  BY <1>1, <1>3, EarlierOwnersAreChains DEF Emptied
<1>8. StackIs(call, rec, Len(op))
  BY DEF StackIs
<1>9. SegmentsAre
  <2> DEFINE Left == [left : DOMAIN op, right : {None}, left_to_right : BOOLEAN]
  <2>1. Left \subseteq Segment
    BY DEF Segment, None
  <2>2. segments \in Seq(Left)
    BY <1>1
  <2> HIDE DEF Left
  <2>3. segments \in Seq(Segment)
    BY <2>1, <2>2, SequenceIn
  <2> QED BY <2>3 DEF SegmentsAre
<1>10. PairIs /\ JoinsAre
  BY <1>1, <1>5, <1>7 DEF PairIs, JoinsAre, Pairing
<1> QED BY <1>5, <1>6, <1>8, <1>9, <1>10 DEF IInv, PhaseIs

-----------------------------------------------------------------------------
(* The conversion of segments to joins.                                    *)

LEMMA ConvertStep ==
  ASSUME IInv, pc \in Converting, UNCHANGED <<rec, call>>, PointsIntact(op'), Len(op) <= Len(op'),
         index' \in Nat, index' >= 1, pc' \in Converting \cup {"done"}, segments' \in Seq(Segment), PairIs'
  PROVE  IInv'
<1>1. call = <<>> /\ call' = <<>>
  BY DEF IInv, PhaseIs, Converting
<1>2. Len(op) \in Nat /\ Len(op') \in Nat /\ DOMAIN op = 1 .. Len(op) /\ DOMAIN op' = 1 .. Len(op')
  BY DEF PointsIntact, IInv
<1>3. RecordsAre(rec', Len(op'))
  <2>1. RecordsAre(rec, Len(op)) /\ rec' = rec
    BY DEF IInv
  <2> QED BY <1>2, <2>1, MorePoints
<1>4. StackIs(call', rec', Len(op'))
  BY <1>1 DEF StackIs
<1>5. Segment \subseteq Segment'
  BY <1>2 DEF Segment
<1>6. SegmentsAre'
  BY <1>5, SequenceIn DEF SegmentsAre
<1>7. pc' \notin {"joins", "bounds", "resolve"}
  BY DEF Converting
<1> QED BY <1>1, <1>3, <1>4, <1>6, <1>7 DEF IInv, PhaseIs, JoinsAre

LEMMA UpdateSegmentKeepsInvariant ==
  ASSUME IInv, UpdateSegment
  PROVE  IInv'
<1> DEFINE start == RunStart(segments[index].left)
           end == RunEnd(segments[index].left)
           forward == op[start].pt.x < op[end].pt.x
           left == IF forward THEN start ELSE end
           right == IF forward THEN end ELSE start
           kept == IF op[left].has_horizontal_segment THEN None ELSE right
           new == [left |-> left, left_to_right |-> forward, right |-> kept]
<1>1. /\ pc = "update" /\ pc' = "update" /\ index <= Len(segments) /\ index \in Nat /\ index >= 1
      /\ PointsIntact(op) /\ segments \in Seq(Segment) /\ index' = index + 1 /\ UNCHANGED <<rec, call>>
  BY DEF IInv, UpdateSegment, PhaseIs, SegmentsAre, Converting
<1>2. Len(segments) \in Nat /\ index \in DOMAIN segments
  BY <1>1
<1>3. segments[index] \in Segment
  BY <1>1, <1>2
<1>4. start \in DOMAIN op /\ end \in DOMAIN op
  <2>1. segments[index].left \in DOMAIN op
    BY <1>3 DEF Segment
  <2> QED BY <1>1, <2>1, RunStartType, RunEndType
<1>5. DOMAIN op \subseteq Nat /\ Len(op) \in Nat
  BY <1>1 DEF PointsIntact
<1>6. left \in DOMAIN op /\ kept \in Nat
  BY <1>4, <1>5 DEF None
<1>7. forward \in BOOLEAN
  OBVIOUS
<1>8. /\ IF start = end
         THEN segments' = [segments EXCEPT ![index].right = None] /\ op' = op
         ELSE /\ segments' = [segments EXCEPT ![index] = new]
              /\ op' = [op EXCEPT ![left].has_horizontal_segment = TRUE]
  BY DEF UpdateSegment
<1> HIDE DEF start, end, forward, kept
<1>9. new \in Segment
  BY <1>6, <1>7 DEF Segment
<1>10. segments' \in Seq(Segment)
  <2>1. CASE start = end
    <3> DEFINE dropped == [segments[index] EXCEPT !.right = None]
    <3>1. dropped \in Segment
      BY <1>3 DEF Segment, None
    <3>2. segments' = [segments EXCEPT ![index] = dropped]
      BY <1>8, <2>1
    <3> HIDE DEF dropped
    <3> QED BY <1>1, <1>2, <3>1, <3>2
  <2>2. CASE start # end
    <3> HIDE DEF new
    <3> QED BY <1>1, <1>2, <1>8, <1>9, <2>2
  <2> QED BY <2>1, <2>2
<1>11. PointsIntact(op') /\ Len(op') = Len(op)
  <2>1. CASE start = end
    BY <1>1, <1>8, <2>1
  <2>2. CASE start # end
    <3> HIDE DEF left
    <3> DEFINE point == [op[left] EXCEPT !.has_horizontal_segment = TRUE]
    <3>1. op' = SetPoint(op, left, point)
      BY <1>8, <2>2 DEF SetPoint
    <3>2. op[left] \in Point /\ op \in Seq(Point)
      BY <1>1, <1>6, PointFields DEF PointsIntact
    <3>3. point \in Point /\ point.next = op[left].next /\ point.prev = op[left].prev
      BY <3>2 DEF Point
    <3> HIDE DEF point
    <3>4. PointIs(op', op, left, point)
      BY <1>6, <3>1, <3>2, <3>3, PointChanged
    <3>5. SameLinks(op', op)
      BY <3>3, <3>4 DEF PointIs, SameLinks
    <3> QED BY <1>1, <3>5, SameLinksKeepRings
  <2> QED BY <2>1, <2>2
<1>12. PairIs'
  BY <1>1 DEF PairIs, Pairing
<1> QED BY <1>1, <1>5, <1>10, <1>11, <1>12, ConvertStep DEF Converting

LEMMA SortSegmentsKeepsInvariant ==
  ASSUME IInv, SortSegments
  PROVE  IInv'
<1> DEFINE live == {i \in DOMAIN segments : segments[i].right # None}
<1>1. /\ pc = "update" /\ pc' \in {"pairs", "done"} /\ op' = op /\ UNCHANGED <<rec, call>>
      /\ limit' = Cardinality(live)
      /\ \/ pc' = "done" /\ UNCHANGED <<segments, index, second>>
         \/ ~ (limit' < 2) /\ pc' = "pairs" /\ segments' = Sorted /\ index' = 1 /\ second' = 2
  BY DEF SortSegments, Sorted
<1>2. PointsIntact(op) /\ segments \in Seq(Segment) /\ index \in Nat /\ index >= 1
  BY <1>1 DEF IInv, PhaseIs, SegmentsAre, Converting
<1>3. Sorted \in Seq(Segment) /\ Len(Sorted) = Len(segments)
  BY <1>2, SortedType
<1>4. Cardinality(live) \in Nat /\ Cardinality(live) <= Len(segments)
  <2>1. DOMAIN segments = 1 .. Len(segments) /\ Len(segments) \in Nat
    BY <1>2
  <2>2. IsFiniteSet(DOMAIN segments) /\ Cardinality(DOMAIN segments) = Len(segments)
    <3>1. /\ IsFiniteSet(1 .. Len(segments))
          /\ Cardinality(1 .. Len(segments)) = IF 1 > Len(segments) THEN 0 ELSE Len(segments) - 1 + 1
      BY <2>1, FS_Interval
    <3> QED BY <2>1, <3>1
  <2>3. live \subseteq DOMAIN segments
    OBVIOUS
  <2> HIDE DEF live
  <2> QED BY <2>2, <2>3, FS_Subset, FS_CardinalityType
<1> HIDE DEF live
<1>5. segments' \in Seq(Segment) /\ Len(segments') = Len(segments) /\ index' \in Nat /\ index' >= 1
  BY <1>1, <1>2, <1>3
<1>6. PairIs'
  <2>1. CASE pc' = "done"
    BY <2>1 DEF PairIs, Pairing
  <2>2. CASE pc' = "pairs"
    <3>1. ~ (limit' < 2) /\ index' = 1 /\ second' = 2 /\ limit' \in Nat /\ limit' <= Len(segments')
      BY <1>1, <1>4, <1>5, <2>2
    <3>2. second' \in Nat /\ limit' \in Nat /\ index' < second' /\ second' <= limit'
      BY <3>1
    <3> QED BY <3>1, <3>2 DEF PairIs
  <2> QED BY <1>1, <2>1, <2>2
<1>7. Len(op) <= Len(op') /\ PointsIntact(op')
  BY <1>1, <1>2 DEF PointsIntact
<1> QED BY <1>1, <1>5, <1>6, <1>7, ConvertStep DEF Converting

LEMMA NextPairIsPair ==
  ASSUME IInv, pc \in Pairing, NextPair, UNCHANGED <<limit, segments>>
  PROVE  /\ PairIs' /\ pc' \in Converting \cup {"done"}
         /\ index' \in Nat /\ index' >= 1
<1>1. /\ second \in Nat /\ limit \in Nat /\ index < second /\ second <= limit /\ limit <= Len(segments)
      /\ index \in Nat /\ index >= 1 /\ limit' = limit /\ segments' = segments
  BY DEF IInv, PhaseIs, PairIs
<1>2. pc' \in {"pairs", "done"} /\ (pc' = "pairs" => ~ (second = limit /\ index + 1 = limit))
  BY DEF NextPair
<1>3. CASE second < limit
  <2>1. second' = second + 1 /\ index' = index
    BY <1>3 DEF NextPair
  <2>2. second' \in Nat /\ index' < second' /\ second' <= limit
    BY <1>1, <1>3, <2>1
  <2> QED BY <1>1, <1>2, <2>1, <2>2 DEF PairIs, Converting
<1>4. CASE ~ (second < limit)
  <2>1. second' = index + 2 /\ index' = index + 1 /\ second = limit
    BY <1>1, <1>4 DEF NextPair
  <2>2. second' \in Nat /\ index' < second' /\ index' \in Nat /\ index' >= 1
    BY <1>1, <2>1
  <2>3. pc' = "pairs" => second' <= limit
    BY <1>1, <1>2, <2>1
  <2>4. PairIs'
    BY <1>1, <1>2, <2>2, <2>3 DEF PairIs, Pairing
  <2> QED BY <1>2, <2>2, <2>4 DEF Converting
<1> QED BY <1>3, <1>4

\* What the two loops over the pairs begin with.
LEMMA PairsAre ==
  ASSUME IInv, pc \in Pairing
  PROVE  /\ PointsIntact(op) /\ Len(op) \in Nat /\ segments \in Seq(Segment)
         /\ index \in DOMAIN segments /\ second \in DOMAIN segments
         /\ segments[index].left \in DOMAIN op /\ segments[second].left \in DOMAIN op
         /\ index \in Nat /\ index >= 1
<1>1. PointsIntact(op) /\ segments \in Seq(Segment) /\ index \in Nat /\ index >= 1
  BY DEF IInv, PhaseIs, SegmentsAre, Converting, Pairing
<1>2. index \in DOMAIN segments /\ second \in DOMAIN segments
  <2>1. second \in Nat /\ limit \in Nat /\ index < second /\ second <= limit /\ limit <= Len(segments)
    BY DEF IInv, PhaseIs, PairIs
  <2>2. Len(segments) \in Nat /\ DOMAIN segments = 1 .. Len(segments)
    BY <1>1
  <2> QED BY <1>1, <2>1, <2>2
<1>3. segments[index] \in Segment /\ segments[second] \in Segment
  BY <1>1, <1>2
<1> QED BY <1>1, <1>2, <1>3 DEF Segment, PointsIntact

LEMMA SkipPairKeepsInvariant ==
  ASSUME IInv, SkipPair
  PROVE  IInv'
<1>1. pc = "pairs" /\ NextPair /\ UNCHANGED <<op, rec, limit, segments, call>>
  BY DEF SkipPair
<1>2. PairIs' /\ pc' \in Converting \cup {"done"} /\ index' \in Nat /\ index' >= 1
  BY <1>1, NextPairIsPair DEF Pairing
<1>3. PointsIntact(op') /\ Len(op) <= Len(op') /\ segments' \in Seq(Segment)
  <2>1. PointsIntact(op) /\ Len(op) \in Nat /\ segments \in Seq(Segment)
    BY <1>1, PairsAre DEF Pairing
  <2> QED BY <1>1, <2>1
<1> QED BY <1>1, <1>2, <1>3, ConvertStep DEF Converting

LEMMA TakePairKeepsInvariant ==
  ASSUME IInv, TakePair
  PROVE  IInv'
<1>1. pc = "pairs" /\ pc' = "advance first" /\ UNCHANGED <<op, rec, index, second, limit, segments, call>>
  BY DEF TakePair
<1>2. PairIs'
  BY <1>1 DEF IInv, PhaseIs, PairIs, Pairing
<1>3. PointsIntact(op) /\ Len(op) \in Nat /\ segments \in Seq(Segment) /\ index \in Nat /\ index >= 1
  BY <1>1, PairsAre DEF Pairing
<1>4. op' = op /\ segments' = segments /\ index' = index
  BY <1>1
<1>5. PointsIntact(op') /\ Len(op) <= Len(op')
  BY <1>3, <1>4
<1>6. segments' \in Seq(Segment) /\ index' \in Nat /\ index' >= 1
  BY <1>3, <1>4
<1> QED BY <1>1, <1>2, <1>5, <1>6, ConvertStep DEF Converting

\* One of the two segments goes on to the next point of its line.
MovedOn(i) == [segments EXCEPT ![i].left = Onward(segments[i])]

LEMMA MovedOnType ==
  ASSUME PointsIntact(op), segments \in Seq(Segment), NEW i \in DOMAIN segments
  PROVE  MovedOn(i) \in Seq(Segment) /\ Len(MovedOn(i)) = Len(segments)
<1>1. segments[i] \in Segment
  OBVIOUS
<1>2. segments[i].left \in DOMAIN op
  BY <1>1 DEF Segment
<1>3. Onward(segments[i]) \in DOMAIN op
  BY <1>2, LinksInDomain DEF Onward
<1> DEFINE new == [segments[i] EXCEPT !.left = Onward(segments[i])]
<1>4. new \in Segment
  <2> DEFINE q == Onward(segments[i])
  <2> HIDE DEF q
  <2>1. [segments[i] EXCEPT !.left = q] \in Segment
    BY <1>1, <1>3 DEF Segment, q
  <2> QED BY <2>1 DEF q
<1>5. MovedOn(i) = [segments EXCEPT ![i] = new]
  BY DEF MovedOn
<1> HIDE DEF new
<1> QED BY <1>4, <1>5

LEMMA AdvanceFirstKeepsInvariant ==
  ASSUME IInv, AdvanceFirst
  PROVE  IInv'
<1>1. /\ pc = "advance first" /\ pc' \in {"advance first", "advance second"}
      /\ UNCHANGED <<op, rec, index, second, limit, call>>
      /\ segments' = MovedOn(index) \/ segments' = segments
  BY DEF AdvanceFirst, MovedOn
<1>2. /\ PointsIntact(op) /\ Len(op) \in Nat /\ segments \in Seq(Segment)
      /\ index \in DOMAIN segments /\ index \in Nat /\ index >= 1
  BY <1>1, PairsAre DEF Pairing
<1>3. segments' \in Seq(Segment) /\ Len(segments') = Len(segments)
  <2>1. MovedOn(index) \in Seq(Segment) /\ Len(MovedOn(index)) = Len(segments)
    BY <1>2, MovedOnType
  <2> QED BY <1>1, <1>2, <2>1
<1>4. PairIs'
  BY <1>1, <1>3 DEF IInv, PhaseIs, PairIs, Pairing
<1>5. PointsIntact(op') /\ Len(op) <= Len(op') /\ index' \in Nat /\ index' >= 1
  <2>1. op' = op /\ index' = index
    BY <1>1
  <2>2. PointsIntact(op') /\ Len(op) <= Len(op')
    BY <1>2, <2>1
  <2> QED BY <1>2, <2>1, <2>2
<1> QED BY <1>1, <1>3, <1>4, <1>5, ConvertStep DEF Converting

LEMMA AdvanceSecondKeepsInvariant ==
  ASSUME IInv, AdvanceSecond
  PROVE  IInv'
<1>1. /\ pc = "advance second" /\ pc' = "advance second"
      /\ UNCHANGED <<op, rec, index, second, limit, call>> /\ segments' = MovedOn(second)
  BY DEF AdvanceSecond, MovedOn
<1>2. /\ PointsIntact(op) /\ Len(op) \in Nat /\ segments \in Seq(Segment)
      /\ second \in DOMAIN segments /\ index \in Nat /\ index >= 1
  BY <1>1, PairsAre DEF Pairing
<1>3. segments' \in Seq(Segment) /\ Len(segments') = Len(segments)
  BY <1>1, <1>2, MovedOnType
<1>4. PairIs'
  BY <1>1, <1>3 DEF IInv, PhaseIs, PairIs, Pairing
<1>5. PointsIntact(op') /\ Len(op) <= Len(op') /\ index' \in Nat /\ index' >= 1
  <2>1. op' = op /\ index' = index
    BY <1>1
  <2>2. PointsIntact(op') /\ Len(op) <= Len(op')
    BY <1>2, <2>1
  <2> QED BY <1>2, <2>1, <2>2
<1> QED BY <1>1, <1>3, <1>4, <1>5, ConvertStep DEF Converting

LEMMA JoinPairKeepsInvariant ==
  ASSUME IInv, JoinPair
  PROVE  IInv'
<1> DEFINE rightward == IF segments[index].left_to_right THEN index ELSE second
           leftward == IF segments[index].left_to_right THEN second ELSE index
           p == segments[rightward].left
           q == segments[leftward].left
<1>1. /\ pc = "advance second" /\ NextPair /\ UNCHANGED <<rec, limit, segments, call>>
      /\ op' = DuplicateBefore(DuplicateAfter(op, p), q)
  BY DEF JoinPair
<1>2. /\ PointsIntact(op) /\ Len(op) \in Nat /\ segments \in Seq(Segment)
      /\ p \in DOMAIN op /\ q \in DOMAIN op
  BY <1>1, PairsAre DEF Pairing
<1> HIDE DEF p, q
<1>3. /\ PointsIntact(DuplicateAfter(op, p)) /\ Len(DuplicateAfter(op, p)) = Len(op) + 1
  BY <1>2, DuplicateAfterKeepsRings
<1>4. q \in DOMAIN DuplicateAfter(op, p)
  <2>1. /\ DOMAIN op = 1 .. Len(op)
        /\ DOMAIN DuplicateAfter(op, p) = 1 .. Len(DuplicateAfter(op, p))
    BY <1>2, <1>3 DEF PointsIntact
  <2> QED BY <1>2, <1>3, <2>1
<1>5. PointsIntact(op') /\ Len(op') = Len(op) + 1 + 1
  BY <1>1, <1>3, <1>4, DuplicateBeforeKeepsRings
<1>6. Len(op) <= Len(op') /\ segments' \in Seq(Segment)
  <2>1. Len(op) <= Len(op')
    BY <1>2, <1>5
  <2>2. segments' = segments
    BY <1>1
  <2> QED BY <1>2, <2>1, <2>2
<1>7. PairIs' /\ pc' \in Converting \cup {"done"} /\ index' \in Nat /\ index' >= 1
  BY <1>1, NextPairIsPair DEF Pairing
<1> QED BY <1>1, <1>5, <1>6, <1>7, ConvertStep DEF Converting

-----------------------------------------------------------------------------
(* The joins.                                                              *)

LEMMA JoinStep ==
  ASSUME IInv, pc = "joins", index' = index + 1, UNCHANGED <<pc, joins, call>>,
         PointsIntact(op'), Len(op') = Len(op), RecordsAre(rec', Len(op')), OutrecsAre(op', rec'), Chains(rec')
  PROVE  IInv'
<1>1. call = <<>> /\ call' = <<>> /\ joins \in Seq((DOMAIN op) \X (DOMAIN op))
  BY DEF IInv, PhaseIs, JoinsAre
<1>2. DOMAIN op' = DOMAIN op
  BY DEF IInv, PointsIntact
<1>3. StackIs(call', rec', Len(op'))
  BY <1>1 DEF StackIs
<1>4. JoinsAre'
  BY <1>1, <1>2 DEF JoinsAre
<1>5. index' \in Nat /\ index' >= 1
  BY DEF IInv, PhaseIs
<1> QED BY <1>1, <1>3, <1>4, <1>5 DEF IInv, PhaseIs, SegmentsAre, PairIs, Converting, Pairing

LEMMA OutrecsStay ==
  ASSUME NEW points, NEW changed, DOMAIN changed = DOMAIN points, NEW records, NEW longer,
         OutrecsAre(points, records), DOMAIN records \subseteq DOMAIN longer, NEW r \in DOMAIN longer,
         OutrecsOr(changed, points, r)
  PROVE  OutrecsAre(changed, longer)
BY DEF OutrecsAre, OutrecsOr

\* The two points of a join, and the records of their rings.
JoinIs(j) ==
  /\ j.first \in DOMAIN op /\ j.second \in DOMAIN op /\ j.back \in DOMAIN op
  /\ j.first_record \in DOMAIN rec /\ rec[j.first_record].pts # None
  /\ j.second_record \in DOMAIN rec /\ rec[j.second_record].pts # None

\* What the engine is like while it processes the joins.
Joins ==
  /\ PointsIntact(op) /\ Len(op) \in Nat /\ DOMAIN op = 1 .. Len(op)
  /\ RecordsAre(rec, Len(op)) /\ Sequence(rec) /\ Len(rec) \in Nat /\ DOMAIN rec = 1 .. Len(rec)
  /\ OutrecsAre(op, rec) /\ Chains(rec)

LEMMA JoiningType ==
  ASSUME IInv, pc = "joins", index <= Len(joins)
  PROVE  Joins /\ JoinIs(Joining)
<1>1. /\ PointsIntact(op) /\ RecordsAre(rec, Len(op)) /\ joins \in Seq((DOMAIN op) \X (DOMAIN op))
      /\ OutrecsAre(op, rec) /\ Chains(rec) /\ index \in Nat /\ index >= 1
  BY DEF IInv, PhaseIs, JoinsAre
<1>2. joins[index] \in (DOMAIN op) \X (DOMAIN op)
  BY <1>1
<1> DEFINE p == joins[index][1]
           q == joins[index][2]
<1>3. p \in DOMAIN op /\ q \in DOMAIN op
  BY <1>2
<1>4. Joining = [first |-> p, second |-> q, back |-> op[p].next,
                 first_record |-> get_real_outrec(rec, op[p].outrec),
                 second_record |-> get_real_outrec(rec, op[q].outrec)]
  BY DEF Joining
<1> HIDE DEF p, q
<1>5. op[p].outrec \in DOMAIN rec /\ op[q].outrec \in DOMAIN rec
  BY <1>1, <1>3 DEF OutrecsAre
<1>6. op[p].next \in DOMAIN op
  BY <1>1, <1>3, LinksInDomain
<1>7. JoinIs(Joining)
  BY <1>1, <1>3, <1>4, <1>5, <1>6, RealIsLive DEF JoinIs
<1>8. Joins
  <2>1. Sequence(rec) /\ op \in Seq(Point)
    BY <1>1 DEF RecordsAre, PointsIntact
  <2>2. Len(rec) \in Nat /\ DOMAIN rec = 1 .. Len(rec)
    BY <2>1, SequenceType
  <2>3. Len(op) \in Nat /\ DOMAIN op = 1 .. Len(op)
    BY <2>1
  <2> QED BY <1>1, <2>1, <2>2, <2>3 DEF Joins
<1> QED BY <1>7, <1>8

\* The owners of the records there were are what they are.
OwnersAre(changed, records) == \A x \in DOMAIN records : changed[x].owner = records[x].owner

\* A record more, that nobody has as an owner.
LeafAdded(changed, records) ==
  /\ DOMAIN changed = 1 .. Len(records) + 1
  /\ OwnersAre(changed, records)
  /\ changed[Len(records) + 1].owner \in 0 .. Len(records)

\* A state of the points and records in the middle of a join; both rings are live.
HalfJoined(o, first) ==
  /\ PointsIntact(o.op) /\ Len(o.op) = Len(op)
  /\ RecordsAre(o.rec, Len(op)) /\ Len(o.rec) = Len(rec) + 1
  /\ OutrecsAre(o.op, o.rec)
  /\ SameChains(o.rec, rec) /\ OwnersAre(o.rec, rec)
  /\ o.rec[first].pts # None /\ o.rec[first].pts \in 0 .. Len(op)
  /\ o.rec[Len(rec) + 1].pts # None /\ o.rec[Len(rec) + 1].pts \in 0 .. Len(op)

LEMMA SplitRingType ==
  ASSUME Joins, NEW j, JoinIs(j)
  PROVE  HalfJoined(WithSplitRing(j), j.first_record)
<1> DEFINE n == Len(rec) + 1
           f == j.first_record
           m == Len(op)
           records == Append(rec, NewRecord(j.back, None))
           linked == Linked(j.first, j.second)
           points == fix_output_record_points(linked, records, Len(records))
           changed == [points EXCEPT ![j.first].outrec = f]
           other == [records EXCEPT ![f].pts = j.first]
<1>1. /\ RecordsAre(rec, m) /\ m \in Nat /\ Len(rec) \in Nat /\ DOMAIN rec = 1 .. Len(rec)
      /\ j.back \in 0 .. m /\ j.back # None /\ j.first \in 0 .. m /\ j.first # None
      /\ f \in DOMAIN rec /\ rec[f].pts # None
  BY DEF Joins, JoinIs, None
<1>2. /\ RecordsAre(records, m) /\ Len(records) = n /\ DOMAIN records = 1 .. n
      /\ records[n] = NewRecord(j.back, None)
      /\ \A x \in DOMAIN rec : records[x] = rec[x]
  <2>1. None \in 0 .. Len(rec) + 1
    BY <1>1 DEF None
  <2> QED BY <1>1, <2>1, RecordAppended
<1>3. n \in DOMAIN records /\ n \in Nat /\ n \notin DOMAIN rec /\ DOMAIN rec \subseteq DOMAIN records
  BY <1>1, <1>2
<1>4. records[n].pts # None /\ records[n].pts \in 0 .. m
  BY <1>1, <1>2 DEF NewRecord
<1>5. f \in DOMAIN records /\ records[f].pts # None /\ f # n /\ f \in Nat /\ records[f].pts \in 0 .. m
  <2>1. f \in DOMAIN records /\ records[f].pts # None /\ f # n /\ f \in Nat
    BY <1>1, <1>2, <1>3
  <2>2. RecordIs(records[f], n, m)
    BY <1>2, <2>1 DEF RecordsAre
  <2> QED BY <2>1, <2>2 DEF RecordIs
<1>6. SameChains(records, rec) /\ OwnersAre(records, rec)
  BY <1>1, <1>2, <1>4 DEF SameChains, OwnersAre
<1> HIDE DEF records, n
<1>7. PointsIntact(linked) /\ Len(linked) = m /\ OutrecsAre(linked, rec) /\ DOMAIN linked = DOMAIN op
  <2>1. /\ PointsIntact(linked) /\ Len(linked) = m
        /\ \A x \in DOMAIN op : linked[x].outrec = op[x].outrec
    BY LinkedKeepsRings DEF Joins, JoinIs
  <2>2. DOMAIN linked = DOMAIN op
    BY <2>1 DEF PointsIntact, Joins
  <2> QED BY <2>1, <2>2 DEF OutrecsAre, Joins
<1> HIDE DEF linked
<1>8. PointsIntact(points) /\ Len(points) = m /\ OutrecsAre(points, records) /\ DOMAIN points = DOMAIN op
  <2>1. SameLinks(points, linked) /\ OutrecsOr(points, linked, n)
    BY <1>2, <1>3, <1>7, FixedPointsKeepRings
  <2> HIDE DEF points
  <2>2. PointsIntact(points) /\ Len(points) = m /\ DOMAIN points = DOMAIN linked
    BY <1>7, <2>1, SameLinksKeepRings DEF SameLinks
  <2> QED BY <1>3, <1>7, <2>1, <2>2, OutrecsStay
<1> HIDE DEF points
<1>9. PointsIntact(changed) /\ Len(changed) = m /\ OutrecsAre(changed, records)
  <2>1. SameLinks(changed, points) /\ OutrecsOr(changed, points, f)
    BY <1>5, <1>8, OutrecChangeKeepsLinks
  <2> HIDE DEF changed
  <2>2. PointsIntact(changed) /\ Len(changed) = m /\ DOMAIN changed = DOMAIN points
    BY <1>8, <2>1, SameLinksKeepRings DEF SameLinks
  <2> QED BY <1>5, <1>8, <2>1, <2>2, OutrecsStay
<1>10. RecordsAre(other, m) /\ FieldIs(other, records, f, "pts", j.first)
  <2>1. other = SetField(records, f, "pts", j.first)
    BY DEF SetField
  <2>2. "pts" \in Fields /\ Fits("pts", j.first, Len(records), m)
    BY <1>1 DEF Fields, Fits
  <2> HIDE DEF other
  <2> QED BY <1>1, <1>2, <1>5, <2>1, <2>2, FieldSet
<1>11. WithSplitRing(j) = IF points[rec[f].pts].outrec = Len(records)
                          THEN [op |-> changed, rec |-> other] ELSE [op |-> points, rec |-> records]
  BY DEF WithSplitRing, points, linked, records
<1> HIDE DEF changed, other
<1>12. /\ Len(other) = n /\ DOMAIN other = DOMAIN records /\ SameChains(other, rec) /\ OwnersAre(other, rec)
       /\ other[f].pts # None /\ other[f].pts \in 0 .. m
       /\ other[n].pts # None /\ other[n].pts \in 0 .. m
  <2>1. "pts" \in Fields /\ "owner" \in Fields
    BY DEF Fields
  <2>2. /\ Len(other) = n /\ DOMAIN other = DOMAIN records
        /\ \A x \in DOMAIN records : /\ other[x].pts = IF x = f THEN j.first ELSE records[x].pts
                                     /\ other[x].owner = records[x].owner
    BY <1>2, <1>10, <2>1 DEF FieldIs
  <2>3. SameChains(other, rec) /\ OwnersAre(other, rec)
    BY <1>1, <1>2, <1>4, <1>5, <1>6, <2>2 DEF SameChains, OwnersAre
  <2> QED BY <1>1, <1>3, <1>4, <1>5, <2>2, <2>3
<1>13. OutrecsAre(changed, other)
  BY <1>9, <1>12 DEF OutrecsAre
<1>14. CASE points[rec[f].pts].outrec = Len(records)
  BY <1>9, <1>10, <1>11, <1>12, <1>13, <1>14 DEF HalfJoined, n
<1>15. CASE points[rec[f].pts].outrec # Len(records)
  BY <1>2, <1>4, <1>5, <1>6, <1>8, <1>11, <1>15 DEF HalfJoined, n
<1> QED BY <1>14, <1>15

LEMMA ExchangedRingsType ==
  ASSUME Joins, NEW first \in DOMAIN rec, NEW o, HalfJoined(o, first)
  PROVE  HalfJoined(ExchangedRings(o, first, Len(rec) + 1), first)
<1> DEFINE n == Len(rec) + 1
           m == Len(op)
           r1 == SetField(o.rec, first, "pts", o.rec[n].pts)
           r2 == SetField(r1, n, "pts", o.rec[first].pts)
           o1 == fix_output_record_points(o.op, r2, first)
           o2 == fix_output_record_points(o1, r2, n)
<1>1. /\ m \in Nat /\ n \in Nat /\ first \in Nat /\ first # n
      /\ PointsIntact(o.op) /\ Len(o.op) = m /\ RecordsAre(o.rec, m) /\ Len(o.rec) = n
      /\ DOMAIN o.rec = 1 .. n /\ first \in DOMAIN o.rec /\ n \in DOMAIN o.rec
      /\ OutrecsAre(o.op, o.rec) /\ SameChains(o.rec, rec)
      /\ o.rec[first].pts # None /\ o.rec[n].pts # None
      /\ o.rec[first].pts \in 0 .. m /\ o.rec[n].pts \in 0 .. m
  <2>1. Sequence(o.rec) /\ Len(o.rec) = n
    BY DEF HalfJoined, RecordsAre
  <2>2. DOMAIN o.rec = 1 .. n
    BY <2>1, SequenceType
  <2>3. m \in Nat /\ n \in Nat /\ first \in 1 .. Len(rec) /\ Len(rec) \in Nat
    BY DEF Joins
  <2>4. first \in Nat /\ first # n /\ first \in 1 .. n /\ n \in 1 .. n
    BY <2>3
  <2> QED BY <2>1, <2>2, <2>3, <2>4 DEF HalfJoined
<1>2. "pts" \in Fields /\ "owner" \in Fields
  BY DEF Fields
<1>3. RecordsAre(r1, m) /\ FieldIs(r1, o.rec, first, "pts", o.rec[n].pts)
  <2>1. Fits("pts", o.rec[n].pts, Len(o.rec), m)
    BY <1>1 DEF Fits
  <2> HIDE DEF n, m
  <2> QED BY <1>1, <1>2, <2>1, FieldSet
<1>4. Len(r1) = n /\ DOMAIN r1 = 1 .. n
  BY <1>1, <1>3 DEF FieldIs
<1>5. RecordsAre(r2, m) /\ FieldIs(r2, r1, n, "pts", o.rec[first].pts)
  <2>1. Fits("pts", o.rec[first].pts, Len(r1), m) /\ n \in DOMAIN r1
    BY <1>1, <1>4 DEF Fits
  <2> HIDE DEF n, m, r1
  <2> QED BY <1>1, <1>2, <1>3, <2>1, FieldSet
<1>6. [o.rec EXCEPT ![first].pts = o.rec[n].pts, ![n].pts = o.rec[first].pts] = r2
  BY DEF SetField
<1>7. ExchangedRings(o, first, n) = [op |-> o2, rec |-> r2]
  BY <1>6 DEF ExchangedRings
<1> HIDE DEF r1, r2
<1>8. /\ Len(r2) = n /\ DOMAIN r2 = 1 .. n
      /\ \A x \in 1 .. n : /\ r2[x].pts = IF x = n THEN o.rec[first].pts
                                         ELSE IF x = first THEN o.rec[n].pts ELSE o.rec[x].pts
                           /\ r2[x].owner = o.rec[x].owner
  BY <1>1, <1>2, <1>3, <1>4, <1>5 DEF FieldIs
<1> HIDE DEF n, m
<1>9. SameChains(r2, rec) /\ OwnersAre(r2, rec)
  <2>1. OwnersAre(o.rec, rec)
    BY DEF HalfJoined
  <2> QED BY <1>1, <1>8, <2>1 DEF SameChains, OwnersAre
<1>10. PointsIntact(o1) /\ Len(o1) = m /\ DOMAIN o1 = DOMAIN o.op /\ OutrecsAre(o1, r2)
  <2>1. SameLinks(o1, o.op) /\ OutrecsOr(o1, o.op, first)
    BY <1>1, FixedPointsKeepRings
  <2> HIDE DEF o1
  <2>2. PointsIntact(o1) /\ Len(o1) = m /\ DOMAIN o1 = DOMAIN o.op
    BY <1>1, <2>1, SameLinksKeepRings DEF SameLinks
  <2> QED BY <1>1, <1>8, <2>1, <2>2, OutrecsStay
<1> HIDE DEF o1
<1>11. PointsIntact(o2) /\ Len(o2) = m /\ OutrecsAre(o2, r2)
  <2>1. SameLinks(o2, o1) /\ OutrecsOr(o2, o1, n)
    BY <1>1, <1>10, FixedPointsKeepRings
  <2> HIDE DEF o2
  <2>2. PointsIntact(o2) /\ Len(o2) = m /\ DOMAIN o2 = DOMAIN o1
    BY <1>10, <2>1, SameLinksKeepRings DEF SameLinks
  <2> QED BY <1>1, <1>8, <1>10, <2>1, <2>2, OutrecsStay
<1> HIDE DEF o2
<1>12. /\ r2[first].pts # None /\ r2[first].pts \in 0 .. m /\ r2[n].pts # None /\ r2[n].pts \in 0 .. m
  BY <1>1, <1>8
<1> QED BY <1>5, <1>7, <1>8, <1>9, <1>11, <1>12 DEF HalfJoined, m, n

LEMMA JoinWithinRecordType ==
  ASSUME Joins, NEW j, JoinIs(j), JoinWithinRecord(j)
  PROVE  PointsIntact(op') /\ Len(op') = Len(op) /\ RecordsAre(rec', Len(op))
         /\ OutrecsAre(op', rec') /\ Chains(rec') /\ LeafAdded(rec', rec)
<1> DEFINE n == Len(rec) + 1
           m == Len(op)
           f == j.first_record
           split == WithSplitRing(j)
           exchanged == ExchangedRings(split, f, n)
<1>1. HalfJoined(split, f)
  BY SplitRingType
<1>2. f \in DOMAIN rec /\ Len(split.rec) = n
  BY <1>1 DEF JoinIs, HalfJoined
<1>3. HalfJoined(exchanged, f)
  BY <1>1, <1>2, ExchangedRingsType
<1> HIDE DEF split
<1>4. PICK inner \in BOOLEAN :
        /\ op' = IF inner THEN exchanged.op ELSE split.op
        /\ rec' = [IF inner THEN exchanged.rec ELSE split.rec EXCEPT
                     ![n].owner = IF using_polytree /\ ~ inner
                                       /\ ~ path2_contains_path1(split.op, j.back, split.rec[f].pts)
                                  THEN split.rec[f].owner ELSE f,
                     ![f].splits = IF using_polytree THEN Append(@, n) ELSE @]
  BY ONLY <1>2, JoinWithinRecord(j), ZenonT(30) DEF JoinWithinRecord, split
<1> DEFINE o == IF inner THEN exchanged ELSE split
           owner == IF using_polytree /\ ~ inner
                         /\ ~ path2_contains_path1(split.op, j.back, split.rec[f].pts)
                    THEN split.rec[f].owner ELSE f
           r1 == SetField(o.rec, n, "owner", owner)
           splits == IF using_polytree THEN Append(r1[f].splits, n) ELSE r1[f].splits
           r2 == SetField(r1, f, "splits", splits)
<1>5. op' = o.op
  BY <1>4
<1>6. rec' = r2
  <2>1. rec' = [o.rec EXCEPT ![n].owner = owner,
                             ![f].splits = IF using_polytree THEN Append(@, n) ELSE @]
    BY <1>4
  <2> HIDE DEF o, owner, n, f
  <2> QED BY <2>1 DEF SetField
<1>7. HalfJoined(o, f)
  BY <1>1, <1>3
<1>8. owner \in 0 .. n /\ owner \in 0 .. Len(rec)
  <2>1. Sequence(split.rec) /\ Len(split.rec) = n /\ RecordsAre(split.rec, m)
    BY <1>1 DEF HalfJoined, RecordsAre
  <2>2. Len(rec) \in Nat /\ DOMAIN rec = 1 .. Len(rec) /\ DOMAIN split.rec = 1 .. n
    BY <2>1, SequenceType DEF Joins
  <2>3. f \in 0 .. n /\ f \in DOMAIN split.rec
    BY <1>2, <2>2
  <2>4. split.rec[f].owner \in 0 .. Len(rec)
    <3>1. split.rec[f].owner = rec[f].owner
      BY <1>1, <1>2 DEF HalfJoined, OwnersAre
    <3>2. RecordIs(rec[f], Len(rec), m)
      BY <1>2 DEF Joins, RecordsAre
    <3> QED BY <3>1, <3>2 DEF RecordIs
  <2>5. f \in 0 .. Len(rec) /\ 0 .. Len(rec) \subseteq 0 .. n
    BY <1>2, <2>2
  <2> HIDE DEF n, f
  <2> QED BY <2>4, <2>5
<1> HIDE DEF o, owner, exchanged
<1>9. /\ RecordsAre(o.rec, m) /\ Len(o.rec) = n /\ DOMAIN o.rec = 1 .. n /\ n \in DOMAIN o.rec
      /\ f \in DOMAIN o.rec /\ m \in Nat /\ n \in Nat
  <2>1. Sequence(o.rec) /\ Len(o.rec) = n /\ RecordsAre(o.rec, m)
    BY <1>7 DEF HalfJoined, RecordsAre
  <2>2. Len(rec) \in Nat /\ DOMAIN rec = 1 .. Len(rec) /\ DOMAIN o.rec = 1 .. n
    BY <2>1, SequenceType DEF Joins
  <2> QED BY <1>2, <2>1, <2>2 DEF Joins
<1>10. "owner" \in Fields /\ "splits" \in Fields /\ "pts" \in Fields
  BY DEF Fields
<1>11. RecordsAre(r1, m) /\ FieldIs(r1, o.rec, n, "owner", owner)
  <2>1. Fits("owner", owner, Len(o.rec), m)
    BY <1>8, <1>9 DEF Fits
  <2> HIDE DEF n, m
  <2> QED BY <1>9, <1>10, <2>1, FieldSet
<1>12. Len(r1) = n /\ DOMAIN r1 = 1 .. n
  BY <1>9, <1>11 DEF FieldIs
<1> HIDE DEF r1
<1>13. splits \in Seq(1 .. n)
  <2>1. r1[f].splits \in Seq(1 .. n)
    BY <1>9, <1>11, <1>12, SplitsAreSequences
  <2> DEFINE old == r1[f].splits
  <2>2. old \in Seq(1 .. n) /\ n \in 1 .. n
    BY <1>9, <2>1
  <2> HIDE DEF old, n
  <2>3. Append(old, n) \in Seq(1 .. n)
    BY <2>2
  <2> QED BY <2>2, <2>3 DEF old
<1> HIDE DEF splits
<1>14. RecordsAre(r2, m) /\ FieldIs(r2, r1, f, "splits", splits)
  <2>1. Fits("splits", splits, Len(r1), m)
    BY <1>12, <1>13 DEF Fits
  <2> HIDE DEF n, m, f
  <2> QED BY <1>9, <1>10, <1>11, <1>12, <2>1, FieldSet
<1> HIDE DEF r2
<1>15. /\ DOMAIN r2 = 1 .. n
       /\ \A x \in 1 .. n : /\ r2[x].pts = o.rec[x].pts
                            /\ r2[x].owner = IF x = n THEN owner ELSE o.rec[x].owner
  BY <1>9, <1>10, <1>11, <1>12, <1>14 DEF FieldIs
<1>16. OutrecsAre(op', r2)
  BY <1>5, <1>7, <1>9, <1>15 DEF HalfJoined, OutrecsAre
<1>17. Chains(r2)
  <2>1. SameChains(o.rec, rec) /\ o.rec[n].pts # None /\ Len(rec) \in Nat /\ DOMAIN rec = 1 .. Len(rec)
    BY <1>7 DEF HalfJoined, Joins
  <2>2. n \notin DOMAIN rec
    BY <2>1
  <2>3. SameChains(r2, rec)
    <3> HIDE DEF n
    <3> QED BY <1>9, <1>15, <2>1, <2>2 DEF SameChains
  <2> QED BY <2>3, ChainsKept DEF Joins
<1>18. LeafAdded(r2, rec)
  <2>1. OwnersAre(o.rec, rec) /\ DOMAIN rec = 1 .. Len(rec) /\ Len(rec) \in Nat
    BY <1>7 DEF HalfJoined, Joins
  <2>2. n \notin DOMAIN rec /\ DOMAIN rec \subseteq 1 .. n /\ n \in 1 .. n
    BY <2>1
  <2>3. n = Len(rec) + 1
    OBVIOUS
  <2> HIDE DEF n
  <2> QED BY <1>8, <1>15, <2>1, <2>2, <2>3 DEF LeafAdded, OwnersAre
<1> QED BY <1>5, <1>6, <1>7, <1>14, <1>16, <1>17, <1>18 DEF HalfJoined

LEMMA MovedSplitsType ==
  ASSUME NEW m \in Nat, NEW records, RecordsAre(records, m), NEW from \in DOMAIN records,
         NEW to \in DOMAIN records
  PROVE  /\ RecordsAre(move_splits(records, from, to), m)
         /\ DOMAIN move_splits(records, from, to) = DOMAIN records
         /\ \A r \in DOMAIN records : /\ move_splits(records, from, to)[r].owner = records[r].owner
                                      /\ move_splits(records, from, to)[r].pts = records[r].pts
<1> DEFINE D == DOMAIN records
           S == Seq(D) \X Seq(D)
           next(s) == IF s[2] = <<>> THEN s
                      ELSE <<IF Head(s[2]) = to THEN s[1] ELSE Append(s[1], Head(s[2])), Tail(s[2])>>
           step == [s \in S |-> next(s)]
           start == <<records[to].splits, records[from].splits>>
           moved == Iterated(step, start, Len(records[from].splits))
           r1 == SetField(records, from, "splits", <<>>)
           r2 == SetField(r1, to, "splits", moved[1])
<1>1. move_splits(records, from, to) = r2
  BY DEF move_splits, SetField
<1>2. Sequence(records) /\ D = 1 .. Len(records) /\ Len(records) \in Nat
  <2>1. Sequence(records)
    BY DEF RecordsAre
  <2> QED BY <2>1, SequenceType
<1>3. start \in S /\ Len(records[from].splits) \in Nat
  BY <1>2, SplitsAreSequences
<1>4. ASSUME NEW s \in S PROVE next(s) \in S
  <2> DEFINE a == s[1]
             b == s[2]
  <2>1. a \in Seq(D) /\ b \in Seq(D) /\ s = <<a, b>>
    OBVIOUS
  <2> HIDE DEF a, b, D
  <2>2. CASE b = <<>>
    BY <2>1, <2>2
  <2>3. CASE b # <<>>
    <3>1. Head(b) \in D /\ Tail(b) \in Seq(D)
      BY <2>1, <2>3
    <3>2. Append(a, Head(b)) \in Seq(D)
      BY <2>1, <3>1
    <3>3. next(s) = <<IF Head(b) = to THEN a ELSE Append(a, Head(b)), Tail(b)>>
      BY <2>1, <2>3
    <3>4. <<IF Head(b) = to THEN a ELSE Append(a, Head(b)), Tail(b)>> \in S
      BY <2>1, <3>1, <3>2
    <3> QED BY ONLY <3>3, <3>4
  <2> QED BY <2>2, <2>3
<1>5. StaysIn(step, S)
  <2> HIDE DEF next, S
  <2> QED BY <1>4 DEF StaysIn
<1>6. moved \in S
  <2> HIDE DEF step, S, start
  <2> QED BY <1>3, <1>5, IteratedIn
<1>7. moved[1] \in Seq(1 .. Len(records))
  <2> HIDE DEF moved
  <2> QED BY <1>2, <1>6
<1> HIDE DEF moved
<1>8. "owner" \in Fields /\ "splits" \in Fields /\ "pts" \in Fields
  BY DEF Fields
<1>9. RecordsAre(r1, m) /\ FieldIs(r1, records, from, "splits", <<>>)
  <2>1. Fits("splits", <<>>, Len(records), m)
    BY DEF Fits
  <2> QED BY <1>8, <2>1, FieldSet
<1>10. Len(r1) = Len(records) /\ DOMAIN r1 = DOMAIN records
  BY <1>9 DEF FieldIs
<1> HIDE DEF r1
<1>11. RecordsAre(r2, m) /\ FieldIs(r2, r1, to, "splits", moved[1])
  <2>1. Fits("splits", moved[1], Len(r1), m)
    BY <1>7, <1>10 DEF Fits
  <2> QED BY <1>8, <1>9, <1>10, <2>1, FieldSet
<1> HIDE DEF r2
<1> QED BY <1>1, <1>8, <1>9, <1>10, <1>11 DEF FieldIs

\* What set_owner may change: the owner of the new owner, and it is the owner then.
OwnerIsSet(changed, records, r, owner) ==
  /\ DOMAIN changed = DOMAIN records
  /\ \A x \in DOMAIN records : changed[x].pts = records[x].pts
  /\ \A x \in DOMAIN records : x \notin {r, owner} => changed[x].owner = records[x].owner
  /\ changed[r].owner = owner

LEMMA SetOwnerType ==
  ASSUME NEW m \in Nat, NEW records, RecordsAre(records, m), NEW r \in DOMAIN records,
         NEW owner \in DOMAIN records
  PROVE  /\ RecordsAre(set_owner(records, r, owner), m)
         /\ OwnerIsSet(set_owner(records, r, owner), records, r, owner)
<1> DEFINE n == Len(records)
           found == get_real_outrec(records, records[owner].owner)
           real == SetField(records, owner, "owner", found)
           second_owner == IF r = owner \/ r \in Owners(real, owner) THEN records[r].owner
                           ELSE real[owner].owner
           r1 == SetField(real, owner, "owner", second_owner)
           r2 == SetField(r1, r, "owner", owner)
<1>1. set_owner(records, r, owner) = r2
  BY DEF set_owner, SetField
<1>2. Sequence(records) /\ DOMAIN records = 1 .. n /\ n \in Nat
  <2>1. Sequence(records)
    BY DEF RecordsAre
  <2> QED BY <2>1, SequenceType
<1>3. \A x \in DOMAIN records : records[x].owner \in 0 .. n
  BY DEF RecordsAre, RecordIs
<1>4. found \in 0 .. n
  BY <1>3, RealType
<1> HIDE DEF found
<1>5. "owner" \in Fields /\ "pts" \in Fields
  BY DEF Fields
<1>6. RecordsAre(real, m) /\ FieldIs(real, records, owner, "owner", found)
  <2>1. Fits("owner", found, n, m)
    BY <1>4 DEF Fits
  <2> QED BY <1>5, <2>1, FieldSet
<1>7. Len(real) = n /\ DOMAIN real = DOMAIN records
  BY <1>6 DEF FieldIs
<1> HIDE DEF real
<1>8. second_owner \in 0 .. n
  <2>1. real[owner].owner \in 0 .. n
    BY <1>6, <1>7 DEF RecordsAre, RecordIs
  <2> QED BY <1>3, <2>1
<1> HIDE DEF second_owner
<1>9. RecordsAre(r1, m) /\ FieldIs(r1, real, owner, "owner", second_owner)
  <2>1. Fits("owner", second_owner, Len(real), m)
    BY <1>7, <1>8 DEF Fits
  <2> QED BY <1>5, <1>6, <1>7, <2>1, FieldSet
<1>10. Len(r1) = n /\ DOMAIN r1 = DOMAIN records
  BY <1>7, <1>9 DEF FieldIs
<1> HIDE DEF r1
<1>11. RecordsAre(r2, m) /\ FieldIs(r2, r1, r, "owner", owner)
  <2>1. owner \in 0 .. n
    BY <1>2
  <2>2. Fits("owner", owner, Len(r1), m)
    BY <1>10, <2>1 DEF Fits
  <2> QED BY <1>5, <1>9, <1>10, <2>2, FieldSet
<1> HIDE DEF r2, n
<1>12. OwnerIsSet(r2, records, r, owner)
  BY <1>5, <1>6, <1>7, <1>9, <1>10, <1>11 DEF FieldIs, OwnerIsSet
<1> QED BY <1>1, <1>11, <1>12

LEMMA JoinRecordsType ==
  ASSUME Joins, NEW j, JoinIs(j), j.first_record # j.second_record, JoinRecords(j)
  PROVE  PointsIntact(op') /\ Len(op') = Len(op) /\ RecordsAre(rec', Len(op))
         /\ OutrecsAre(op', rec') /\ Chains(rec')
<1> DEFINE m == Len(op)
           f == j.first_record
           s == j.second_record
           emptied == SetField(rec, s, "pts", None)
           owned == set_owner(emptied, s, f)
           moved == move_splits(owned, s, f)
           plain == SetField(emptied, s, "owner", f)
<1>1. op' = Linked(j.first, j.second) /\ rec' = IF using_polytree THEN moved ELSE plain
  BY DEF JoinRecords, SetField
<1>2. /\ m \in Nat /\ RecordsAre(rec, m) /\ Sequence(rec) /\ f \in DOMAIN rec /\ s \in DOMAIN rec
      /\ f # s /\ rec[f].pts # None /\ rec[s].pts # None
      /\ DOMAIN rec = 1 .. Len(rec) /\ Len(rec) \in Nat
  BY DEF Joins, JoinIs
<1>3. "owner" \in Fields /\ "pts" \in Fields
  BY DEF Fields
<1>4. RecordsAre(emptied, m) /\ FieldIs(emptied, rec, s, "pts", None)
  <2>1. Fits("pts", None, Len(rec), m)
    BY <1>2 DEF Fits, None
  <2> QED BY <1>2, <1>3, <2>1, FieldSet
<1>5. /\ Len(emptied) = Len(rec) /\ DOMAIN emptied = DOMAIN rec
      /\ \A x \in DOMAIN rec : /\ emptied[x].pts = IF x = s THEN None ELSE rec[x].pts
                               /\ emptied[x].owner = rec[x].owner
  BY <1>3, <1>4 DEF FieldIs
<1> HIDE DEF emptied, f, s, m
<1>6. RecordsAre(moved, m) /\ EmptiedInto(moved, rec, s, f)
  <2>1. RecordsAre(owned, m) /\ OwnerIsSet(owned, emptied, s, f)
    BY <1>2, <1>4, <1>5, SetOwnerType
  <2> HIDE DEF owned
  <2>2. DOMAIN owned = DOMAIN rec
    BY <1>5, <2>1 DEF OwnerIsSet
  <2>3. /\ RecordsAre(moved, m) /\ DOMAIN moved = DOMAIN rec
        /\ \A r \in DOMAIN rec : moved[r].owner = owned[r].owner /\ moved[r].pts = owned[r].pts
    <3>1. m \in Nat /\ RecordsAre(owned, m) /\ s \in DOMAIN owned /\ f \in DOMAIN owned
      BY <1>2, <2>1, <2>2
    <3>2. /\ RecordsAre(moved, m) /\ DOMAIN moved = DOMAIN owned
          /\ \A r \in DOMAIN owned : moved[r].owner = owned[r].owner /\ moved[r].pts = owned[r].pts
      BY ONLY <3>1, MovedSplitsType
    <3> QED BY <2>2, <3>2
  <2> HIDE DEF moved
  <2>4. /\ \A x \in DOMAIN rec : owned[x].pts = IF x = s THEN None ELSE rec[x].pts
        /\ \A x \in DOMAIN rec : x \notin {s, f} => owned[x].owner = rec[x].owner
        /\ owned[s].owner = f
    BY ONLY <1>5, <2>1 DEF OwnerIsSet
  <2> QED BY ONLY <1>2, <2>3, <2>4 DEF EmptiedInto
<1>7. RecordsAre(plain, m) /\ EmptiedInto(plain, rec, s, f)
  <2>1. f \in 0 .. Len(emptied)
    BY <1>2, <1>5
  <2>2. Fits("owner", f, Len(emptied), m)
    BY <2>1 DEF Fits
  <2>3. RecordsAre(plain, m) /\ FieldIs(plain, emptied, s, "owner", f)
    BY <1>2, <1>3, <1>4, <1>5, <2>2, FieldSet
  <2> HIDE DEF plain
  <2>4. EmptiedInto(plain, rec, s, f)
    BY <1>2, <1>3, <1>5, <2>3 DEF FieldIs, EmptiedInto
  <2> QED BY <2>3, <2>4
<1> HIDE DEF moved, plain
<1>8. RecordsAre(rec', m) /\ EmptiedInto(rec', rec, s, f)
  BY <1>1, <1>6, <1>7
<1>9. Chains(rec')
  BY <1>2, <1>8, ChainsAfterEmptying DEF Joins
<1>10. /\ PointsIntact(op') /\ Len(op') = m /\ DOMAIN op' = DOMAIN op
       /\ \A x \in DOMAIN op : op'[x].outrec = op[x].outrec
  <2>1. /\ PointsIntact(op') /\ Len(op') = m
        /\ \A x \in DOMAIN op : op'[x].outrec = op[x].outrec
    BY <1>1, LinkedKeepsRings DEF Joins, JoinIs, m
  <2>2. DOMAIN op' = DOMAIN op
    BY <2>1 DEF PointsIntact, Joins, m
  <2> QED BY <2>1, <2>2
<1>11. OutrecsAre(op', rec')
  BY <1>8, <1>10 DEF EmptiedInto, OutrecsAre, Joins
<1> QED BY <1>8, <1>9, <1>10, <1>11 DEF m

LEMMA ProcessJoinKeepsInvariant ==
  ASSUME IInv, ProcessJoin
  PROVE  IInv'
<1>1. /\ pc = "joins" /\ index <= Len(joins) /\ index' = index + 1 /\ UNCHANGED <<pc, joins, call>>
      /\ \E j \in {Joining} :
           IF j.first_record = j.second_record THEN JoinWithinRecord(j) ELSE JoinRecords(j)
  BY DEF ProcessJoin
<1>2. Joins /\ JoinIs(Joining)
  BY <1>1, JoiningType
<1>3. PICK j : j = Joining /\ IF j.first_record = j.second_record THEN JoinWithinRecord(j) ELSE JoinRecords(j)
  BY <1>1
<1>4. JoinIs(j)
  BY <1>2, <1>3
<1>5. PointsIntact(op') /\ Len(op') = Len(op) /\ RecordsAre(rec', Len(op))
      /\ OutrecsAre(op', rec') /\ Chains(rec')
  <2>1. CASE j.first_record = j.second_record
    BY <1>2, <1>3, <1>4, <2>1, JoinWithinRecordType
  <2>2. CASE j.first_record # j.second_record
    BY <1>2, <1>3, <1>4, <2>2, JoinRecordsType
  <2> QED BY <2>1, <2>2
<1> QED BY <1>1, <1>5, JoinStep

LEMMA JoinsProcessedKeepsInvariant ==
  ASSUME IInv, JoinsProcessed
  PROVE  IInv'
<1>1. /\ pc = "joins" /\ pc' \in {"bounds", "records"} /\ index' = 1 /\ limit' = Len(rec)
      /\ op' = op /\ rec' = rec /\ call' = call
  BY DEF JoinsProcessed
<1>2. PointsIntact(op') /\ RecordsAre(rec', Len(op')) /\ StackIs(call', rec', Len(op'))
  BY <1>1 DEF IInv
<1>3. Len(rec) \in Nat
  <2>1. Sequence(rec)
    BY DEF IInv, RecordsAre
  <2> QED BY <2>1, SequenceType
<1>4. limit' \in Nat /\ limit' <= Len(rec')
  <2>1. limit' = Len(rec) /\ rec' = rec
    BY <1>1
  <2> QED BY <1>3, <2>1
<1>5. call' = <<>>
  BY <1>1 DEF IInv, PhaseIs
<1>6. pc' \notin Converting \cup Pairing \cup {"joins"}
  BY <1>1 DEF Converting, Pairing
<1>7. SegmentsAre' /\ PairIs' /\ JoinsAre'
  BY <1>6 DEF SegmentsAre, PairIs, JoinsAre
<1>8. index' \in Nat /\ index' >= 1
  BY <1>1
<1> QED BY <1>2, <1>4, <1>5, <1>7, <1>8 DEF IInv, PhaseIs

-----------------------------------------------------------------------------
(* A step of the function that runs.                                       *)

\* The points and records after a step are those the functions that wait go on with.
StepKeeps ==
  /\ PointsIntact(op') /\ RecordsAre(rec', Len(op'))
  /\ Grows(rec', rec) /\ OwnersStay(call, rec')

LEMMA TopIs ==
  ASSUME IInv, call # <<>>
  PROVE  /\ Top \in Call /\ FrameIs(Top, rec, Len(op)) /\ AllAbove(call, Top)
         /\ PointsIntact(op) /\ RecordsAre(rec, Len(op)) /\ Len(op) \in Nat /\ DOMAIN op = 1 .. Len(op)
         /\ Sequence(rec) /\ Len(rec) \in Nat /\ DOMAIN rec = 1 .. Len(rec)
         /\ Top.record \in DOMAIN rec
         /\ call \in Seq(Call) /\ pc \in {"records", "bounds", "resolve"}
         /\ StackIs(call, rec, Len(op))
<1>1. /\ PointsIntact(op) /\ RecordsAre(rec, Len(op)) /\ StackIs(call, rec, Len(op))
      /\ pc \in {"records", "bounds", "resolve"}
  BY DEF IInv, PhaseIs
<1>2. call \in Seq(Call) /\ Len(call) \in DOMAIN call /\ Len(call) \in Nat
  BY <1>1 DEF StackIs
<1>3. Top = call[Len(call)]
  BY DEF Top, Last
<1>4. Top \in Call /\ FrameIs(Top, rec, Len(op))
  <2>1. Top \in Call
    BY <1>2, <1>3
  <2> QED BY <1>1, <1>2, <1>3, <2>1 DEF StackIs
<1>5. AllAbove(call, Top)
  BY <1>1, <1>2, <1>3 DEF StackIs, AllAbove
<1>6. Sequence(rec) /\ Len(rec) \in Nat /\ DOMAIN rec = 1 .. Len(rec)
  BY <1>1, SequenceType DEF RecordsAre
<1>7. Len(op) \in Nat /\ DOMAIN op = 1 .. Len(op)
  BY <1>1 DEF PointsIntact
<1>8. Top.record \in DOMAIN rec
  BY <1>4 DEF FrameIs
<1> QED BY <1>1, <1>2, <1>4, <1>5, <1>6, <1>7, <1>8

LEMMA OwnersAreThere ==
  ASSUME NEW stack, NEW records, NEW m, StackIs(stack, records, m), NEW changed,
         \A r \in DOMAIN records : changed[r].owner = records[r].owner
  PROVE  OwnersStay(stack, changed)
<1> SUFFICES ASSUME NEW i \in DOMAIN stack, i < Len(stack), stack[i].at \in Resolving
             PROVE  changed[stack[i].record].owner # None
  BY DEF OwnersStay
<1>1. FrameIs(stack[i], records, m) /\ stack[i].at \in Waiting
  BY DEF StackIs
<1>2. stack[i].at \in {"owner searched", "owner bounded"}
  BY <1>1 DEF Waiting, Resolving
<1> QED BY <1>1, <1>2 DEF FrameIs

LEMMA NothingChanges ==
  ASSUME IInv, call # <<>>, UNCHANGED <<op, rec>>
  PROVE  StepKeeps
<1>1. /\ PointsIntact(op) /\ RecordsAre(rec, Len(op)) /\ StackIs(call, rec, Len(op))
      /\ op' = op /\ rec' = rec
  BY TopIs
<1>2. Grows(rec', rec)
  <2>1. \A r \in DOMAIN rec : Len(rec[r].splits) \in Nat
    BY <1>1, SplitsAreSequences
  <2> QED BY <1>1, <2>1 DEF Grows
<1>3. OwnersStay(call, rec')
  BY <1>1, OwnersAreThere
<1> QED BY <1>1, <1>2, <1>3 DEF StepKeeps

LEMMA CleanupStep ==
  ASSUME IInv, call # <<>>, UNCHANGED engine, StepKeeps, StackIs(call', rec', Len(op'))
  PROVE  IInv'
<1>1. pc \in {"records", "bounds", "resolve"} /\ pc' = pc /\ index' = index /\ limit' = limit
  BY TopIs DEF engine
<1>2. index' \in Nat /\ index' >= 1
  BY <1>1 DEF IInv, PhaseIs
<1>3. SegmentsAre' /\ PairIs' /\ JoinsAre'
  BY <1>1 DEF SegmentsAre, PairIs, JoinsAre, Converting, Pairing
<1>4. pc' \in {"bounds", "resolve"} => limit' \in Nat /\ limit' <= Len(rec')
  <2>1. Len(rec) \in Nat /\ DOMAIN rec = 1 .. Len(rec)
    BY TopIs
  <2>2. Len(rec') \in Nat /\ DOMAIN rec' = 1 .. Len(rec') /\ DOMAIN rec \subseteq DOMAIN rec'
    <3>1. Sequence(rec')
      BY DEF StepKeeps, RecordsAre
    <3>2. Len(rec') \in Nat /\ DOMAIN rec' = 1 .. Len(rec')
      BY <3>1, SequenceType
    <3> QED BY <3>2 DEF StepKeeps, Grows
  <2>3. Len(rec) <= Len(rec')
    BY <2>1, <2>2
  <2>4. pc \in {"bounds", "resolve"} => limit \in Nat /\ limit <= Len(rec)
    BY DEF IInv, PhaseIs
  <2> DEFINE a == Len(rec)
             b == Len(rec')
             c == limit
  <2>5. a \in Nat /\ b \in Nat /\ a <= b
    BY <2>1, <2>2, <2>3
  <2>6. pc \in {"bounds", "resolve"} => c \in Nat /\ c <= a
    BY <2>4
  <2> HIDE DEF a, b, c
  <2>7. pc \in {"bounds", "resolve"} => c \in Nat /\ c <= b
    BY ONLY <2>5, <2>6
  <2> QED BY <1>1, <2>7 DEF b, c
<1> QED BY <1>1, <1>2, <1>3, <1>4 DEF IInv, PhaseIs, StepKeeps

LEMMA TopStays ==
  ASSUME IInv, call # <<>>, StepKeeps
  PROVE  StackIs(call, rec, Len(op)) /\ LowerAre(call, rec', Len(op'))
BY TopIs, LowerStay DEF StepKeeps

LEMMA Goes ==
  ASSUME IInv, call # <<>>, UNCHANGED engine, StepKeeps,
         NEW g \in Call, FrameIs(g, rec', Len(op')), AllAbove(call, g), call' = SetTop(call, g)
  PROVE  IInv'
BY TopStays, TopSet, CleanupStep

LEMMA Returns ==
  ASSUME IInv, call # <<>>, UNCHANGED engine, StepKeeps, call' = Front(call)
  PROVE  IInv'
BY TopStays, FramePopped, CleanupStep

LEMMA Calls ==
  ASSUME IInv, call # <<>>, UNCHANGED engine, StepKeeps,
         NEW g \in Call, FrameIs(g, rec', Len(op')), AllAbove(call, g), g.at \in Waiting,
         NEW h \in Call, FrameIs(h, rec', Len(op')), AllAbove(call, h), Above(g, h),
         call' = Append(SetTop(call, g), h)
  PROVE  IInv'
<1> DEFINE s == SetTop(call, g)
<1>1. /\ StackIs(s, rec', Len(op')) /\ s # <<>> /\ Last(s) = g
      /\ Len(s) = Len(call) /\ DOMAIN s = DOMAIN call
      /\ \A i \in DOMAIN call : i < Len(call) => s[i] = call[i]
  BY TopStays, TopSet
<1>2. call \in Seq(Call) /\ s[Len(call)] = g
  BY <1>1, TopIs DEF Last
<1> HIDE DEF s
<1>3. \A i \in DOMAIN s : Above(s[i], h)
  <2> SUFFICES ASSUME NEW i \in DOMAIN s PROVE Above(s[i], h)
    OBVIOUS
  <2>1. CASE i < Len(call)
    BY <1>1, <2>1 DEF AllAbove
  <2>2. CASE ~ (i < Len(call))
    <3>1. i = Len(call)
      BY <1>1, <1>2, <2>2
    <3> QED BY <1>2, <3>1
  <2> QED BY <2>1, <2>2
<1>4. StackIs(Append(s, h), rec', Len(op'))
  BY <1>1, <1>3, FramePushed
<1> QED BY <1>4, CleanupStep DEF s

\* The function goes on at another step, for the same record.
LEMMA AtChanged ==
  ASSUME NEW f \in Call, NEW at \in Steps
  PROVE  /\ [f EXCEPT !.at = at] \in Call /\ [f EXCEPT !.at = at].at = at
         /\ [f EXCEPT !.at = at].record = f.record /\ [f EXCEPT !.at = at].holder = f.holder
         /\ [f EXCEPT !.at = at].index = f.index /\ [f EXCEPT !.at = at].current = f.current
BY DEF Call

LEMMA FrameType ==
  ASSUME NEW at \in Steps, NEW r \in Nat, NEW holder \in Nat
  PROVE  /\ Frame(at, r, holder) \in Call /\ Frame(at, r, holder).at = at
         /\ Frame(at, r, holder).record = r /\ Frame(at, r, holder).holder = holder
         /\ Frame(at, r, holder).index = 1
BY DEF Frame, Call, None

LEMMA AboveStays ==
  ASSUME NEW stack, NEW f, AllAbove(stack, f), NEW g, g.record = f.record,
         g.at \in Resolving \cup Placing => f.at \in Resolving \cup Placing,
         g.at \in Searching => f.at \in Searching
  PROVE  AllAbove(stack, g)
BY DEF AllAbove, Above

LEMMA NothingAbove ==
  ASSUME NEW stack, NEW g, g.at \notin Resolving \cup Placing \cup Searching
  PROVE  AllAbove(stack, g)
BY DEF AllAbove, Above

LEMMA GotoIs ==
  ASSUME NEW at, Goto(at)
  PROVE  call' = SetTop(call, [Top EXCEPT !.at = at])
BY DEF Goto, SetTop, Top, Last

LEMMA CallThenIs ==
  ASSUME NEW at, NEW h, CallThen(h, at)
  PROVE  call' = Append(SetTop(call, [Top EXCEPT !.at = at]), h)
BY DEF CallThen, SetTop, Top, Last

LEMMA AnythingAbove ==
  ASSUME NEW stack, NEW f, AllAbove(stack, f), f.at \in Resolving \cup Placing, NEW g
  PROVE  AllAbove(stack, g)
BY DEF AllAbove, Above

LEMMA RunningIs ==
  ASSUME NEW at, Running(at)
  PROVE  call # <<>> /\ Top.at = at
BY DEF Running, Top

LEMMA ReturnIs ==
  ASSUME NEW value, Return(value)
  PROVE  call' = Front(call)
BY DEF Return

\* Nothing but the stack changes.
LEMMA JustReturns ==
  ASSUME IInv, call # <<>>, UNCHANGED engine, UNCHANGED <<op, rec>>, NEW value, Return(value)
  PROVE  IInv'
BY NothingChanges, ReturnIs, Returns

LEMMA JustGoes ==
  ASSUME IInv, call # <<>>, UNCHANGED engine, UNCHANGED <<op, rec>>,
         NEW g \in Call, FrameIs(g, rec, Len(op)), AllAbove(call, g), call' = SetTop(call, g)
  PROVE  IInv'
<1>1. FrameIs(g, rec', Len(op'))
  OBVIOUS
<1> QED BY <1>1, NothingChanges, Goes

LEMMA JustCalls ==
  ASSUME IInv, call # <<>>, UNCHANGED engine, UNCHANGED <<op, rec>>,
         NEW g \in Call, FrameIs(g, rec, Len(op)), AllAbove(call, g), g.at \in Waiting,
         NEW h \in Call, FrameIs(h, rec, Len(op)), AllAbove(call, h), Above(g, h),
         call' = Append(SetTop(call, g), h)
  PROVE  IInv'
<1>1. FrameIs(g, rec', Len(op')) /\ FrameIs(h, rec', Len(op'))
  OBVIOUS
<1> QED BY <1>1, NothingChanges, Calls

LEMMA RingFixedKeepsInvariant ==
  ASSUME IInv, RingFixed
  PROVE  IInv'
<1>1. call # <<>> /\ UNCHANGED engine /\ UNCHANGED <<op, rec>> /\ Return(FALSE)
  BY DEF RingFixed, Running
<1> QED BY <1>1, JustReturns

LEMMA EmitPathKeepsInvariant ==
  ASSUME IInv, EmitPath
  PROVE  IInv'
<1>1. call # <<>> /\ UNCHANGED engine /\ UNCHANGED <<op, rec>> /\ Return(FALSE)
  BY DEF EmitPath, Running
<1> QED BY <1>1, JustReturns

LEMMA CheckBoundsKeepsInvariant ==
  ASSUME IInv, check_bounds
  PROVE  IInv'
<1>1. /\ Running("bounds") /\ UNCHANGED engine /\ UNCHANGED <<op, rec>>
      /\ \/ \E value \in BOOLEAN : Return(value)
         \/ rec[Top.record].pts # None /\ CallThen(Frame("clean", Top.record, None), "cleaned")
  BY DEF check_bounds
<1>2. call # <<>> /\ Top.at = "bounds"
  BY <1>1, RunningIs
<1>3. ASSUME NEW value \in BOOLEAN, Return(value) PROVE IInv'
  BY <1>1, <1>2, <1>3, JustReturns
<1>4. CASE rec[Top.record].pts # None /\ CallThen(Frame("clean", Top.record, None), "cleaned")
  <2> DEFINE g == [Top EXCEPT !.at = "cleaned"]
             h == Frame("clean", Top.record, None)
  <2>1. call' = Append(SetTop(call, g), h)
    BY <1>4, CallThenIs
  <2>2. Top \in Call /\ Top.record \in DOMAIN rec /\ Top.record \in Nat
    BY <1>2, TopIs DEF Call
  <2>3. g \in Call /\ g.at = "cleaned" /\ g.record = Top.record
    <3>1. "cleaned" \in Steps
      BY DEF Steps
    <3> QED BY ONLY <2>2, <3>1, AtChanged
  <2>4. h \in Call /\ h.at = "clean" /\ h.record = Top.record
    <3>1. "clean" \in Steps /\ None \in Nat
      BY DEF Steps, None
    <3> QED BY <2>2, <3>1, FrameType
  <2> HIDE DEF g, h
  <2>5. FrameIs(g, rec, Len(op)) /\ FrameIs(h, rec, Len(op)) /\ g.at \in Waiting
    BY <1>4, <2>2, <2>3, <2>4 DEF FrameIs, Searching, Waiting
  <2>6. AllAbove(call, g) /\ AllAbove(call, h) /\ Above(g, h)
    BY <2>3, <2>4, NothingAbove DEF Resolving, Placing, Searching, Above
  <2> QED BY <1>1, <1>2, <2>1, <2>3, <2>4, <2>5, <2>6, JustCalls
<1> QED BY <1>1, <1>3, <1>4

LEMMA LookAtSplitKeepsInvariant ==
  ASSUME IInv, LookAtSplit
  PROVE  IInv'
<1> DEFINE f == Top
           split == SplitOf(Top)
           empty == [Top EXCEPT !.at = "empty split"]
           found == [Top EXCEPT !.at = "split"]
           h == Frame("splits", Top.record, SplitOf(Top))
<1>1. /\ Running("splits") /\ UNCHANGED engine /\ UNCHANGED <<op, rec>>
      /\ \/ Return(FALSE)
         \/ ~ (Top.index > Len(rec[Top.holder].splits)) /\ CallThen(h, "empty split")
         \/ ~ (Top.index > Len(rec[Top.holder].splits)) /\ Goto("split")
  BY DEF LookAtSplit
<1>2. call # <<>> /\ Top.at = "splits"
  BY <1>1, RunningIs
<1>3. /\ Top \in Call /\ Top.record \in DOMAIN rec /\ Top.record \in Nat /\ AllAbove(call, Top)
      /\ Top.holder \in DOMAIN rec /\ Top.index >= 1 /\ Top.index \in Nat
  <2>1. Top \in Call /\ FrameIs(Top, rec, Len(op)) /\ AllAbove(call, Top)
    BY <1>2, TopIs
  <2> QED BY <1>2, <2>1 DEF FrameIs, Searching, Call
<1>4. CASE Return(FALSE)
  BY <1>1, <1>2, <1>4, JustReturns
<1>5. ASSUME ~ (Top.index > Len(rec[Top.holder].splits))
      PROVE  Top.index <= Len(rec[Top.holder].splits) /\ split \in DOMAIN rec /\ split \in Nat
  <2>1. RecordsAre(rec, Len(op)) /\ DOMAIN rec = 1 .. Len(rec)
    BY <1>2, TopIs
  <2>2. rec[Top.holder].splits \in Seq(1 .. Len(rec)) /\ Len(rec[Top.holder].splits) \in Nat
    BY <1>3, <2>1, SplitsAreSequences
  <2>3. Top.index <= Len(rec[Top.holder].splits)
    BY <1>3, <1>5, <2>2
  <2>4. split \in 1 .. Len(rec)
    BY <1>3, <2>2, <2>3 DEF SplitOf
  <2> QED BY <2>1, <2>3, <2>4
<1>6. CASE ~ (Top.index > Len(rec[Top.holder].splits)) /\ CallThen(h, "empty split")
  <2> Top.index <= Len(rec[Top.holder].splits) /\ split \in DOMAIN rec /\ split \in Nat
    BY <1>5, <1>6
  <2>1. call' = Append(SetTop(call, empty), h)
    BY <1>6, CallThenIs
  <2>2. /\ empty \in Call /\ empty.at = "empty split" /\ empty.record = Top.record
        /\ empty.holder = Top.holder /\ empty.index = Top.index
    <3>1. "empty split" \in Steps
      BY DEF Steps
    <3> QED BY ONLY <1>3, <3>1, AtChanged
  <2>3. /\ h \in Call /\ h.at = "splits" /\ h.record = Top.record /\ h.holder = split /\ h.index = 1
    <3>1. "splits" \in Steps
      BY DEF Steps
    <3> QED BY <1>3, <3>1, FrameType
  <2> HIDE DEF empty, h, split
  <2>4. FrameIs(empty, rec, Len(op)) /\ empty.at \in Waiting
    BY <1>3, <2>2 DEF FrameIs, Searching, Waiting
  <2>5. FrameIs(h, rec, Len(op))
    BY <1>3, <2>3 DEF FrameIs, Searching
  <2>6. AllAbove(call, empty) /\ AllAbove(call, h) /\ Above(empty, h)
    BY <1>2, <1>3, <2>2, <2>3, AboveStays DEF Resolving, Placing, Searching, Above
  <2> QED BY <1>1, <1>2, <2>1, <2>2, <2>3, <2>4, <2>5, <2>6, JustCalls
<1>7. CASE ~ (Top.index > Len(rec[Top.holder].splits)) /\ Goto("split")
  <2>1. call' = SetTop(call, found)
    BY <1>7, GotoIs
  <2>2. /\ found \in Call /\ found.at = "split" /\ found.record = Top.record
        /\ found.holder = Top.holder /\ found.index = Top.index
    <3>1. "split" \in Steps
      BY DEF Steps
    <3> QED BY ONLY <1>3, <3>1, AtChanged
  <2> HIDE DEF found, split
  <2>3. FrameIs(found, rec, Len(op))
    BY <1>3, <1>5, <1>7, <2>2 DEF FrameIs, Searching
  <2>4. AllAbove(call, found)
    BY <1>2, <1>3, <2>2, AboveStays DEF Resolving, Placing, Searching
  <2> QED BY <1>1, <1>2, <2>1, <2>2, <2>3, <2>4, JustGoes
<1> QED BY <1>1, <1>4, <1>6, <1>7

LEMMA EmptySplitSearchedKeepsInvariant ==
  ASSUME IInv, EmptySplitSearched
  PROVE  IInv'
<1>1. /\ Running("empty split") /\ UNCHANGED engine /\ UNCHANGED <<op, rec>>
      /\ Return(TRUE) \/ Goto("split")
  BY DEF EmptySplitSearched
<1>2. call # <<>> /\ Top.at = "empty split"
  BY <1>1, RunningIs
<1>3. Top \in Call /\ FrameIs(Top, rec, Len(op)) /\ AllAbove(call, Top)
  BY <1>2, TopIs
<1>4. CASE Return(TRUE)
  BY <1>1, <1>2, <1>4, JustReturns
<1>5. CASE Goto("split")
  <2> DEFINE g == [Top EXCEPT !.at = "split"]
  <2>1. call' = SetTop(call, g)
    BY <1>5, GotoIs
  <2>2. /\ g \in Call /\ g.at = "split" /\ g.record = Top.record
        /\ g.holder = Top.holder /\ g.index = Top.index
    <3>1. "split" \in Steps
      BY DEF Steps
    <3> QED BY ONLY <1>3, <3>1, AtChanged
  <2> HIDE DEF g
  <2>3. FrameIs(g, rec, Len(op))
    BY <1>2, <1>3, <2>2 DEF FrameIs, Searching
  <2>4. AllAbove(call, g)
    BY <1>2, <1>3, <2>2, AboveStays DEF Resolving, Placing, Searching
  <2> QED BY <1>1, <1>2, <2>1, <2>2, <2>3, <2>4, JustGoes
<1> QED BY <1>1, <1>4, <1>5

LEMMA SplitSearchedKeepsInvariant ==
  ASSUME IInv, SplitSearched
  PROVE  IInv'
<1> DEFINE g == [Top EXCEPT !.at = "split bounded"]
           h == Frame("bounds", Top.current, None)
<1>1. /\ Running("split searched") /\ UNCHANGED engine /\ UNCHANGED <<op, rec>>
      /\ Return(TRUE) \/ CallThen(h, "split bounded")
  BY DEF SplitSearched
<1>2. call # <<>> /\ Top.at = "split searched"
  BY <1>1, RunningIs
<1>3. Top \in Call /\ FrameIs(Top, rec, Len(op)) /\ AllAbove(call, Top)
  BY <1>2, TopIs
<1>4. CASE Return(TRUE)
  BY <1>1, <1>2, <1>4, JustReturns
<1>5. CASE CallThen(h, "split bounded")
  <2>1. call' = Append(SetTop(call, g), h)
    BY <1>5, CallThenIs
  <2>2. /\ g \in Call /\ g.at = "split bounded" /\ g.record = Top.record
        /\ g.holder = Top.holder /\ g.index = Top.index /\ g.current = Top.current
    <3>1. "split bounded" \in Steps
      BY DEF Steps
    <3> QED BY ONLY <1>3, <3>1, AtChanged
  <2>3. Top.current \in DOMAIN rec /\ Top.current \in Nat
    BY <1>2, <1>3 DEF FrameIs, Call
  <2>4. h \in Call /\ h.at = "bounds" /\ h.record = Top.current
    <3>1. "bounds" \in Steps /\ None \in Nat
      BY DEF Steps, None
    <3> QED BY <2>3, <3>1, FrameType
  <2> HIDE DEF g, h
  <2>5. FrameIs(g, rec, Len(op)) /\ g.at \in Waiting
    BY <1>2, <1>3, <2>2 DEF FrameIs, Searching, Waiting
  <2>6. FrameIs(h, rec, Len(op))
    BY <2>3, <2>4 DEF FrameIs, Searching
  <2>7. AllAbove(call, g)
    BY <1>2, <1>3, <2>2, AboveStays DEF Resolving, Placing, Searching
  <2>8. AllAbove(call, h) /\ Above(g, h)
    BY <2>2, <2>4, NothingAbove DEF Resolving, Placing, Searching, Above
  <2> QED BY <1>1, <1>2, <2>1, <2>2, <2>4, <2>5, <2>6, <2>7, <2>8, JustCalls
<1> QED BY <1>1, <1>4, <1>5

\* The fields of a record that neither its owner nor its splits are.
LEMMA FieldKeeps ==
  ASSUME IInv, call # <<>>, PointsIntact(op'), Len(op) <= Len(op'), NEW r \in DOMAIN rec,
         NEW f \in Fields \ {"owner", "splits"}, NEW v, Fits(f, v, Len(rec), Len(op')),
         rec' = SetField(rec, r, f, v)
  PROVE  StepKeeps /\ FieldIs(rec', rec, r, f, v)
<1>1. RecordsAre(rec, Len(op)) /\ Len(op) \in Nat /\ StackIs(call, rec, Len(op))
  BY TopIs
<1>2. Len(op') \in Nat
  BY DEF PointsIntact
<1>3. RecordsAre(rec, Len(op'))
  BY <1>1, <1>2, MorePoints
<1>4. RecordsAre(rec', Len(op')) /\ FieldIs(rec', rec, r, f, v)
  BY <1>2, <1>3, FieldSet
<1>5. /\ DOMAIN rec' = DOMAIN rec
      /\ \A x \in DOMAIN rec : rec'[x].owner = rec[x].owner /\ rec'[x].splits = rec[x].splits
  <2>1. "owner" \in Fields /\ "splits" \in Fields /\ f # "owner" /\ f # "splits"
    BY DEF Fields
  <2> QED BY <1>4, <2>1 DEF FieldIs
<1>6. Grows(rec', rec)
  <2>1. \A x \in DOMAIN rec : Len(rec[x].splits) \in Nat
    BY <1>1, SplitsAreSequences
  <2> QED BY <1>5, <2>1 DEF Grows
<1>7. OwnersStay(call, rec')
  BY <1>1, <1>5, OwnersAreThere
<1> QED BY <1>4, <1>6, <1>7 DEF StepKeeps

LEMMA SetBoundsKeepsInvariant ==
  ASSUME IInv, SetBounds
  PROVE  IInv'
<1> DEFINE v == Bounds(PathOf(op, rec[Top.record].pts))
<1>1. /\ Running("cleaned") /\ UNCHANGED engine /\ op' = op
      /\ \E value \in BOOLEAN : Return(value)
      /\ rec' = rec \/ rec' = SetField(rec, Top.record, "bounds", v)
  BY DEF SetBounds, SetField
<1>2. call # <<>>
  BY <1>1, RunningIs
<1>3. call' = Front(call)
  BY <1>1, ReturnIs
<1>4. StepKeeps
  <2>1. CASE rec' = rec
    BY <1>1, <1>2, <2>1, NothingChanges
  <2>2. CASE rec' = SetField(rec, Top.record, "bounds", v)
    <3>1. PointsIntact(op') /\ Len(op) <= Len(op') /\ Top.record \in DOMAIN rec
      BY <1>1, <1>2, TopIs
    <3>2. "bounds" \in Fields \ {"owner", "splits"} /\ Fits("bounds", v, Len(rec), Len(op'))
      BY DEF Fields, Fits
    <3> HIDE DEF v
    <3> QED BY <1>2, <2>2, <3>1, <3>2, FieldKeeps
  <2> QED BY <1>1, <2>1, <2>2
<1> QED BY <1>1, <1>2, <1>3, <1>4, Returns

LEMMA AddChildKeepsInvariant ==
  ASSUME IInv, AddChild
  PROVE  IInv'
<1> DEFINE v == Len(answer) + 1
<1>1. /\ call # <<>> /\ UNCHANGED engine /\ op' = op /\ call' = Front(call)
      /\ rec' = SetField(rec, Top.record, "polygon_node", v)
  BY ReturnIs DEF AddChild, Running, SetField
<1>2. StepKeeps
  <2>1. PointsIntact(op') /\ Len(op) <= Len(op') /\ Top.record \in DOMAIN rec
    BY <1>1, TopIs
  <2>2. "polygon_node" \in Fields \ {"owner", "splits"} /\ Fits("polygon_node", v, Len(rec), Len(op'))
    BY DEF Fields, Fits
  <2> HIDE DEF v
  <2> QED BY <1>1, <2>1, <2>2, FieldKeeps
<1> QED BY <1>1, <1>2, Returns

\* The search goes on with the next split.
WithNextSplit(f) == [f EXCEPT !.at = "splits", !.index = f.index + 1]

LEMMA NextSplitIs ==
  ASSUME NextSplit
  PROVE  call' = SetTop(call, WithNextSplit(Top))
BY DEF NextSplit, SetTop, WithNextSplit

LEMMA OnwardType ==
  ASSUME NEW f \in Call
  PROVE  /\ WithNextSplit(f) \in Call /\ WithNextSplit(f).at = "splits" /\ WithNextSplit(f).record = f.record
         /\ WithNextSplit(f).holder = f.holder /\ WithNextSplit(f).index = f.index + 1
<1> DEFINE i == f.index + 1
<1>1. i \in Nat /\ "splits" \in Steps
  <2>1. f.index \in Nat
    BY DEF Call
  <2> QED BY <2>1 DEF Steps
<1>2. WithNextSplit(f) = [f EXCEPT !.at = "splits", !.index = i]
  BY DEF WithNextSplit
<1> HIDE DEF i
<1>3. /\ WithNextSplit(f) \in Call /\ WithNextSplit(f).at = "splits" /\ WithNextSplit(f).record = f.record
      /\ WithNextSplit(f).holder = f.holder /\ WithNextSplit(f).index = i
  BY <1>1, <1>2 DEF Call
<1> QED BY <1>3 DEF i

LEMMA SearchThenIs ==
  ASSUME NEW frame, NEW at, NEW split, SearchThen(frame, at, split)
  PROVE  call' = Append(SetTop(call, [Top EXCEPT !.at = at, !.current = split]), frame)
BY DEF SearchThen, SetTop, Top, Last

LEMMA TrySplitKeepsInvariant ==
  ASSUME IInv, TrySplit
  PROVE  IInv'
<1> DEFINE r == Top.record
           split == RealSplit
           onward == WithNextSplit(Top)
           searching == [Top EXCEPT !.at = "split searched", !.current = split]
           bounding == [Top EXCEPT !.at = "split bounded", !.current = split]
           search == Frame("splits", r, split)
           bound == Frame("bounds", split, None)
<1>1. /\ Running("split") /\ UNCHANGED engine /\ op' = op
      /\ \/ call' = SetTop(call, onward) /\ rec' = rec
         \/ /\ split \notin {None, r} /\ rec' = SetField(rec, split, "recursive_split", r)
            /\ \/ call' = Append(SetTop(call, searching), search)
               \/ call' = Append(SetTop(call, bounding), bound)
  <2>1. /\ Running("split") /\ UNCHANGED engine /\ op' = op
        /\ IF split \in {None, r} \/ rec[split].recursive_split = r
           THEN NextSplit /\ rec' = rec
           ELSE /\ rec' = SetField(rec, split, "recursive_split", r)
                /\ SearchThen(search, "split searched", split) \/ SearchThen(bound, "split bounded", split)
    BY DEF TrySplit, SetField
  <2>2. NextSplit => call' = SetTop(call, onward)
    BY NextSplitIs
  <2>3. SearchThen(search, "split searched", split) => call' = Append(SetTop(call, searching), search)
    BY SearchThenIs
  <2>4. SearchThen(bound, "split bounded", split) => call' = Append(SetTop(call, bounding), bound)
    BY SearchThenIs
  <2> HIDE DEF onward, searching, bounding, search, bound, split, r
  <2> QED BY <2>1, <2>2, <2>3, <2>4
<1>2. call # <<>> /\ Top.at = "split"
  BY <1>1, RunningIs
<1>3. /\ Top \in Call /\ r \in DOMAIN rec /\ r \in Nat /\ AllAbove(call, Top) /\ Top.holder \in DOMAIN rec
      /\ Top.index >= 1 /\ Top.index \in Nat /\ Top.index <= Len(rec[Top.holder].splits)
      /\ RecordsAre(rec, Len(op)) /\ DOMAIN rec = 1 .. Len(rec) /\ Len(rec) \in Nat /\ PointsIntact(op)
  <2>1. /\ Top \in Call /\ FrameIs(Top, rec, Len(op)) /\ AllAbove(call, Top) /\ PointsIntact(op)
        /\ RecordsAre(rec, Len(op)) /\ DOMAIN rec = 1 .. Len(rec) /\ Len(rec) \in Nat
    BY <1>2, TopIs
  <2> QED BY <1>2, <2>1 DEF FrameIs, Searching, Call
<1>4. split \in 0 .. Len(rec)
  <2>1. rec[Top.holder].splits \in Seq(1 .. Len(rec))
    BY <1>3, SplitsAreSequences
  <2>2. SplitOf(Top) \in 1 .. Len(rec)
    BY <1>3, <2>1, SMTT(30) DEF SplitOf
  <2>3. SplitOf(Top) \in 0 .. Len(rec)
    BY <2>2
  <2> QED BY <1>3, <2>3, RealType DEF RealSplit
<1> HIDE DEF split
<1>5. CASE call' = SetTop(call, onward) /\ rec' = rec
  <2>1. /\ onward \in Call /\ onward.at = "splits" /\ onward.record = r
        /\ onward.holder = Top.holder /\ onward.index = Top.index + 1
    BY <1>3, OnwardType
  <2> HIDE DEF onward
  <2>2. FrameIs(onward, rec, Len(op))
    BY <1>3, <2>1 DEF FrameIs, Searching
  <2>3. AllAbove(call, onward)
    BY <1>2, <1>3, <2>1, AboveStays DEF Resolving, Placing, Searching
  <2> QED BY <1>1, <1>2, <1>5, <2>1, <2>2, <2>3, JustGoes
<1>6. ASSUME split \notin {None, r}, rec' = SetField(rec, split, "recursive_split", r)
      PROVE  /\ StepKeeps /\ DOMAIN rec' = DOMAIN rec /\ split \in DOMAIN rec /\ split \in Nat
             /\ split # r
  <2>1. split \in DOMAIN rec /\ split \in Nat /\ split # r
    BY <1>3, <1>4, <1>6 DEF None
  <2>2. PointsIntact(op') /\ Len(op) <= Len(op')
    BY <1>1, <1>2, TopIs
  <2>3. "recursive_split" \in Fields \ {"owner", "splits"} /\ Fits("recursive_split", r, Len(rec), Len(op'))
    BY DEF Fields, Fits
  <2> HIDE DEF r
  <2>4. StepKeeps /\ FieldIs(rec', rec, split, "recursive_split", r)
    BY <1>2, <1>6, <2>1, <2>2, <2>3, FieldKeeps
  <2> QED BY <2>1, <2>4 DEF FieldIs
<1>7. CASE /\ split \notin {None, r} /\ rec' = SetField(rec, split, "recursive_split", r)
           /\ call' = Append(SetTop(call, searching), search)
  <2>1. /\ searching \in Call /\ searching.at = "split searched" /\ searching.record = r
        /\ searching.holder = Top.holder /\ searching.index = Top.index /\ searching.current = split
    BY <1>3, <1>6, <1>7 DEF Call, Steps
  <2>2. /\ search \in Call /\ search.at = "splits" /\ search.record = r /\ search.holder = split
        /\ search.index = 1
    <3>1. "splits" \in Steps /\ split \in Nat
      BY <1>6, <1>7 DEF Steps
    <3> QED BY <1>3, <3>1, FrameType
  <2> HIDE DEF searching, search
  <2>3. FrameIs(searching, rec', Len(op')) /\ searching.at \in Waiting
    BY <1>3, <1>6, <1>7, <2>1 DEF FrameIs, Searching, Waiting
  <2>4. FrameIs(search, rec', Len(op'))
    BY <1>3, <1>6, <1>7, <2>2 DEF FrameIs, Searching
  <2>5. AllAbove(call, searching) /\ AllAbove(call, search)
    BY <1>2, <1>3, <2>1, <2>2, AboveStays DEF Resolving, Placing, Searching
  <2>6. Above(searching, search)
    BY <2>1 DEF Above, Resolving
  <2> QED BY <1>1, <1>2, <1>6, <1>7, <2>1, <2>2, <2>3, <2>4, <2>5, <2>6, Calls
<1>8. CASE /\ split \notin {None, r} /\ rec' = SetField(rec, split, "recursive_split", r)
           /\ call' = Append(SetTop(call, bounding), bound)
  <2>1. /\ bounding \in Call /\ bounding.at = "split bounded" /\ bounding.record = r
        /\ bounding.holder = Top.holder /\ bounding.index = Top.index /\ bounding.current = split
    BY <1>3, <1>6, <1>8 DEF Call, Steps
  <2>2. bound \in Call /\ bound.at = "bounds" /\ bound.record = split
    <3>1. "bounds" \in Steps /\ None \in Nat /\ split \in Nat
      BY <1>6, <1>8 DEF Steps, None
    <3> QED BY <1>3, <3>1, FrameType
  <2> HIDE DEF bounding, bound
  <2>3. FrameIs(bounding, rec', Len(op')) /\ bounding.at \in Waiting
    BY <1>3, <1>6, <1>8, <2>1 DEF FrameIs, Searching, Waiting
  <2>4. FrameIs(bound, rec', Len(op'))
    BY <1>3, <1>6, <1>8, <2>2 DEF FrameIs, Searching
  <2>5. AllAbove(call, bounding)
    BY <1>2, <1>3, <2>1, AboveStays DEF Resolving, Placing, Searching
  <2>6. AllAbove(call, bound) /\ Above(bounding, bound)
    BY <2>1, <2>2, NothingAbove DEF Above, Resolving, Placing, Searching
  <2> QED BY <1>1, <1>2, <1>6, <1>8, <2>1, <2>2, <2>3, <2>4, <2>5, <2>6, Calls
<1> QED BY <1>1, <1>5, <1>7, <1>8

\* An owner that may change while functions wait.
LEMMA OwnerKeeps ==
  ASSUME IInv, call # <<>>, op' = op, NEW r \in DOMAIN rec, NEW v \in 0 .. Len(rec),
         NEW s \in DOMAIN rec, NEW w \in 0 .. Len(rec),
         rec' = SetField(SetField(rec, s, "owner", w), r, "owner", v),
         \A i \in DOMAIN call : i < Len(call) /\ call[i].at \in Resolving => call[i].record = r /\ v # None
  PROVE  StepKeeps /\ DOMAIN rec' = DOMAIN rec
<1> DEFINE r1 == SetField(rec, s, "owner", w)
           m == Len(op)
<1>1. RecordsAre(rec, m) /\ m \in Nat /\ PointsIntact(op)
  BY TopIs
<1>2. "owner" \in Fields /\ "splits" \in Fields
  BY DEF Fields
<1>3. RecordsAre(r1, m) /\ FieldIs(r1, rec, s, "owner", w)
  <2>1. Fits("owner", w, Len(rec), m)
    BY DEF Fits
  <2> HIDE DEF m
  <2> QED BY <1>1, <1>2, <2>1, FieldSet
<1> HIDE DEF r1
<1>4. Len(r1) = Len(rec) /\ DOMAIN r1 = DOMAIN rec
  BY <1>3 DEF FieldIs
<1>5. RecordsAre(rec', m) /\ FieldIs(rec', r1, r, "owner", v)
  <2>1. Fits("owner", v, Len(r1), m)
    BY <1>4 DEF Fits
  <2>2. rec' = SetField(r1, r, "owner", v)
    BY DEF r1
  <2> HIDE DEF m
  <2> QED BY <1>1, <1>2, <1>3, <1>4, <2>1, <2>2, FieldSet
<1>6. /\ DOMAIN rec' = DOMAIN rec /\ rec'[r].owner = v
      /\ \A x \in DOMAIN rec : rec'[x].splits = rec[x].splits
  BY <1>2, <1>3, <1>4, <1>5 DEF FieldIs
<1>7. Grows(rec', rec)
  <2>1. \A x \in DOMAIN rec : Len(rec[x].splits) \in Nat
    BY <1>1, SplitsAreSequences
  <2> QED BY <1>6, <2>1 DEF Grows
<1>8. OwnersStay(call, rec')
  BY <1>6 DEF OwnersStay
<1>9. PointsIntact(op') /\ RecordsAre(rec', Len(op'))
  BY <1>1, <1>5
<1> QED BY <1>6, <1>7, <1>8, <1>9 DEF StepKeeps

LEMMA OwnerIsRecord ==
  ASSUME NEW m, NEW records, RecordsAre(records, m), NEW r \in DOMAIN records
  PROVE  /\ records[r].owner \in 0 .. Len(records)
         /\ records[r].owner # None => records[r].owner \in DOMAIN records /\ records[r].owner \in Nat
<1> DEFINE o == records[r].owner
<1>1. o \in 0 .. Len(records)
  BY DEF RecordsAre, RecordIs
<1>2. Len(records) \in Nat /\ DOMAIN records = 1 .. Len(records)
  <2>1. Sequence(records)
    BY DEF RecordsAre
  <2> QED BY <2>1, SequenceType
<1> HIDE DEF o
<1>3. o # None => o \in DOMAIN records /\ o \in Nat
  <2>1. o \in Nat /\ o <= Len(records)
    BY <1>1, <1>2
  <2>2. o # 0 => o \in 1 .. Len(records)
    BY <1>2, <2>1
  <2> QED BY <1>2, <2>1, <2>2 DEF None
<1> QED BY <1>1, <1>3 DEF o

LEMMA SplitBoundedKeepsInvariant ==
  ASSUME IInv, SplitBounded
  PROVE  IInv'
<1> DEFINE f == Top
           r == Top.record
           s == Top.current
           w == IF r \in Owners(rec, s) THEN rec[r].owner ELSE rec[s].owner
<1>1. /\ Running("split bounded") /\ UNCHANGED engine /\ op' = op
      /\ \/ Return(TRUE) /\ rec' = SetField(SetField(rec, s, "owner", w), r, "owner", s)
         \/ NextSplit /\ rec' = rec
  <2>1. /\ Running("split bounded") /\ UNCHANGED engine /\ op' = op
        /\ \/ /\ Return(TRUE)
              /\ rec' = [rec EXCEPT ![s].owner = IF r \in Owners(rec, s) THEN rec[r].owner ELSE @, ![r].owner = s]
           \/ NextSplit /\ rec' = rec
    BY DEF SplitBounded
  <2> QED BY <2>1 DEF SetField
<1>2. call # <<>> /\ Top.at = "split bounded"
  BY <1>1, RunningIs
<1>3. /\ Top \in Call /\ r \in DOMAIN rec /\ AllAbove(call, Top) /\ Top.holder \in DOMAIN rec
      /\ Top.index >= 1 /\ Top.index \in Nat /\ s \in DOMAIN rec /\ s # r
      /\ RecordsAre(rec, Len(op)) /\ DOMAIN rec = 1 .. Len(rec) /\ Len(rec) \in Nat
  <2>1. /\ Top \in Call /\ FrameIs(Top, rec, Len(op)) /\ AllAbove(call, Top)
        /\ RecordsAre(rec, Len(op)) /\ DOMAIN rec = 1 .. Len(rec) /\ Len(rec) \in Nat
    BY <1>2, TopIs
  <2> QED BY <1>2, <2>1 DEF FrameIs, Searching, Call
<1>4. CASE Return(TRUE) /\ rec' = SetField(SetField(rec, s, "owner", w), r, "owner", s)
  <2>1. s \in 0 .. Len(rec) /\ s # None
    BY <1>3 DEF None
  <2>2. w \in 0 .. Len(rec)
    BY <1>3 DEF RecordsAre, RecordIs
  <2>3. ASSUME NEW i \in DOMAIN call, i < Len(call), call[i].at \in Resolving
        PROVE  call[i].record = r /\ s # None
    BY <1>2, <1>3, <2>1, <2>3 DEF AllAbove, Above, Searching
  <2> HIDE DEF w, r, s
  <2>4. StepKeeps
    BY <1>1, <1>2, <1>3, <1>4, <2>1, <2>2, <2>3, OwnerKeeps
  <2>5. call' = Front(call)
    BY <1>4, ReturnIs
  <2> QED BY <1>1, <1>2, <2>4, <2>5, Returns
<1>5. CASE NextSplit /\ rec' = rec
  <2> DEFINE onward == WithNextSplit(Top)
  <2>1. call' = SetTop(call, onward)
    BY <1>5, NextSplitIs
  <2>2. /\ onward \in Call /\ onward.at = "splits" /\ onward.record = r
        /\ onward.holder = Top.holder /\ onward.index = Top.index + 1
    BY <1>3, OnwardType
  <2> HIDE DEF onward
  <2>3. FrameIs(onward, rec, Len(op))
    BY <1>3, <2>2 DEF FrameIs, Searching
  <2>4. AllAbove(call, onward)
    BY <1>2, <1>3, <2>2, AboveStays DEF Resolving, Placing, Searching
  <2> QED BY <1>1, <1>2, <1>5, <2>1, <2>2, <2>3, <2>4, JustGoes
<1> QED BY <1>1, <1>4, <1>5

LEMMA ResolveKeepsInvariant ==
  ASSUME IInv, resolve_output_record_owner
  PROVE  IInv'
<1> DEFINE r == Top.record
           owner == rec[r].owner
           waiting == [Top EXCEPT !.at = "owner searched"]
           trying == [Top EXCEPT !.at = "owner"]
           search == Frame("splits", r, owner)
<1>1. /\ Running("resolve") /\ UNCHANGED engine /\ UNCHANGED <<op, rec>>
      /\ \/ Return(FALSE)
         \/ owner # None /\ CallThen(search, "owner searched")
         \/ owner # None /\ Goto("owner")
  BY DEF resolve_output_record_owner
<1>2. call # <<>> /\ Top.at = "resolve"
  BY <1>1, RunningIs
<1>3. /\ Top \in Call /\ r \in DOMAIN rec /\ r \in Nat /\ AllAbove(call, Top)
      /\ RecordsAre(rec, Len(op)) /\ DOMAIN rec = 1 .. Len(rec) /\ Len(rec) \in Nat
  BY <1>2, TopIs DEF Call
<1>4. owner \in 0 .. Len(rec) /\ (owner # None => owner \in DOMAIN rec /\ owner \in Nat)
  BY <1>3, OwnerIsRecord
<1>5. CASE Return(FALSE)
  BY <1>1, <1>2, <1>5, JustReturns
<1>6. CASE owner # None /\ CallThen(search, "owner searched")
  <2> owner \in DOMAIN rec /\ owner \in Nat
    BY <1>4, <1>6
  <2>1. call' = Append(SetTop(call, waiting), search)
    BY <1>6, CallThenIs
  <2>2. waiting \in Call /\ waiting.at = "owner searched" /\ waiting.record = r
    <3>1. "owner searched" \in Steps
      BY DEF Steps
    <3> QED BY ONLY <1>3, <3>1, AtChanged
  <2>3. /\ search \in Call /\ search.at = "splits" /\ search.record = r /\ search.holder = owner
        /\ search.index = 1
    <3>1. "splits" \in Steps
      BY DEF Steps
    <3> HIDE DEF owner
    <3> QED BY <1>3, <3>1, FrameType
  <2> HIDE DEF waiting, search
  <2>4. FrameIs(waiting, rec, Len(op)) /\ waiting.at \in Waiting
    BY <1>3, <1>6, <2>2 DEF FrameIs, Searching, Waiting
  <2>5. FrameIs(search, rec, Len(op))
    BY <1>3, <2>3 DEF FrameIs, Searching
  <2>6. AllAbove(call, waiting) /\ AllAbove(call, search)
    BY <1>2, <1>3, AnythingAbove DEF Resolving
  <2>7. Above(waiting, search)
    BY <2>2, <2>3 DEF Above, Resolving, Placing
  <2> QED BY <1>1, <1>2, <2>1, <2>2, <2>3, <2>4, <2>5, <2>6, <2>7, JustCalls
<1>7. CASE owner # None /\ Goto("owner")
  <2>1. call' = SetTop(call, trying)
    BY <1>7, GotoIs
  <2>2. trying \in Call /\ trying.at = "owner" /\ trying.record = r
    <3>1. "owner" \in Steps
      BY DEF Steps
    <3> QED BY ONLY <1>3, <3>1, AtChanged
  <2> HIDE DEF trying
  <2>3. FrameIs(trying, rec, Len(op))
    BY <1>3, <1>7, <2>2 DEF FrameIs, Searching
  <2>4. AllAbove(call, trying)
    BY <1>2, <1>3, AnythingAbove DEF Resolving
  <2> QED BY <1>1, <1>2, <2>1, <2>2, <2>3, <2>4, JustGoes
<1> QED BY <1>1, <1>5, <1>6, <1>7

LEMMA OwnerSearchedKeepsInvariant ==
  ASSUME IInv, OwnerSearched
  PROVE  IInv'
<1>1. /\ Running("owner searched") /\ UNCHANGED engine /\ UNCHANGED <<op, rec>>
      /\ Return(FALSE) \/ Goto("owner")
  BY DEF OwnerSearched
<1>2. call # <<>> /\ Top.at = "owner searched"
  BY <1>1, RunningIs
<1>3. Top \in Call /\ FrameIs(Top, rec, Len(op)) /\ AllAbove(call, Top)
  BY <1>2, TopIs
<1>4. CASE Return(FALSE)
  BY <1>1, <1>2, <1>4, JustReturns
<1>5. CASE Goto("owner")
  <2> DEFINE g == [Top EXCEPT !.at = "owner"]
  <2>1. call' = SetTop(call, g)
    BY <1>5, GotoIs
  <2>2. g \in Call /\ g.at = "owner" /\ g.record = Top.record
    <3>1. "owner" \in Steps
      BY DEF Steps
    <3> QED BY ONLY <1>3, <3>1, AtChanged
  <2> HIDE DEF g
  <2>3. FrameIs(g, rec, Len(op))
    BY <1>2, <1>3, <2>2 DEF FrameIs, Searching
  <2>4. AllAbove(call, g)
    BY <1>2, <1>3, AnythingAbove DEF Resolving
  <2> QED BY <1>1, <1>2, <2>1, <2>2, <2>3, <2>4, JustGoes
<1> QED BY <1>1, <1>4, <1>5

\* The record is given the owner of its owner.
LEMMA ToNextOwnerKeepsInvariant ==
  ASSUME IInv, call # <<>>, Top.at \in {"owner", "owner bounded"}, UNCHANGED engine, op' = op, ToNextOwner
  PROVE  IInv'
<1> DEFINE r == Top.record
           next == rec[rec[r].owner].owner
           g == [Top EXCEPT !.at = "resolve"]
<1>1. call' = SetTop(call, g) /\ rec' = [rec EXCEPT ![r].owner = next]
  BY GotoIs DEF ToNextOwner
<1>2. /\ Top \in Call /\ FrameIs(Top, rec, Len(op)) /\ AllAbove(call, Top) /\ r \in DOMAIN rec
      /\ RecordsAre(rec, Len(op)) /\ DOMAIN rec = 1 .. Len(rec) /\ Len(rec) \in Nat
  BY TopIs
<1>3. \A x \in DOMAIN rec : rec[x].owner \in 0 .. Len(rec)
  BY <1>2 DEF RecordsAre, RecordIs
<1>4. next \in 0 .. Len(rec)
  <2>1. rec[r].owner # None
    BY <1>2 DEF FrameIs
  <2>2. rec[r].owner \in DOMAIN rec
    BY <1>2, <2>1, OwnerIsRecord
  <2> QED BY <1>3, <2>2
<1>5. rec' = SetField(SetField(rec, r, "owner", next), r, "owner", next)
  <2> HIDE DEF next, r
  <2> QED BY <1>1 DEF SetField
<1>6. \A i \in DOMAIN call : i < Len(call) => call[i].at \notin Resolving
  BY <1>2 DEF AllAbove, Above, Resolving
<1> HIDE DEF next, r
<1>7. StepKeeps /\ DOMAIN rec' = DOMAIN rec
  BY <1>2, <1>4, <1>5, <1>6, OwnerKeeps
<1>8. g \in Call /\ g.at = "resolve" /\ g.record = r
  <2>1. "resolve" \in Steps
    BY DEF Steps
  <2> QED BY ONLY <1>2, <2>1, AtChanged DEF r
<1> HIDE DEF g
<1>9. FrameIs(g, rec', Len(op'))
  BY <1>2, <1>7, <1>8 DEF FrameIs, Searching
<1>10. AllAbove(call, g)
  BY <1>2, AnythingAbove DEF Resolving
<1> QED BY <1>1, <1>7, <1>8, <1>9, <1>10, Goes

LEMMA TryOwnerKeepsInvariant ==
  ASSUME IInv, TryOwner
  PROVE  IInv'
<1> DEFINE r == Top.record
           owner == rec[r].owner
           g == [Top EXCEPT !.at = "owner bounded"]
           h == Frame("bounds", owner, None)
<1>1. /\ Running("owner") /\ UNCHANGED engine /\ op' = op
      /\ ToNextOwner \/ (CallThen(h, "owner bounded") /\ rec' = rec)
  BY DEF TryOwner
<1>2. call # <<>> /\ Top.at = "owner"
  BY <1>1, RunningIs
<1>3. /\ Top \in Call /\ FrameIs(Top, rec, Len(op)) /\ AllAbove(call, Top) /\ r \in DOMAIN rec
      /\ RecordsAre(rec, Len(op)) /\ DOMAIN rec = 1 .. Len(rec) /\ Len(rec) \in Nat
  BY <1>2, TopIs
<1>4. CASE ToNextOwner
  BY <1>1, <1>2, <1>4, ToNextOwnerKeepsInvariant
<1>5. CASE CallThen(h, "owner bounded") /\ rec' = rec
  <2>1. call' = Append(SetTop(call, g), h)
    BY <1>5, CallThenIs
  <2>2. g \in Call /\ g.at = "owner bounded" /\ g.record = r
    <3>1. "owner bounded" \in Steps
      BY DEF Steps
    <3> QED BY ONLY <1>3, <3>1, AtChanged
  <2>3. owner \in DOMAIN rec /\ owner \in Nat /\ owner # None
    <3>1. owner # None
      BY <1>2, <1>3 DEF FrameIs
    <3> QED BY <1>3, <3>1, OwnerIsRecord
  <2>4. h \in Call /\ h.at = "bounds" /\ h.record = owner
    <3>1. "bounds" \in Steps /\ None \in Nat
      BY DEF Steps, None
    <3> QED BY <2>3, <3>1, FrameType
  <2>5. owner \in DOMAIN rec
    BY <2>3
  <2> HIDE DEF g, h
  <2>6. FrameIs(g, rec, Len(op)) /\ g.at \in Waiting
    BY <1>3, <2>2, <2>3 DEF FrameIs, Searching, Waiting
  <2>7. FrameIs(h, rec, Len(op))
    BY <2>4, <2>5 DEF FrameIs, Searching
  <2>8. AllAbove(call, g) /\ AllAbove(call, h)
    BY <1>2, <1>3, AnythingAbove DEF Resolving
  <2>9. Above(g, h)
    BY <2>2, <2>4 DEF Above, Resolving, Placing, Searching
  <2> QED BY <1>1, <1>2, <1>5, <2>1, <2>2, <2>4, <2>6, <2>7, <2>8, <2>9, JustCalls
<1> QED BY <1>1, <1>4, <1>5

LEMMA OwnerBoundedKeepsInvariant ==
  ASSUME IInv, OwnerBounded
  PROVE  IInv'
<1>1. /\ Running("owner bounded") /\ UNCHANGED engine /\ op' = op
      /\ ToNextOwner \/ (Return(FALSE) /\ rec' = rec)
  BY DEF OwnerBounded
<1>2. call # <<>> /\ Top.at = "owner bounded"
  BY <1>1, RunningIs
<1> QED BY <1>1, <1>2, ToNextOwnerKeepsInvariant, JustReturns

LEMMA PlaceRecordKeepsInvariant ==
  ASSUME IInv, PlaceRecord
  PROVE  IInv'
<1>1. /\ Running("place") /\ UNCHANGED engine /\ UNCHANGED <<op, rec>>
      /\ Return(FALSE) \/ Goto("owners")
  BY DEF PlaceRecord
<1>2. call # <<>> /\ Top.at = "place"
  BY <1>1, RunningIs
<1>3. Top \in Call /\ FrameIs(Top, rec, Len(op)) /\ AllAbove(call, Top)
  BY <1>2, TopIs
<1>4. CASE Return(FALSE)
  BY <1>1, <1>2, <1>4, JustReturns
<1>5. CASE Goto("owners")
  <2> DEFINE g == [Top EXCEPT !.at = "owners"]
  <2>1. call' = SetTop(call, g)
    BY <1>5, GotoIs
  <2>2. g \in Call /\ g.at = "owners" /\ g.record = Top.record
    <3>1. "owners" \in Steps
      BY DEF Steps
    <3> QED BY ONLY <1>3, <3>1, AtChanged
  <2> HIDE DEF g
  <2>3. FrameIs(g, rec, Len(op))
    BY <1>2, <1>3, <2>2 DEF FrameIs, Searching
  <2>4. AllAbove(call, g)
    BY <1>2, <1>3, AnythingAbove DEF Placing
  <2> QED BY <1>1, <1>2, <2>1, <2>2, <2>3, <2>4, JustGoes
<1> QED BY <1>1, <1>4, <1>5

\* A record is placed after its owner: the function calls itself or looks for the owner.
LEMMA PlacingCalls ==
  ASSUME IInv, call # <<>>, Top.at \in Placing, UNCHANGED engine, UNCHANGED <<op, rec>>,
         NEW at, at \in {"resolved", "owner placed"}, NEW r, r \in DOMAIN rec,
         NEW step, step \in {"resolve", "owners"},
         CallThen(Frame(step, r, None), at)
  PROVE  IInv'
<1> DEFINE g == [Top EXCEPT !.at = at]
           h == Frame(step, r, None)
<1>1. call' = Append(SetTop(call, g), h)
  BY CallThenIs
<1>2. /\ Top \in Call /\ FrameIs(Top, rec, Len(op)) /\ AllAbove(call, Top) /\ Top.record \in DOMAIN rec
      /\ DOMAIN rec = 1 .. Len(rec) /\ Len(rec) \in Nat
  BY TopIs
<1>3. at \in Steps /\ step \in Steps /\ None \in Nat /\ r \in Nat
  <2>1. at \in Steps
    BY DEF Steps
  <2>2. step \in Steps
    BY DEF Steps
  <2>3. None \in Nat
    BY DEF None
  <2>4. r \in DOMAIN rec /\ DOMAIN rec = 1 .. Len(rec) /\ Len(rec) \in Nat
    BY <1>2
  <2>5. r \in Nat
    BY ONLY <2>4
  <2> QED BY ONLY <2>1, <2>2, <2>3, <2>5
<1>4. g \in Call /\ g.at = at /\ g.record = Top.record
  BY <1>2, <1>3, AtChanged
<1>5. h \in Call /\ h.at = step /\ h.record = r
  BY ONLY <1>3, FrameType
<1> HIDE DEF g, h
<1>6. FrameIs(g, rec, Len(op)) /\ g.at \in Waiting
  BY <1>2, <1>4 DEF FrameIs, Searching, Waiting
<1>7. FrameIs(h, rec, Len(op))
  BY <1>5 DEF FrameIs, Searching
<1>8. AllAbove(call, g) /\ AllAbove(call, h)
  BY <1>2, AnythingAbove
<1>9. Above(g, h)
  BY <1>4 DEF Above, Resolving
<1> QED BY <1>1, <1>4, <1>5, <1>6, <1>7, <1>8, <1>9, JustCalls

LEMMA CheckOwnersKeepsInvariant ==
  ASSUME IInv, recursive_check_owners
  PROVE  IInv'
<1>1. /\ Running("owners") /\ UNCHANGED engine /\ UNCHANGED <<op, rec>>
      /\ Return(FALSE) \/ CallThen(Frame("resolve", Top.record, None), "resolved")
  BY DEF recursive_check_owners
<1>2. call # <<>> /\ Top.at \in Placing
  BY <1>1, RunningIs DEF Placing
<1>3. Top.record \in DOMAIN rec
  BY <1>2, TopIs
<1>4. "resolved" \in {"resolved", "owner placed"} /\ "resolve" \in {"resolve", "owners"}
  OBVIOUS
<1> QED BY <1>1, <1>2, <1>3, <1>4, PlacingCalls, JustReturns

LEMMA PlaceOwnerKeepsInvariant ==
  ASSUME IInv, PlaceOwnerFirst
  PROVE  IInv'
<1> DEFINE owner == rec[Top.record].owner
<1>1. /\ Running("resolved") /\ UNCHANGED engine /\ UNCHANGED <<op, rec>>
      /\ owner # None /\ CallThen(Frame("owners", owner, None), "owner placed")
  BY DEF PlaceOwnerFirst, OwnerNeedsNode
<1>2. call # <<>> /\ Top.at \in Placing
  BY <1>1, RunningIs DEF Placing
<1>3. /\ Top.record \in DOMAIN rec /\ RecordsAre(rec, Len(op)) /\ DOMAIN rec = 1 .. Len(rec)
      /\ Len(rec) \in Nat
  BY <1>2, TopIs
<1>4. owner \in DOMAIN rec
  BY <1>1, <1>3, OwnerIsRecord
<1> HIDE DEF owner
<1>5. "owner placed" \in {"resolved", "owner placed"} /\ "owners" \in {"resolve", "owners"}
  OBVIOUS
<1> QED BY <1>1, <1>2, <1>4, <1>5, PlacingCalls

-----------------------------------------------------------------------------
(* The cleanup of a ring.                                                  *)

\* A ring is given up: its points are taken out of it, and its record is emptied.
LEMMA GivingUpKeeps ==
  ASSUME IInv, call # <<>>, NEW r \in DOMAIN rec, dispose_out_points(r)
  PROVE  StepKeeps
<1>1. PointsIntact(op) /\ Len(op) \in Nat /\ RecordsAre(rec, Len(op))
  BY TopIs
<1>2. PointsIntact(op') /\ Len(op') = Len(op) /\ rec' = [rec EXCEPT ![r].pts = None]
  BY <1>1, DisposedKeepsRings
<1>3. rec' = SetField(rec, r, "pts", None)
  BY <1>2 DEF SetField
<1>4. "pts" \in Fields \ {"owner", "splits"}
  BY DEF Fields
<1>5. Fits("pts", None, Len(rec), Len(op')) /\ Len(op) <= Len(op')
  BY <1>1, <1>2 DEF Fits, None
<1> QED BY <1>2, <1>3, <1>4, <1>5, FieldKeeps

LEMMA RingGivenUp ==
  ASSUME IInv, call # <<>>, UNCHANGED engine, dispose_out_points(Top.record), Return(FALSE)
  PROVE  IInv'
BY TopIs, GivingUpKeeps, ReturnIs, Returns

\* The function goes on with the ring of a live record.
LEMMA CleaningGoes ==
  ASSUME IInv, call # <<>>, UNCHANGED engine, StepKeeps,
         NEW g \in Call, g.at \in {"scan", "check", "fix", "fixed"}, g.record \in DOMAIN rec',
         rec'[g.record].pts # None, g.current \in 1 .. Len(op'),
         call' = SetTop(call, g)
  PROVE  IInv'
<1>1. FrameIs(g, rec', Len(op'))
  BY DEF FrameIs, Searching
<1>2. AllAbove(call, g)
  BY NothingAbove DEF Resolving, Placing, Searching
<1> QED BY <1>1, <1>2, Goes

LEMMA CleanCollinearKeepsInvariant ==
  ASSUME IInv, CleanCollinear
  PROVE  IInv'
<1> DEFINE r == get_real_outrec(rec, Top.record)
           p == rec[Top.record].pts
           g == [Top EXCEPT !.at = "scan", !.record = Top.record, !.current = p, !.start = p]
<1>1. /\ Running("clean") /\ UNCHANGED engine
      /\ \/ /\ call' = [call EXCEPT ![Len(call)] = [@ EXCEPT !.at = "scan", !.record = r,
                            !.current = rec[r].pts, !.start = rec[r].pts]]
            /\ UNCHANGED <<op, rec>>
         \/ dispose_out_points(r) /\ Return(FALSE)
  BY DEF CleanCollinear
<1>2. call # <<>> /\ Top.at = "clean"
  BY <1>1, RunningIs
<1>3. /\ Top \in Call /\ FrameIs(Top, rec, Len(op)) /\ Sequence(rec) /\ RecordsAre(rec, Len(op))
      /\ Len(op) \in Nat /\ Top.record \in DOMAIN rec /\ DOMAIN rec = 1 .. Len(rec) /\ Len(rec) \in Nat
  BY <1>2, TopIs
<1>4. p # None /\ p \in 1 .. Len(op) /\ p \in Nat
  <2>1. p # None
    BY <1>2, <1>3 DEF FrameIs
  <2>2. p \in 0 .. Len(op)
    BY <1>3 DEF RecordsAre, RecordIs
  <2> HIDE DEF p
  <2> QED BY <1>3, <2>1, <2>2 DEF None
<1>5. r = Top.record
  BY <1>3, <1>4, RealOfLive
<1> HIDE DEF r
<1>6. CASE dispose_out_points(r) /\ Return(FALSE)
  BY <1>1, <1>2, <1>5, <1>6, RingGivenUp
<1>7. CASE /\ call' = [call EXCEPT ![Len(call)] = [@ EXCEPT !.at = "scan", !.record = r,
                            !.current = rec[r].pts, !.start = rec[r].pts]]
           /\ UNCHANGED <<op, rec>>
  <2>1. call' = SetTop(call, g)
    BY <1>5, <1>7 DEF SetTop, Top, Last
  <2> HIDE DEF p
  <2>2. g \in Call /\ g.at = "scan" /\ g.record = Top.record /\ g.current = p
    <3>1. Top.record \in Nat /\ "scan" \in Steps
      BY <1>3 DEF Steps
    <3> QED BY <1>3, <1>4, <3>1 DEF Call
  <2> HIDE DEF g
  <2>3. StepKeeps
    BY <1>2, <1>7, NothingChanges
  <2>4. g.record \in DOMAIN rec' /\ rec'[g.record].pts # None /\ g.current \in 1 .. Len(op')
    BY <1>3, <1>4, <1>7, <2>2 DEF p
  <2> QED BY <1>1, <1>2, <2>1, <2>2, <2>3, <2>4, CleaningGoes
<1> QED BY <1>1, <1>6, <1>7

\* What a function that cleans a ring has at hand.
LEMMA CleaningIs ==
  ASSUME IInv, call # <<>>, Top.at \in {"scan", "check", "fix"}
  PROVE  /\ Top \in Call /\ Top.record \in DOMAIN rec /\ Top.record \in Nat
         /\ rec[Top.record].pts # None /\ rec[Top.record].pts \in 1 .. Len(op)
         /\ Top.current \in DOMAIN op /\ Top.current \in 1 .. Len(op)
         /\ PointsIntact(op) /\ RecordsAre(rec, Len(op)) /\ Len(op) \in Nat /\ DOMAIN op = 1 .. Len(op)
         /\ DOMAIN rec = 1 .. Len(rec) /\ Len(rec) \in Nat
<1>1. /\ Top \in Call /\ FrameIs(Top, rec, Len(op)) /\ RecordsAre(rec, Len(op)) /\ PointsIntact(op)
      /\ Len(op) \in Nat /\ Top.record \in DOMAIN rec /\ DOMAIN rec = 1 .. Len(rec) /\ Len(rec) \in Nat
      /\ DOMAIN op = 1 .. Len(op)
  BY TopIs
<1> DEFINE p == rec[Top.record].pts
<1>2. p # None /\ Top.current \in 1 .. Len(op)
  BY <1>1 DEF FrameIs
<1>3. p \in 0 .. Len(op)
  BY <1>1 DEF RecordsAre, RecordIs
<1> HIDE DEF p
<1>4. p \in 1 .. Len(op)
  BY <1>1, <1>2, <1>3 DEF None
<1> QED BY <1>1, <1>2, <1>4 DEF p

LEMMA RemovePointKeepsInvariant ==
  ASSUME IInv, RemovePoint
  PROVE  IInv'
<1> DEFINE p == Top.current
           r == Top.record
           q == op[p].next
           v == IF rec[r].pts = p THEN op[rec[r].pts].prev ELSE rec[r].pts
           g == [Top EXCEPT !.current = q, !.start = q, !.at = "check"]
<1>1. /\ Running("scan") /\ UNCHANGED engine /\ op' = dispose_out_point(p)
      /\ rec' = [rec EXCEPT ![r].pts = IF @ = p THEN op[@].prev ELSE @]
      /\ call' = [call EXCEPT ![Len(call)] = [@ EXCEPT !.current = q, !.start = q, !.at = "check"]]
  BY DEF RemovePoint
<1>2. call # <<>> /\ Top.at = "scan"
  BY <1>1, RunningIs
<1>3. /\ Top \in Call /\ r \in DOMAIN rec /\ r \in Nat /\ rec[r].pts # None /\ rec[r].pts \in 1 .. Len(op)
      /\ p \in DOMAIN op /\ PointsIntact(op) /\ Len(op) \in Nat /\ DOMAIN op = 1 .. Len(op)
  BY <1>2, CleaningIs
<1>4. q \in DOMAIN op /\ op[p].prev \in DOMAIN op
  BY <1>3, LinksInDomain
<1>5. v \in 1 .. Len(op) /\ v # None
  BY <1>3, <1>4 DEF None
<1>6. PointsIntact(op') /\ Len(op') = Len(op)
  BY <1>1, <1>3, TakenOutKeepsRings
<1>7. rec' = SetField(rec, r, "pts", v)
  BY <1>1 DEF SetField
<1>8. call' = SetTop(call, g)
  BY <1>1 DEF SetTop, Top, Last
<1> HIDE DEF v, q
<1>9. g \in Call /\ g.at = "check" /\ g.record = r /\ g.current = q
  <2>1. q \in Nat /\ "check" \in Steps
    BY <1>3, <1>4 DEF Steps
  <2> QED BY <1>3, <2>1 DEF Call
<1> HIDE DEF g, r, p
<1>10. StepKeeps /\ FieldIs(rec', rec, r, "pts", v)
  <2>1. "pts" \in Fields \ {"owner", "splits"}
    BY DEF Fields
  <2>2. Fits("pts", v, Len(rec), Len(op')) /\ Len(op) <= Len(op')
    BY <1>3, <1>5, <1>6 DEF Fits
  <2> QED BY <1>2, <1>3, <1>6, <1>7, <2>1, <2>2, FieldKeeps
<1>11. r \in DOMAIN rec' /\ rec'[r].pts = v
  <2>1. "pts" \in Fields
    BY DEF Fields
  <2> QED BY <1>3, <1>10, <2>1 DEF FieldIs
<1> QED BY <1>1, <1>2, <1>3, <1>4, <1>5, <1>6, <1>8, <1>9, <1>10, <1>11, CleaningGoes

LEMMA CheckRingKeepsInvariant ==
  ASSUME IInv, CheckRing
  PROVE  IInv'
<1> DEFINE g == [Top EXCEPT !.at = "scan"]
<1>1. /\ Running("check") /\ UNCHANGED engine
      /\ \/ Goto("scan") /\ UNCHANGED <<op, rec>>
         \/ dispose_out_points(Top.record) /\ Return(FALSE)
  BY DEF CheckRing
<1>2. call # <<>> /\ Top.at = "check"
  BY <1>1, RunningIs
<1>3. CASE dispose_out_points(Top.record) /\ Return(FALSE)
  BY <1>1, <1>2, <1>3, RingGivenUp
<1>4. CASE Goto("scan") /\ UNCHANGED <<op, rec>>
  <2>1. /\ Top \in Call /\ Top.record \in DOMAIN rec /\ rec[Top.record].pts # None
        /\ Top.current \in 1 .. Len(op)
    BY <1>2, CleaningIs
  <2>2. call' = SetTop(call, g)
    BY <1>4, GotoIs
  <2>3. g \in Call /\ g.at = "scan" /\ g.record = Top.record /\ g.current = Top.current
    <3>1. "scan" \in Steps
      BY DEF Steps
    <3> QED BY ONLY <2>1, <3>1, AtChanged
  <2> HIDE DEF g
  <2>4. StepKeeps
    BY <1>2, <1>4, NothingChanges
  <2>5. g.record \in DOMAIN rec' /\ rec'[g.record].pts # None /\ g.current \in 1 .. Len(op')
    BY <1>4, <2>1, <2>3
  <2> QED BY <1>1, <1>2, <2>2, <2>3, <2>4, <2>5, CleaningGoes
<1> QED BY <1>1, <1>3, <1>4

\* The function goes on at a step and at a point.
AtPoint(f, p, at) == [f EXCEPT !.current = p, !.at = at]

LEMMA AtPointType ==
  ASSUME NEW f \in Call, NEW at \in Steps, NEW p \in Nat
  PROVE  /\ AtPoint(f, p, at) \in Call /\ AtPoint(f, p, at).at = at
         /\ AtPoint(f, p, at).record = f.record /\ AtPoint(f, p, at).current = p
BY DEF Call, AtPoint

\* A step that leaves the points and the records alone.
LEMMA LookingOn ==
  ASSUME IInv, call # <<>>, Top.at \in {"scan", "fix"}, UNCHANGED engine, StepKeeps,
         NEW p, p \in 1 .. Len(op'), NEW at, at \in {"scan", "fix", "fixed"},
         rec'[Top.record].pts # None,
         call' = [call EXCEPT ![Len(call)] = [@ EXCEPT !.current = p, !.at = at]]
  PROVE  IInv'
<1> DEFINE g == AtPoint(Top, p, at)
<1>1. call' = SetTop(call, g)
  BY DEF SetTop, Top, Last, AtPoint
<1>2. Top \in Call /\ Top.record \in DOMAIN rec'
  <2>1. Top \in Call /\ Top.record \in DOMAIN rec
    BY CleaningIs
  <2> QED BY <2>1 DEF StepKeeps, Grows
<1>3. p \in Nat
  <2>1. Len(op') \in Nat
    BY DEF StepKeeps, PointsIntact
  <2> QED BY <2>1
<1>4. g \in Call /\ g.at = at /\ g.record = Top.record /\ g.current = p
  <2>1. at \in Steps
    BY DEF Steps
  <2> QED BY <1>2, <1>3, <2>1, AtPointType
<1> HIDE DEF g
<1> QED BY <1>1, <1>2, <1>4, CleaningGoes

LEMMA KeepPointKeepsInvariant ==
  ASSUME IInv, KeepPoint
  PROVE  IInv'
<1> DEFINE next == op[Top.current].next
           q == IF next = Top.start THEN rec[Top.record].pts ELSE next
           at == IF next # Top.start THEN "scan"
                 ELSE IF op[op[rec[Top.record].pts].next].next = op[rec[Top.record].pts].prev
                 THEN "fixed" ELSE "fix"
<1>1. /\ Running("scan") /\ UNCHANGED engine /\ UNCHANGED <<op, rec>>
      /\ call' = [call EXCEPT ![Len(call)] = [@ EXCEPT !.current = q, !.at = at]]
  BY DEF KeepPoint
<1>2. call # <<>> /\ Top.at = "scan"
  BY <1>1, RunningIs
<1>3. /\ Top.current \in DOMAIN op /\ PointsIntact(op) /\ DOMAIN op = 1 .. Len(op)
      /\ rec[Top.record].pts \in 1 .. Len(op) /\ rec[Top.record].pts # None
  BY <1>2, CleaningIs
<1>4. q \in 1 .. Len(op)
  BY <1>3, LinksInDomain
<1>5. at \in {"scan", "fix", "fixed"}
  OBVIOUS
<1> HIDE DEF q, at
<1>6. StepKeeps
  BY <1>1, <1>2, NothingChanges
<1>7. q \in 1 .. Len(op') /\ rec'[Top.record].pts # None
  BY <1>1, <1>3, <1>4
<1> QED BY <1>1, <1>2, <1>5, <1>6, <1>7, LookingOn

LEMMA ScanOnIs ==
  ASSUME NEW p, NEW records, ScanOn(p, records)
  PROVE  \E at : /\ at \in {"scan", "fix", "fixed"}
                 /\ call' = [call EXCEPT ![Len(call)] = [@ EXCEPT !.current = p, !.at = at]]
<1> DEFINE at == IF p = records[Top.record].pts THEN "fixed" ELSE "fix"
<1>1. at \in {"scan", "fix", "fixed"}
  OBVIOUS
<1>2. call' = [call EXCEPT ![Len(call)] = [@ EXCEPT !.current = p, !.at = at]]
  BY DEF ScanOn
<1> QED BY <1>1, <1>2

LEMMA NoCrossingKeepsInvariant ==
  ASSUME IInv, NoCrossing
  PROVE  IInv'
<1> DEFINE q == op[Top.current].next
<1>1. Running("fix") /\ UNCHANGED engine /\ UNCHANGED <<op, rec>> /\ ScanOn(q, rec)
  BY DEF NoCrossing
<1>2. call # <<>> /\ Top.at = "fix"
  BY <1>1, RunningIs
<1>3. /\ Top.current \in DOMAIN op /\ PointsIntact(op) /\ DOMAIN op = 1 .. Len(op)
      /\ rec[Top.record].pts # None
  BY <1>2, CleaningIs
<1>4. q \in 1 .. Len(op)
  BY <1>3, LinksInDomain
<1> HIDE DEF q
<1>5. StepKeeps
  BY <1>1, <1>2, NothingChanges
<1>6. q \in 1 .. Len(op') /\ rec'[Top.record].pts # None
  BY <1>1, <1>3, <1>4
<1> QED BY <1>1, <1>2, <1>5, <1>6, ScanOnIs, LookingOn

\* The records are the same, the points may be more.
LEMMA PointsKeep ==
  ASSUME IInv, call # <<>>, PointsIntact(op'), Len(op) <= Len(op'), rec' = rec
  PROVE  StepKeeps
<1>1. /\ RecordsAre(rec, Len(op)) /\ Len(op) \in Nat /\ StackIs(call, rec, Len(op))
  BY TopIs
<1>2. Len(op') \in Nat
  BY DEF PointsIntact
<1>3. RecordsAre(rec', Len(op'))
  BY <1>1, <1>2, MorePoints
<1>4. Grows(rec', rec)
  <2>1. \A r \in DOMAIN rec : Len(rec[r].splits) \in Nat
    BY <1>1, SplitsAreSequences
  <2> QED BY <2>1 DEF Grows
<1>5. OwnersStay(call, rec')
  BY <1>1, OwnersAreThere
<1> QED BY <1>3, <1>4, <1>5 DEF StepKeeps

LEMMA RelocateDuplicateKeepsInvariant ==
  ASSUME IInv, RelocateDuplicate
  PROVE  IInv'
<1> DEFINE p == Top.current
           n == Len(op) + 1
           points == DuplicateBefore(op, p)
           pt == op[Ahead(p)].pt
           point == [points[n] EXCEPT !.pt = pt]
<1>1. /\ Running("fix") /\ UNCHANGED engine /\ rec' = rec /\ ScanOn(p, rec)
      /\ op' = [points EXCEPT ![n].pt = pt]
  BY DEF RelocateDuplicate
<1>2. call # <<>> /\ Top.at = "fix"
  BY <1>1, RunningIs
<1>3. /\ p \in DOMAIN op /\ PointsIntact(op) /\ DOMAIN op = 1 .. Len(op) /\ Len(op) \in Nat
      /\ rec[Top.record].pts # None /\ p \in 1 .. Len(op)
  BY <1>2, CleaningIs
<1>4. PointsIntact(points) /\ Len(points) = n
  BY <1>3, DuplicateBeforeKeepsRings
<1>5. pt \in Place
  <2>1. op[p].next \in DOMAIN op
    BY <1>3, LinksInDomain
  <2>2. Ahead(p) \in DOMAIN op
    BY <1>3, <2>1, LinksInDomain DEF Ahead
  <2> QED BY <1>3, <2>2, PointFields
<1>6. points \in Seq(Point) /\ n \in DOMAIN points /\ points[n] \in Point
  <2>1. points \in Seq(Point) /\ DOMAIN points = 1 .. Len(points)
    BY <1>4 DEF PointsIntact
  <2> HIDE DEF points
  <2>2. n \in DOMAIN points
    BY <1>3, <1>4, <2>1
  <2> QED BY <2>1, <2>2
<1>7. op' = SetPoint(points, n, point)
  BY <1>1 DEF SetPoint
<1> HIDE DEF points, pt
<1>8. point \in Point /\ point.next = points[n].next /\ point.prev = points[n].prev
  BY <1>5, <1>6 DEF Point
<1> HIDE DEF point, n
<1>9. PointIs(op', points, n, point)
  BY <1>6, <1>7, <1>8, PointChanged
<1>10. SameLinks(op', points)
  BY <1>8, <1>9 DEF PointIs, SameLinks
<1>11. PointsIntact(op') /\ Len(op') = n
  BY <1>4, <1>10, SameLinksKeepRings
<1>12. Len(op) <= Len(op') /\ p \in 1 .. Len(op')
  BY <1>3, <1>11 DEF n
<1>13. StepKeeps
  BY <1>1, <1>2, <1>11, <1>12, PointsKeep
<1>14. rec'[Top.record].pts # None
  BY <1>1, <1>3
<1> QED BY <1>1, <1>2, <1>12, <1>13, <1>14, ScanOnIs, LookingOn

LEMMA GiveUpRingKeepsInvariant ==
  ASSUME IInv, GiveUpRing
  PROVE  IInv'
<1>1. call # <<>> /\ UNCHANGED engine /\ dispose_out_points(Top.record) /\ Return(FALSE)
  BY DEF GiveUpRing, Splitting, Running
<1> QED BY <1>1, RingGivenUp

\* What is split off is a record of its own, and one of the two is a split of the other.
SplitRecords(r, before, pts) ==
  Append(SetField(rec, r, "pts", before), NewRecord(pts, rec[r].owner))

SplitsAre(records, r, n) ==
  \/ rec' = records
  \/ rec' = SetField(records, n, "splits", <<r>>)
  \/ rec' = SetField(records, r, "splits", Append(records[r].splits, n))

\* A record more, whose splits begin; the others keep theirs and their owners.
MoreRecords(changed, r) ==
  /\ DOMAIN rec \subseteq DOMAIN changed /\ r \in DOMAIN changed /\ changed[r].pts # None
  /\ \A x \in DOMAIN rec : changed[x].owner = rec[x].owner /\ Len(rec[x].splits) <= Len(changed[x].splits)

WithRecord(records, pts, owner) == Append(records, NewRecord(pts, owner))

WithRecordIs(longer, records, m) ==
  /\ RecordsAre(longer, m) /\ Len(longer) = Len(records) + 1 /\ DOMAIN longer = 1 .. Len(records) + 1
  /\ \A x \in DOMAIN records : longer[x] = records[x]

LEMMA WithRecordType ==
  ASSUME NEW m \in Nat, NEW records, RecordsAre(records, m), NEW pts \in 0 .. m,
         NEW owner \in 0 .. Len(records) + 1
  PROVE  WithRecordIs(WithRecord(records, pts, owner), records, m)
BY RecordAppended DEF WithRecord, WithRecordIs

LEMMA SplitRecordsType ==
  ASSUME IInv, call # <<>>, NEW r \in DOMAIN rec, NEW m \in Nat, Len(op) <= m,
         NEW before, before \in 1 .. m, NEW pts, pts \in 1 .. m
  PROVE  /\ RecordsAre(SplitRecords(r, before, pts), m) /\ MoreRecords(SplitRecords(r, before, pts), r)
         /\ Len(SplitRecords(r, before, pts)) = Len(rec) + 1
         /\ Len(rec) + 1 \in DOMAIN SplitRecords(r, before, pts)
         /\ SplitRecords(r, before, pts)[r].splits \in Seq(1 .. Len(rec) + 1)
<1> DEFINE n == Len(rec) + 1
           shorter == SetField(rec, r, "pts", before)
           records == Append(shorter, NewRecord(pts, rec[r].owner))
<1>1. RecordsAre(rec, Len(op)) /\ Len(op) \in Nat /\ Len(rec) \in Nat /\ DOMAIN rec = 1 .. Len(rec)
  BY TopIs
<1>2. RecordsAre(rec, m)
  BY <1>1, MorePoints
<1>3. RecordsAre(shorter, m) /\ FieldIs(shorter, rec, r, "pts", before)
  <2>1. before \in 0 .. m
    OBVIOUS
  <2>2. "pts" \in Fields /\ Fits("pts", before, Len(rec), m)
    BY <2>1 DEF Fields, Fits
  <2> HIDE DEF shorter
  <2> QED BY <1>2, <2>2, FieldSet DEF shorter
<1> HIDE DEF shorter
<1>4. /\ Len(shorter) = Len(rec) /\ DOMAIN shorter = DOMAIN rec /\ shorter[r].pts = before
      /\ \A x \in DOMAIN rec : shorter[x].owner = rec[x].owner /\ shorter[x].splits = rec[x].splits
  <2>1. "pts" \in Fields /\ "owner" \in Fields /\ "splits" \in Fields
    BY DEF Fields
  <2> QED BY <1>3, <2>1 DEF FieldIs
<1>5. rec[r].owner \in 0 .. Len(shorter) + 1
  <2>1. rec[r].owner \in 0 .. Len(rec)
    BY <1>1 DEF RecordsAre, RecordIs
  <2> QED BY <1>1, <1>4, <2>1
<1>6. pts \in 0 .. m
  OBVIOUS
<1>7. /\ RecordsAre(records, m) /\ Len(records) = n /\ DOMAIN records = 1 .. n
      /\ \A x \in DOMAIN rec : records[x] = shorter[x]
  <2> DEFINE owner == rec[r].owner
  <2>1. owner \in 0 .. Len(shorter) + 1 /\ RecordsAre(shorter, m) /\ Len(shorter) = Len(rec) /\ DOMAIN rec = DOMAIN shorter
    BY <1>3, <1>4, <1>5
  <2> HIDE DEF owner
  <2>2. WithRecordIs(WithRecord(shorter, pts, owner), shorter, m)
    BY <1>6, <2>1, WithRecordType
  <2>3. records = WithRecord(shorter, pts, owner)
    BY DEF owner, WithRecord
  <2> HIDE DEF records
  <2> QED BY <2>1, <2>2, <2>3 DEF WithRecordIs
<1>8. records = SplitRecords(r, before, pts)
  BY DEF SplitRecords, shorter
<1> HIDE DEF records
<1>9. n \in DOMAIN records /\ r \in DOMAIN records /\ DOMAIN rec \subseteq DOMAIN records
  BY <1>1, <1>7
<1>10. records[r].splits \in Seq(1 .. n)
  BY <1>7, <1>9, SplitsAreSequences
<1>11. MoreRecords(records, r)
  <2>1. \A x \in DOMAIN rec : Len(rec[x].splits) \in Nat
    BY <1>1, SplitsAreSequences
  <2>2. before # None
    BY DEF None
  <2> QED BY <1>4, <1>7, <1>9, <2>1, <2>2 DEF MoreRecords
<1> QED BY <1>7, <1>8, <1>9, <1>10, <1>11

LEMMA SplitsKeep ==
  ASSUME IInv, call # <<>>, NEW r \in DOMAIN rec, PointsIntact(op'), Len(op) <= Len(op'),
         NEW before, before \in 1 .. Len(op'), NEW pts, pts \in 1 .. Len(op'),
         SplitsAre(SplitRecords(r, before, pts), r, Len(rec) + 1)
  PROVE  StepKeeps /\ rec'[r].pts # None
<1> DEFINE n == Len(rec) + 1
           records == SplitRecords(r, before, pts)
           m == Len(op')
<1>1. /\ StackIs(call, rec, Len(op)) /\ Len(rec) \in Nat /\ DOMAIN rec = 1 .. Len(rec) /\ m \in Nat
  BY TopIs DEF PointsIntact
<1>2. /\ RecordsAre(records, m) /\ MoreRecords(records, r) /\ Len(records) = n /\ n \in DOMAIN records
      /\ records[r].splits \in Seq(1 .. n)
  BY <1>1, SplitRecordsType
<1>3. SplitsAre(records, r, n)
  OBVIOUS
<1> HIDE DEF records, m
<1>4. n \notin DOMAIN rec /\ r \in DOMAIN records /\ r \in 1 .. n /\ n \in 1 .. n
  BY <1>1, <1>2 DEF MoreRecords
<1>0. RecordsAre(rec, Len(op)) /\ n = Len(records)
  BY <1>2, TopIs
<1> HIDE DEF n
<1>5. RecordsAre(rec', m) /\ MoreRecords(rec', r)
  <2>1. CASE rec' = records
    BY <1>2, <2>1
  <2>2. ASSUME NEW x \in DOMAIN records, NEW v, v \in Seq(1 .. n), rec' = SetField(records, x, "splits", v),
               x = n \/ (x = r /\ Len(records[r].splits) <= Len(v))
        PROVE  RecordsAre(rec', m) /\ MoreRecords(rec', r)
    <3>1. "splits" \in Fields /\ Fits("splits", v, Len(records), m)
      BY <1>0, <2>2 DEF Fields, Fits
    <3>2. RecordsAre(rec', m) /\ FieldIs(rec', records, x, "splits", v)
      BY <1>1, <1>2, <2>2, <3>1, FieldSet DEF m
    <3>3. /\ DOMAIN rec' = DOMAIN records
          /\ \A y \in DOMAIN records : /\ rec'[y].owner = records[y].owner /\ rec'[y].pts = records[y].pts
                                       /\ rec'[y].splits = IF y = x THEN v ELSE records[y].splits
      <4>1. "pts" \in Fields /\ "owner" \in Fields /\ "splits" \in Fields
        BY DEF Fields
      <4> QED BY <3>2, <4>1 DEF FieldIs
    <3>4. \A y \in DOMAIN rec : Len(rec[y].splits) <= Len(rec'[y].splits)
      <4> SUFFICES ASSUME NEW y \in DOMAIN rec PROVE Len(rec[y].splits) <= Len(rec'[y].splits)
        OBVIOUS
      <4>1. y # n /\ y \in DOMAIN records /\ Len(rec[y].splits) <= Len(records[y].splits)
        BY <1>2, <1>4 DEF MoreRecords
      <4>2. CASE y # x
        BY <3>3, <4>1, <4>2
      <4>3. CASE y = x
        <5>1. y = r /\ rec'[y].splits = v /\ Len(records[r].splits) <= Len(v)
          BY <2>2, <3>3, <4>1, <4>3
        <5>2. Len(rec[y].splits) \in Nat /\ Len(records[y].splits) \in Nat /\ Len(v) \in Nat
          <6>1. Len(rec[y].splits) \in Nat /\ Len(records[y].splits) \in Nat
            BY <1>0, <1>2, <4>1, SplitsAreSequences
          <6> QED BY <2>2, <6>1
        <5> QED BY <4>1, <5>1, <5>2
      <4> QED BY <4>2, <4>3
    <3> QED BY <1>2, <3>2, <3>3, <3>4 DEF MoreRecords
  <2>3. CASE rec' = SetField(records, n, "splits", <<r>>)
    <3> DEFINE S == 1 .. n
               v == <<r>>
    <3>1. r \in S
      BY <1>4
    <3> HIDE DEF S
    <3>2. v \in Seq(S)
      BY <3>1
    <3> HIDE DEF v
    <3>3. v \in Seq(1 .. n) /\ rec' = SetField(records, n, "splits", v)
      BY <2>3, <3>2 DEF S, v
    <3>4. n \in DOMAIN records /\ (n = n \/ (n = r /\ Len(records[r].splits) <= Len(v)))
      BY <1>2
    <3> QED BY <2>2, <3>3, <3>4
  <2>4. CASE rec' = SetField(records, r, "splits", Append(records[r].splits, n))
    <3> DEFINE S == 1 .. n
               s == records[r].splits
               v == Append(s, n)
    <3>1. n \in S /\ s \in Seq(S)
      BY <1>2, <1>4
    <3> HIDE DEF S, s
    <3>2. v \in Seq(S) /\ Len(s) <= Len(v)
      BY <3>1
    <3> HIDE DEF v
    <3>3. v \in Seq(1 .. n) /\ rec' = SetField(records, r, "splits", v) /\ Len(records[r].splits) <= Len(v)
      BY <2>4, <3>2 DEF S, s, v
    <3> QED BY <1>4, <2>2, <3>3
  <2> QED BY <1>3, <2>1, <2>3, <2>4 DEF SplitsAre
<1>6. Grows(rec', rec)
  BY <1>5 DEF MoreRecords, Grows
<1>7. OwnersStay(call, rec')
  BY <1>1, <1>5, OwnersAreThere DEF MoreRecords
<1> QED BY <1>5, <1>6, <1>7 DEF StepKeeps, MoreRecords, m

\* The ring that is scanned after a split.
SplitOffIs(points, p) ==
  \/ op' = Dropped(points, p) /\ rec' = SetField(rec, Top.record, "pts", op[p].prev)
  \/ /\ op' = WithSplitOff(points, Len(rec) + 1)
     /\ SplitsAre(SplitRecords(Top.record, op[p].prev, Len(points) + 1), Top.record, Len(rec) + 1)

LEMMA KeptOrDropped ==
  ASSUME IInv, do_split_operation
  PROVE  /\ SplitOffIs(ShortenedRing, Top.current) /\ UNCHANGED engine
         /\ \E at : /\ at \in {"scan", "fix", "fixed"}
                    /\ call' = [call EXCEPT ![Len(call)] = [@ EXCEPT !.current = op[Top.current].prev, !.at = at]]
<1> DEFINE p == op[Top.current].prev
           at(points) == IF points[points[p].next].next = points[p].prev THEN "fixed" ELSE "fix"
<1>1. PICK points \in {ShortenedRing} :
        /\ IF SplitOffIsKept THEN KeepSplitOff(points) ELSE DropSplitOff(points)
        /\ call' = [call EXCEPT ![Len(call)] = [@ EXCEPT !.current = p, !.at = at(points)]]
  BY DEF do_split_operation
<1>2. points = ShortenedRing /\ UNCHANGED engine
  BY <1>1 DEF do_split_operation
<1>3. at(points) \in {"scan", "fix", "fixed"}
  OBVIOUS
<1>4. SplitOffIs(points, Top.current)
  <2>1. CASE DropSplitOff(points)
    BY <2>1 DEF DropSplitOff, SplitOffIs, Dropped, SetField
  <2>2. CASE KeepSplitOff(points)
    <3> DEFINE records == SplitRecords(Top.record, op[Top.current].prev, Len(points) + 1)
    <3>1. /\ op' = WithSplitOff(points, Len(rec) + 1)
          /\ \/ rec' = records
             \/ rec' = [records EXCEPT ![Len(rec) + 1].splits = <<Top.record>>]
             \/ rec' = [records EXCEPT ![Top.record].splits = Append(@, Len(rec) + 1)]
      BY <2>2 DEF KeepSplitOff, SplitRecords, SetField
    <3> HIDE DEF records
    <3>2. SplitsAre(records, Top.record, Len(rec) + 1)
      BY <3>1 DEF SplitsAre, SetField
    <3> QED BY <3>1, <3>2 DEF SplitOffIs, records
  <2> QED BY <1>1, <2>1, <2>2
<1> HIDE DEF at
<1> QED BY <1>1, <1>2, <1>3, <1>4

LEMMA SplitOffKeeps ==
  ASSUME IInv, call # <<>>, Top.at = "fix", CrossesNextButOne(Top.current),
         SplitOffIs(ShortenedRing, Top.current)
  PROVE  /\ StepKeeps /\ rec'[Top.record].pts # None /\ op[Top.current].prev \in 1 .. Len(op')
<1> DEFINE p == Top.current
           s == op[Top.current].prev
           r == Top.record
           points == ShortenedRing
<1>1. /\ p \in DOMAIN op /\ PointsIntact(op) /\ DOMAIN op = 1 .. Len(op) /\ Len(op) \in Nat
      /\ r \in DOMAIN rec /\ Len(rec) \in Nat
  BY CleaningIs
<1>2. Skips(points, p)
  BY <1>1, ShortenedRingSkips
<1>3. CornersDiffer(p)
  BY <1>1, CrossingCornersDiffer
<1>4. s \in 1 .. Len(op) /\ s # None
  <2>1. s \in 1 .. Len(op)
    BY <1>1, LinksInDomain
  <2> HIDE DEF s
  <2>2. s # None
    BY <2>1 DEF None
  <2> QED BY <2>1, <2>2
<1>5. Len(points) \in Nat /\ Len(op) <= Len(points)
  BY <1>1, <1>2 DEF Skips
<1>6. SplitOffIs(points, p)
  OBVIOUS
<1> HIDE DEF p, s, r, points
<1>7. CASE op' = Dropped(points, p) /\ rec' = SetField(rec, r, "pts", s)
  <2>1. PointsIntact(op') /\ Len(op') = Len(points)
    BY <1>1, <1>2, <1>3, <1>7, DroppedKeepsRings
  <2>2. s \in 1 .. Len(op') /\ s \in 0 .. Len(op') /\ Len(op) <= Len(op')
    BY <1>1, <1>4, <1>5, <2>1
  <2>3. "pts" \in Fields \ {"owner", "splits"} /\ Fits("pts", s, Len(rec), Len(op'))
    BY <2>2 DEF Fields, Fits
  <2>4. StepKeeps /\ FieldIs(rec', rec, r, "pts", s)
    BY <1>1, <1>7, <2>1, <2>2, <2>3, FieldKeeps
  <2>5. rec'[r].pts = s
    <3>1. "pts" \in Fields
      BY DEF Fields
    <3> QED BY <1>1, <2>4, <3>1 DEF FieldIs
  <2> QED BY <1>4, <2>2, <2>4, <2>5 DEF r, s
<1>8. CASE /\ op' = WithSplitOff(points, Len(rec) + 1)
           /\ SplitsAre(SplitRecords(r, s, Len(points) + 1), r, Len(rec) + 1)
  <2>1. p = Top.current /\ CrossesNextButOne(p) /\ Len(rec) + 1 \in Nat
    BY <1>1 DEF p
  <2>2. PointsIntact(op') /\ Len(op') = Len(points) + 1
    BY <1>1, <1>2, <1>8, <2>1, SplitOffKeepsRings
  <2>3. s \in 1 .. Len(op') /\ Len(points) + 1 \in 1 .. Len(op') /\ Len(op) <= Len(op')
    BY <1>1, <1>4, <1>5, <2>2
  <2>4. StepKeeps /\ rec'[r].pts # None
    BY <1>1, <1>8, <2>2, <2>3, SplitsKeep
  <2> QED BY <2>3, <2>4 DEF r, s
<1> QED BY <1>6, <1>7, <1>8 DEF SplitOffIs, p, s, r

LEMMA DoSplitOperationKeepsInvariant ==
  ASSUME IInv, do_split_operation
  PROVE  IInv'
<1>1. Running("fix") /\ CrossesNextButOne(Top.current)
  BY DEF do_split_operation, Splitting
<1>2. call # <<>> /\ Top.at = "fix"
  BY <1>1, RunningIs
<1>3. SplitOffIs(ShortenedRing, Top.current) /\ UNCHANGED engine
  BY KeptOrDropped
<1>4. PICK at : /\ at \in {"scan", "fix", "fixed"}
                /\ call' = [call EXCEPT ![Len(call)] = [@ EXCEPT !.current = op[Top.current].prev, !.at = at]]
  BY KeptOrDropped
<1>5. StepKeeps /\ rec'[Top.record].pts # None /\ op[Top.current].prev \in 1 .. Len(op')
  BY <1>1, <1>2, <1>3, SplitOffKeeps
<1>6. Top.at \in {"scan", "fix"}
  BY <1>2
<1> QED BY <1>2, <1>3, <1>4, <1>5, <1>6, LookingOn

-----------------------------------------------------------------------------
(* The loops over the records, and the theorem.                            *)

Answering == {"records", "bounds", "resolve"}

\* The loops begin with an empty stack.
LEMMA NothingRuns ==
  ASSUME IInv, call = <<>>
  PROVE  /\ StackIs(<<>>, rec, Len(op)) /\ RecordsAre(rec, Len(op)) /\ PointsIntact(op)
         /\ Len(rec) \in Nat /\ DOMAIN rec = 1 .. Len(rec) /\ index \in Nat /\ index >= 1
<1>1. /\ StackIs(<<>>, rec, Len(op)) /\ RecordsAre(rec, Len(op)) /\ PointsIntact(op)
      /\ index \in Nat /\ index >= 1
  BY DEF IInv, PhaseIs
<1>2. Sequence(rec)
  BY <1>1 DEF RecordsAre
<1> QED BY <1>1, <1>2, SequenceType

LEMMA LoopStep ==
  ASSUME IInv, call = <<>>, pc \in Answering, UNCHANGED <<op, rec>>,
         StackIs(call', rec, Len(op)), index' \in Nat, index' >= 1,
         pc' \in Answering \cup {"done", "internal_error"}, call' # <<>> => pc' \in Answering,
         pc' \in {"bounds", "resolve"} => limit' \in Nat /\ limit' <= Len(rec)
  PROVE  IInv'
<1>1. op' = op /\ rec' = rec
  OBVIOUS
<1>2. PointsIntact(op') /\ RecordsAre(rec', Len(op')) /\ StackIs(call', rec', Len(op'))
  BY <1>1, NothingRuns
<1>3. pc' \notin Converting \cup Pairing \cup {"joins"}
  BY DEF Answering, Converting, Pairing
<1>4. SegmentsAre' /\ PairIs' /\ JoinsAre'
  BY <1>3 DEF SegmentsAre, PairIs, JoinsAre
<1> QED BY <1>1, <1>2, <1>4 DEF IInv, PhaseIs, Answering

\* One function, or one that waits for another, on the empty stack.
LEMMA FirstFrame ==
  ASSUME IInv, call = <<>>, NEW h \in Call, FrameIs(h, rec, Len(op))
  PROVE  StackIs(<<h>>, rec, Len(op))
<1>1. StackIs(<<>>, rec, Len(op))
  BY NothingRuns
<1>2. \A i \in DOMAIN <<>> : Above(<<>>[i], h)
  OBVIOUS
<1>3. <<>> # <<>> => Last(<<>>).at \in Waiting
  OBVIOUS
<1>4. StackIs(Append(<<>>, h), rec, Len(op))
  BY <1>1, <1>2, <1>3, FramePushed
<1>5. Append(<<>>, h) = <<h>>
  OBVIOUS
<1> QED BY <1>4, <1>5

LEMMA PairOf ==
  ASSUME NEW S, NEW g \in S, NEW h \in S
  PROVE  Append(<<g>>, h) = <<g, h>>
<1> DEFINE s == Append(<<g>>, h)
           t == <<g, h>>
<1>1. s \in Seq(S) /\ t \in Seq(S) /\ Len(s) = 2 /\ Len(t) = 2
  OBVIOUS
<1>2. s[1] = g /\ s[2] = h /\ t[1] = g /\ t[2] = h
  OBVIOUS
<1> HIDE DEF s, t
<1>3. \A i \in 1 .. 2 : s[i] = t[i]
  BY <1>2
<1>4. s = t
  BY <1>1, <1>3
<1> QED BY <1>4 DEF s, t

LEMMA TwoFrames ==
  ASSUME IInv, call = <<>>, NEW g \in Call, FrameIs(g, rec, Len(op)), g.at \in Waiting \ Resolving,
         NEW h \in Call, FrameIs(h, rec, Len(op))
  PROVE  StackIs(<<g, h>>, rec, Len(op))
<1> DEFINE s == <<g>>
<1>1. StackIs(s, rec, Len(op))
  BY FirstFrame
<1>2. Last(s) = g /\ \A i \in DOMAIN s : s[i] = g
  <2>1. Len(s) = 1 /\ DOMAIN s = {1} /\ s[1] = g
    OBVIOUS
  <2> HIDE DEF s
  <2> QED BY <2>1 DEF Last
<1>3. Append(s, h) = <<g, h>>
  BY PairOf
<1> HIDE DEF s
<1>4. Last(s).at \in Waiting
  BY <1>2
<1>5. \A i \in DOMAIN s : Above(s[i], h)
  BY <1>2 DEF Above
<1>6. StackIs(Append(s, h), rec, Len(op))
  BY <1>1, <1>4, <1>5, FramePushed
<1> QED BY <1>3, <1>6

LEMMA NextRecordKeepsInvariant ==
  ASSUME IInv, NextRecord
  PROVE  IInv'
<1> DEFINE place == Frame("place", index, None)
           bounds == Frame("bounds", index, None)
           emit == Frame("emit", index, None)
           clean == Frame("clean", index, None)
<1>1. /\ pc = "records" /\ pc' = pc /\ call = <<>> /\ index <= Len(rec) /\ index' = index + 1
      /\ UNCHANGED <<op, rec>>
      /\ \/ call' = <<>>
         \/ rec[index].pts # None /\ (call' = <<place, bounds>> \/ call' = <<emit, clean>>)
  BY DEF NextRecord
<1>2. index \in DOMAIN rec /\ index \in Nat /\ index >= 1 /\ StackIs(<<>>, rec, Len(op))
  BY <1>1, NothingRuns
<1>3. None \in Nat
  BY DEF None
<1>4. /\ "place" \in Steps /\ "bounds" \in Steps /\ "emit" \in Steps /\ "clean" \in Steps
  BY DEF Steps
<1>5. /\ place \in Call /\ bounds \in Call /\ emit \in Call /\ clean \in Call
      /\ place.at = "place" /\ bounds.at = "bounds" /\ emit.at = "emit" /\ clean.at = "clean"
      /\ place.record = index /\ bounds.record = index /\ emit.record = index /\ clean.record = index
  BY <1>2, <1>3, <1>4, FrameType
<1> HIDE DEF place, bounds, emit, clean
<1>6. StackIs(call', rec, Len(op))
  <2>1. CASE call' = <<>>
    BY <1>2, <2>1
  <2>2. CASE call' = <<place, bounds>>
    <3>1. FrameIs(place, rec, Len(op)) /\ FrameIs(bounds, rec, Len(op)) /\ place.at \in Waiting \ Resolving
      BY <1>2, <1>5 DEF FrameIs, Searching, Waiting, Resolving
    <3> QED BY <1>1, <1>5, <2>2, <3>1, TwoFrames
  <2>3. CASE call' = <<emit, clean>> /\ rec[index].pts # None
    <3>1. FrameIs(emit, rec, Len(op)) /\ FrameIs(clean, rec, Len(op)) /\ emit.at \in Waiting \ Resolving
      BY <1>2, <1>5, <2>3 DEF FrameIs, Searching, Waiting, Resolving
    <3> QED BY <1>1, <1>5, <2>3, <3>1, TwoFrames
  <2> QED BY <1>1, <2>1, <2>2, <2>3
<1>7. index' \in Nat /\ index' >= 1 /\ pc \in Answering /\ pc' = "records"
  BY <1>1, <1>2 DEF Answering
<1>8. pc' \in Answering
  BY <1>7 DEF Answering
<1> QED BY <1>1, <1>6, <1>7, <1>8, LoopStep

LEMMA RecordsDoneKeepsInvariant ==
  ASSUME IInv, RecordsDone
  PROVE  IInv'
<1>1. pc = "records" /\ pc' = "done" /\ call = <<>> /\ call' = <<>> /\ index' = index /\ UNCHANGED <<op, rec>>
  BY DEF RecordsDone
<1>2. StackIs(call', rec, Len(op)) /\ index' \in Nat /\ index' >= 1 /\ pc \in Answering
  BY <1>1, NothingRuns DEF Answering
<1> QED BY <1>1, <1>2, LoopStep

\* A function is called for a record, and the loop goes on to the next one.
LEMMA CallOrSkip ==
  ASSUME IInv, call = <<>>, pc \in {"bounds", "resolve"}, index <= limit, index' = index + 1,
         UNCHANGED <<op, rec, pc, limit>>, NEW at, at \in {"bounds", "resolve"},
         call' = <<>> \/ call' = <<Frame(at, index, None)>>
  PROVE  IInv'
<1> DEFINE h == Frame(at, index, None)
<1>1. limit \in Nat /\ limit <= Len(rec) /\ limit' = limit /\ pc' = pc /\ pc \in Answering
  BY DEF IInv, PhaseIs, Answering
<1>2. /\ index \in DOMAIN rec /\ index \in Nat /\ index' \in Nat /\ index' >= 1
      /\ StackIs(<<>>, rec, Len(op))
  BY <1>1, NothingRuns
<1>3. h \in Call /\ h.at = at /\ h.record = index
  <2>1. None \in Nat
    BY DEF None
  <2>2. at \in Steps
    BY DEF Steps
  <2> QED BY <1>2, <2>1, <2>2, FrameType
<1> HIDE DEF h
<1>4. FrameIs(h, rec, Len(op))
  BY <1>2, <1>3 DEF FrameIs, Searching
<1>5. StackIs(<<h>>, rec, Len(op))
  BY <1>3, <1>4, FirstFrame
<1>6. StackIs(call', rec, Len(op))
  BY <1>2, <1>5 DEF h
<1>7. limit' \in Nat /\ limit' <= Len(rec) /\ pc' \in Answering
  BY <1>1
<1> QED BY <1>1, <1>2, <1>6, <1>7, LoopStep

LEMMA NextBoundsKeepsInvariant ==
  ASSUME IInv, NextBounds
  PROVE  IInv'
<1>1. /\ call = <<>> /\ pc \in {"bounds", "resolve"} /\ index <= limit /\ index' = index + 1
      /\ UNCHANGED <<op, rec, pc, limit>> /\ (call' = <<>> \/ call' = <<Frame("bounds", index, None)>>)
  BY DEF NextBounds
<1> QED BY <1>1, CallOrSkip

LEMMA NextResolveKeepsInvariant ==
  ASSUME IInv, NextResolve
  PROVE  IInv'
<1>1. /\ call = <<>> /\ pc \in {"bounds", "resolve"} /\ index <= limit /\ index' = index + 1
      /\ UNCHANGED <<op, rec, pc, limit>> /\ (call' = <<>> \/ call' = <<Frame("resolve", index, None)>>)
  BY DEF NextResolve
<1> QED BY <1>1, CallOrSkip

LEMMA BoundsDoneKeepsInvariant ==
  ASSUME IInv, BoundsDone
  PROVE  IInv'
<1>1. /\ pc = "bounds" /\ pc' = "resolve" /\ call = <<>> /\ call' = <<>> /\ index' = 1 /\ limit' = Len(rec)
      /\ UNCHANGED <<op, rec>>
  BY DEF BoundsDone
<1>2. StackIs(call', rec, Len(op)) /\ Len(rec) \in Nat
  BY <1>1, NothingRuns
<1>3. index' \in Nat /\ index' >= 1 /\ limit' \in Nat /\ limit' <= Len(rec)
  <2>1. index' = 1 /\ limit' = Len(rec) /\ Len(rec) \in Nat
    BY <1>1, <1>2
  <2> QED BY ONLY <2>1
<1>4. pc \in Answering /\ pc' \in Answering
  BY <1>1 DEF Answering
<1> QED BY <1>1, <1>2, <1>3, <1>4, LoopStep

LEMMA DescribeTopologyKeepsInvariant ==
  ASSUME IInv, DescribeTopology
  PROVE  IInv'
<1>1. /\ pc = "resolve" /\ pc' \in {"done", "internal_error"} /\ call = <<>> /\ call' = <<>>
      /\ index' = index /\ UNCHANGED <<op, rec>>
  BY DEF DescribeTopology
<1>2. StackIs(call', rec, Len(op)) /\ index' \in Nat /\ index' >= 1 /\ pc \in Answering
  BY <1>1, NothingRuns DEF Answering
<1> QED BY <1>1, <1>2, LoopStep

\* Where the program has no meaning any more nothing runs, and nothing is relied on.
LEMMA MeaningLost ==
  ASSUME IInv, UNCHANGED <<op, rec, index>>, call' = <<>>, pc' \in {"undefined", "overflow"}
  PROVE  IInv'
<1>1. /\ PointsIntact(op) /\ RecordsAre(rec, Len(op)) /\ index \in Nat /\ index >= 1
      /\ op' = op /\ rec' = rec /\ index' = index
  BY DEF IInv, PhaseIs
<1>2. PointsIntact(op') /\ RecordsAre(rec', Len(op')) /\ index' \in Nat /\ index' >= 1
  BY <1>1
<1>3. StackIs(call', rec', Len(op'))
  BY DEF StackIs
<1>4. pc' \notin Converting \cup Pairing \cup {"joins"}
  BY DEF Converting, Pairing
<1>5. SegmentsAre' /\ PairIs' /\ JoinsAre'
  BY <1>4 DEF SegmentsAre, PairIs, JoinsAre
<1> QED BY <1>2, <1>3, <1>5 DEF IInv, PhaseIs

LEMMA ReadFreedRecordsKeepsInvariant ==
  ASSUME IInv, ReadFreedRecords
  PROVE  IInv'
BY MeaningLost DEF ReadFreedRecords

LEMMA StackOverflowKeepsInvariant ==
  ASSUME IInv, StackOverflow
  PROVE  IInv'
BY MeaningLost DEF StackOverflow

LEMMA UnchangedKeepsInvariant ==
  ASSUME IInv, UNCHANGED vars
  PROVE  IInv'
BY DEF vars, IInv, PhaseIs, SegmentsAre, PairIs, JoinsAre, Segment

LEMMA NextKeepsInvariant ==
  ASSUME IInv, Next
  PROVE  IInv'
<1>1. CASE ConvertSegments
  BY <1>1, UpdateSegmentKeepsInvariant, SortSegmentsKeepsInvariant, SkipPairKeepsInvariant,
     TakePairKeepsInvariant, AdvanceFirstKeepsInvariant, AdvanceSecondKeepsInvariant,
     JoinPairKeepsInvariant DEF ConvertSegments
<1>2. CASE ProcessJoins
  BY <1>2, ProcessJoinKeepsInvariant, JoinsProcessedKeepsInvariant DEF ProcessJoins
<1>3. CASE CleanRing
  BY <1>3, CleanCollinearKeepsInvariant, RemovePointKeepsInvariant, CheckRingKeepsInvariant,
     KeepPointKeepsInvariant, NoCrossingKeepsInvariant, RelocateDuplicateKeepsInvariant,
     GiveUpRingKeepsInvariant, DoSplitOperationKeepsInvariant, RingFixedKeepsInvariant DEF CleanRing
<1>4. CASE FindOwner
  BY <1>4, CheckBoundsKeepsInvariant, SetBoundsKeepsInvariant, LookAtSplitKeepsInvariant,
     StackOverflowKeepsInvariant, EmptySplitSearchedKeepsInvariant, TrySplitKeepsInvariant, SplitSearchedKeepsInvariant,
     SplitBoundedKeepsInvariant, ResolveKeepsInvariant, OwnerSearchedKeepsInvariant,
     TryOwnerKeepsInvariant, OwnerBoundedKeepsInvariant DEF FindOwner
<1>5. CASE BuildAnswer
  BY <1>5, NextRecordKeepsInvariant, RecordsDoneKeepsInvariant, EmitPathKeepsInvariant,
     PlaceRecordKeepsInvariant, CheckOwnersKeepsInvariant, PlaceOwnerKeepsInvariant,
     AddChildKeepsInvariant, NextBoundsKeepsInvariant, BoundsDoneKeepsInvariant,
     NextResolveKeepsInvariant, ReadFreedRecordsKeepsInvariant, DescribeTopologyKeepsInvariant
     DEF BuildAnswer
<1>6. CASE Terminated
  BY <1>6, UnchangedKeepsInvariant DEF Terminated
<1> QED BY <1>1, <1>2, <1>3, <1>4, <1>5, <1>6 DEF Next

\* Nothing the engine does after its sweep reads a point, a record or a frame
\* that is not there: the rings are closed, the fields of the records name
\* points and records, a function that waits for another finds what it had
\* read, and only one owner is looked for at a time.
THEOREM StepsFindWhatTheyRead == Spec => []IInv
<1>1. Init => IInv
  BY InitInvariant
<1>2. IInv /\ [Next]_vars => IInv'
  BY NextKeepsInvariant, UnchangedKeepsInvariant
<1> QED BY <1>1, <1>2, PTL DEF Spec

\* The links of the points are those of closed rings in every state: the
\* exchange of links of a join, the duplicates, the points that are disposed of
\* and the splits of a ring leave no loop over a ring without a way back.
THEOREM RingsStayIntact == Spec => []RingsIntact
<1>1. IInv => RingsIntact
  BY DEF IInv, PointsIntact, RingsIntact
<1> QED BY <1>1, StepsFindWhatTheyRead, PTL

-----------------------------------------------------------------------------
(* What Owners finds.                                                      *)

WithOwners(records) ==
  [owners \in SUBSET (0 .. Len(records)) |-> owners \cup {records[o].owner : o \in owners \ {None}}]

\* The owners of a record, with None if they come to an end.
Gathered(records, r) == Iterated(WithOwners(records), {records[r].owner}, Len(records))

\* No owner leads out of the set.
HoldsOwners(records, T) == \A o \in T \ {None} : records[o].owner \in T

LEMMA OwnerType ==
  ASSUME NEW m, NEW records, RecordsAre(records, m)
  PROVE  /\ Len(records) \in Nat /\ DOMAIN records = 1 .. Len(records)
         /\ \A r \in DOMAIN records : records[r].owner \in 0 .. Len(records)
<1>1. Sequence(records) /\ \A r \in DOMAIN records : RecordIs(records[r], Len(records), m)
  BY DEF RecordsAre
<1> QED BY <1>1, SequenceType DEF RecordIs

LEMMA StepOfOwners ==
  ASSUME NEW m, NEW records, RecordsAre(records, m), NEW S \in SUBSET (0 .. Len(records))
  PROVE  /\ WithOwners(records)[S] = S \cup {records[o].owner : o \in S \ {None}}
         /\ WithOwners(records)[S] \in SUBSET (0 .. Len(records))
<1> DEFINE N == 0 .. Len(records)
<1>1. \A o \in N \ {None} : records[o].owner \in N
  BY OwnerType DEF None
<1>2. WithOwners(records)[S] = S \cup {records[o].owner : o \in S \ {None}}
  BY DEF WithOwners
<1> HIDE DEF N
<1>3. S \subseteq N
  BY DEF N
<1>4. S \cup {records[o].owner : o \in S \ {None}} \subseteq N
  BY <1>1, <1>3
<1> QED BY <1>2, <1>4 DEF N

LEMMA GatheredLeast ==
  ASSUME NEW m, NEW records, RecordsAre(records, m), NEW r \in DOMAIN records,
         NEW T, records[r].owner \in T, HoldsOwners(records, T)
  PROVE  Gathered(records, r) \subseteq T
<1> DEFINE N == 0 .. Len(records)
           step == WithOwners(records)
           S == SUBSET (T \cap N)
<1>1. records[r].owner \in N /\ Len(records) \in Nat
  BY OwnerType
<1>2. {records[r].owner} \in S
  BY <1>1
<1>3. StaysIn(step, S)
  <2> SUFFICES ASSUME NEW s \in S PROVE step[s] \in S
    BY DEF StaysIn
  <2>1. s \in SUBSET N /\ s \subseteq T
    OBVIOUS
  <2>2. step[s] = s \cup {records[o].owner : o \in s \ {None}} /\ step[s] \in SUBSET N
    BY <2>1, StepOfOwners
  <2>3. \A o \in s \ {None} : records[o].owner \in T
    BY <2>1 DEF HoldsOwners
  <2> HIDE DEF N, step
  <2> QED BY <2>1, <2>2, <2>3
<1> HIDE DEF S, step
<1>4. Iterated(step, {records[r].owner}, Len(records)) \in S
  BY <1>1, <1>2, <1>3, IteratedIn
<1>5. Gathered(records, r) \in S
  BY <1>4 DEF Gathered, step
<1> QED BY <1>5 DEF S

\* W is a set that grows with each step.
Gathers(W, step, p, n) ==
  /\ W[0] = {p}
  /\ \A k \in Nat : W[k] \subseteq 0 .. n /\ W[k] \subseteq W[k + 1] /\ W[k + 1] = step[W[k]]

\* A set that grows as long as it can is complete after as many steps as it has members to gain.
LEMMA GrowthEnds ==
  ASSUME NEW n \in Nat, NEW step, NEW W, NEW p, Gathers(W, step, p, n)
  PROVE  W[n + 1] = W[n]
<1> DEFINE N == 0 .. n
           P(k) == W[k + 1] = W[k] \/ Cardinality(W[k]) >= k + 1
           T == {k \in Nat : ~ P(k)}
<1>1. IsFiniteSet(N) /\ Cardinality(N) = n + 1
  <2>1. 0 \in Int /\ n \in Int /\ ~ (0 > n)
    OBVIOUS
  <2>2. IsFiniteSet(N) /\ Cardinality(N) = IF 0 > n THEN 0 ELSE n - 0 + 1
    BY <2>1, FS_Interval
  <2>3. n - 0 + 1 = n + 1
    OBVIOUS
  <2> HIDE DEF N
  <2> QED BY <2>1, <2>2, <2>3
<1>2. \A k \in Nat : /\ W[k] \subseteq N /\ W[k] \subseteq W[k + 1] /\ W[k + 1] = step[W[k]]
                     /\ k + 1 \in Nat
  BY DEF Gathers
<1> HIDE DEF N
<1>3. \A k \in Nat : IsFiniteSet(W[k]) /\ Cardinality(W[k]) \in Nat
  BY <1>1, <1>2, FS_Subset, FS_CardinalityType
<1>4. \A k \in Nat : P(k)
  <2> SUFFICES ASSUME T # {} PROVE FALSE
    OBVIOUS
  <2>1. PICK k \in T : \A j \in T : k <= j
    <3>1. T \subseteq Nat
      OBVIOUS
    <3> HIDE DEF T
    <3> QED BY <3>1, Least
  <2>2. k \in Nat /\ W[k + 1] # W[k] /\ ~ (Cardinality(W[k]) >= k + 1)
    OBVIOUS
  <2>3. k # 0
    <3> SUFFICES ASSUME k = 0 PROVE FALSE
      OBVIOUS
    <3>1. Cardinality(W[0]) = 1
      BY FS_Singleton DEF Gathers
    <3>2. W[k] = W[0] /\ k + 1 = 1
      OBVIOUS
    <3>3. ~ (Cardinality(W[0]) >= 1)
      BY <2>2, <3>2
    <3> QED BY <3>1, <3>3
  <2> DEFINE j == k - 1
  <2>4. j \in Nat /\ j + 1 = k /\ j < k
    BY <2>2, <2>3
  <2>5. P(j)
    <3>1. j \notin T
      BY <2>1, <2>2, <2>4
    <3> QED BY <2>4, <3>1
  <2> HIDE DEF j
  <2>6. CASE W[j + 1] = W[j]
    <3>1. W[k + 1] = step[W[k]] /\ W[j + 1] = step[W[j]]
      BY <1>2, <2>2, <2>4
    <3> QED BY <2>2, <2>4, <2>6, <3>1
  <2>7. CASE W[j + 1] # W[j] /\ Cardinality(W[j]) >= j + 1
    <3>1. W[j] \subseteq W[k] /\ W[k] # W[j] /\ IsFiniteSet(W[k])
      BY <1>2, <1>3, <2>2, <2>4, <2>7
    <3>2. W[j] \in SUBSET W[k]
      BY <3>1
    <3>3. Cardinality(W[j]) <= Cardinality(W[k]) /\ Cardinality(W[k]) # Cardinality(W[j])
      BY <3>1, <3>2, FS_Subset
    <3>4. Cardinality(W[j]) \in Nat /\ Cardinality(W[k]) \in Nat
      BY <1>3, <2>2, <2>4
    <3>5. ~ (Cardinality(W[k]) >= k + 1) /\ Cardinality(W[j]) >= j + 1
      BY <2>2, <2>7
    <3> QED BY ONLY <2>2, <2>4, <3>3, <3>4, <3>5
  <2> QED BY <2>5, <2>6, <2>7
<1>5. CASE W[n + 1] = W[n]
  BY <1>5
<1>6. CASE Cardinality(W[n]) >= n + 1
  <2>1. W[n] \subseteq N /\ W[n + 1] \subseteq N /\ W[n] \subseteq W[n + 1]
    BY <1>2
  <2>2. W[n] = N
    <3>1. Cardinality(W[n]) \in Nat /\ ~ (Cardinality(W[n]) < n + 1)
      BY <1>3, <1>6
    <3>2. W[n] \in SUBSET N
      BY <2>1
    <3>3. Cardinality(W[n]) <= Cardinality(N) /\ (Cardinality(N) = Cardinality(W[n]) => N = W[n])
      BY <1>1, <3>2, FS_Subset
    <3>4. Cardinality(N) = n + 1
      BY <1>1
    <3>5. Cardinality(N) = Cardinality(W[n])
      BY <3>1, <3>3, <3>4
    <3> QED BY <3>3, <3>5
  <2> QED BY <2>1, <2>2
<1> QED BY <1>4, <1>5, <1>6

LEMMA GatheredType ==
  ASSUME NEW m, NEW records, RecordsAre(records, m), NEW r \in DOMAIN records
  PROVE  /\ Gathered(records, r) \subseteq 0 .. Len(records) /\ records[r].owner \in Gathered(records, r)
         /\ HoldsOwners(records, Gathered(records, r))
<1> DEFINE n == Len(records)
           N == 0 .. n
           step == WithOwners(records)
           p == records[r].owner
<1>1. p \in N /\ n \in Nat
  BY OwnerType
<1>2. \A s \in SUBSET N : step[s] = s \cup {records[o].owner : o \in s \ {None}} /\ step[s] \in SUBSET N
  BY StepOfOwners
<1>3. Gathered(records, r) = Iterated(step, {p}, n)
  BY DEF Gathered
<1> HIDE DEF step, p, n
<1>4. {p} \in SUBSET N /\ StaysIn(step, SUBSET N)
  <2> HIDE DEF N
  <2> QED BY <1>1, <1>2 DEF StaysIn
<1>5. PICK W \in [Nat -> SUBSET N] : WalkOf(W, step, {p}) /\ IteratedIs(W, step, {p})
  <2> DEFINE S == SUBSET N
  <2>1. {p} \in S /\ StaysIn(step, S)
    BY <1>4
  <2> HIDE DEF S
  <2>2. \E W \in [Nat -> S] : WalkOf(W, step, {p}) /\ IteratedIs(W, step, {p})
    BY <2>1, IteratedWalks
  <2> QED BY <2>2 DEF S
<1>6. W[0] = {p} /\ Gathered(records, r) = W[n]
  BY <1>1, <1>3, <1>5 DEF WalkOf, IteratedIs
<1>7. \A k \in Nat : /\ W[k] \in SUBSET N /\ W[k + 1] = step[W[k]]
                     /\ W[k + 1] = W[k] \cup {records[o].owner : o \in W[k] \ {None}}
  BY <1>2, <1>5 DEF WalkOf
<1>8. \A k \in Nat : W[k] \subseteq N /\ W[k] \subseteq W[k + 1] /\ W[k + 1] = step[W[k]]
  <2> HIDE DEF N
  <2> QED BY <1>7
<1>9. W[n + 1] = W[n]
  <2>1. \A k \in Nat : W[k] \subseteq 0 .. n /\ W[k] \subseteq W[k + 1] /\ W[k + 1] = step[W[k]]
    BY <1>8
  <2>2. n \in Nat /\ Gathers(W, step, p, n)
    BY <1>1, <1>6, <2>1 DEF Gathers
  <2> QED BY ONLY <2>2, GrowthEnds
<1>10. HoldsOwners(records, W[n])
  BY <1>1, <1>7, <1>9 DEF HoldsOwners
<1>11. p \in W[n]
  <2> DEFINE T == {k \in Nat : p \notin W[k]}
  <2> SUFFICES ASSUME T # {} PROVE FALSE
    BY <1>1
  <2>1. PICK k \in T : \A j \in T : k <= j
    <3>1. T \subseteq Nat
      OBVIOUS
    <3> HIDE DEF T
    <3> QED BY <3>1, Least
  <2>2. k \in Nat /\ p \notin W[k]
    OBVIOUS
  <2>3. k # 0
    BY <1>6, <2>2
  <2> DEFINE j == k - 1
  <2>4. j \in Nat /\ j + 1 = k /\ ~ (k <= j)
    BY <2>2, <2>3
  <2>5. p \in W[j]
    BY <2>1, <2>4
  <2> HIDE DEF j
  <2> QED BY <1>8, <2>2, <2>4, <2>5
<1> QED BY <1>1, <1>6, <1>7, <1>10, <1>11 DEF n, p

\* What is used of Owners: it holds the owner, and the owners of those it holds.
LEMMA OwnersOf ==
  ASSUME NEW m, NEW records, RecordsAre(records, m), NEW r \in DOMAIN records
  PROVE  /\ Owners(records, r) \subseteq DOMAIN records
         /\ records[r].owner # None => records[r].owner \in Owners(records, r)
         /\ \A o \in Owners(records, r) : records[o].owner # None => records[o].owner \in Owners(records, r)
<1>1. Owners(records, r) = Gathered(records, r) \ {None}
  BY DEF Owners, Gathered, WithOwners
<1>2. /\ Gathered(records, r) \subseteq 0 .. Len(records) /\ records[r].owner \in Gathered(records, r)
      /\ HoldsOwners(records, Gathered(records, r))
  BY GatheredType
<1>3. \A k \in (0 .. Len(records)) \ {None} : k \in DOMAIN records
  BY OwnerType DEF None
<1> QED BY <1>1, <1>2, <1>3 DEF HoldsOwners

LEMMA OwnersLeast ==
  ASSUME NEW m, NEW records, RecordsAre(records, m), NEW r \in DOMAIN records, NEW T,
         records[r].owner # None => records[r].owner \in T,
         \A o \in T : o \in DOMAIN records /\ (records[o].owner # None => records[o].owner \in T)
  PROVE  Owners(records, r) \subseteq T
<1> DEFINE U == T \cup {None}
<1>1. Owners(records, r) = Gathered(records, r) \ {None}
  BY DEF Owners, Gathered, WithOwners
<1>2. records[r].owner \in U /\ HoldsOwners(records, U)
  BY DEF HoldsOwners
<1> HIDE DEF U
<1>3. Gathered(records, r) \subseteq U
  BY <1>2, GatheredLeast
<1> QED BY <1>1, <1>3 DEF U

\* The owners of a record are its owner and that one's owners.
LEMMA OwnersUnfold ==
  ASSUME NEW m, NEW records, RecordsAre(records, m), NEW r \in DOMAIN records, NEW x \in Owners(records, r)
  PROVE  /\ records[r].owner # None /\ records[r].owner \in DOMAIN records
         /\ x = records[r].owner \/ x \in Owners(records, records[r].owner)
<1> DEFINE p == records[r].owner
<1>1. p # None
  <2> SUFFICES ASSUME p = None PROVE FALSE
    OBVIOUS
  <2> DEFINE T == {}
  <2>1. /\ records[r].owner # None => records[r].owner \in T
        /\ \A o \in T : o \in DOMAIN records /\ (records[o].owner # None => records[o].owner \in T)
    OBVIOUS
  <2>2. T = {}
    OBVIOUS
  <2> HIDE DEF T, p
  <2>3. Owners(records, r) \subseteq T
    BY ONLY <2>1, OwnersLeast, RecordsAre(records, m), r \in DOMAIN records
  <2> QED BY <2>2, <2>3
<1>2. p \in DOMAIN records
  BY <1>1, OwnersOf
<1> DEFINE T == {p} \cup Owners(records, p)
<1>3. \A o \in T : o \in DOMAIN records /\ (records[o].owner # None => records[o].owner \in T)
  <2>1. /\ Owners(records, p) \subseteq DOMAIN records
        /\ records[p].owner # None => records[p].owner \in Owners(records, p)
        /\ \A o \in Owners(records, p) : records[o].owner # None => records[o].owner \in Owners(records, p)
    BY <1>2, OwnersOf
  <2> HIDE DEF p
  <2> QED BY <1>2, <2>1
<1>4. p \in T
  OBVIOUS
<1> HIDE DEF T
<1>5. Owners(records, r) \subseteq T
  BY <1>3, <1>4, OwnersLeast
<1>6. x \in T
  BY <1>5
<1> QED BY <1>1, <1>2, <1>6 DEF T

-----------------------------------------------------------------------------
(* Owners that come to an end.                                             *)

\* Of any records, one has an owner that is not one of them.
Rooted(records) == \A T \in SUBSET DOMAIN records : T # {} => \E r \in T : records[r].owner \notin T

\* The owners of the one are those of the other.
SameOwners(changed, records) ==
  DOMAIN changed = DOMAIN records /\ \A x \in DOMAIN records : changed[x].owner = records[x].owner

LEMMA SameOwnersKeepRooted ==
  ASSUME NEW records, NEW changed, Rooted(records), SameOwners(changed, records)
  PROVE  Rooted(changed)
<1> SUFFICES ASSUME NEW T \in SUBSET DOMAIN changed, T # {} PROVE \E r \in T : changed[r].owner \notin T
  BY DEF Rooted
<1>1. T \in SUBSET DOMAIN records
  BY DEF SameOwners
<1>2. PICK r \in T : records[r].owner \notin T
  BY <1>1 DEF Rooted
<1> QED BY <1>1, <1>2 DEF SameOwners

LEMMA RootedIsForest ==
  ASSUME NEW m, NEW records, RecordsAre(records, m), Rooted(records), NEW r \in DOMAIN records
  PROVE  r \notin Owners(records, r)
<1> SUFFICES ASSUME r \in Owners(records, r) PROVE FALSE
  OBVIOUS
<1> DEFINE T == {x \in Owners(records, r) : r \in Owners(records, x)}
<1>1. /\ Owners(records, r) \subseteq DOMAIN records
      /\ \A o \in Owners(records, r) : records[o].owner # None => records[o].owner \in Owners(records, r)
  BY OwnersOf
<1>2. T \in SUBSET DOMAIN records /\ r \in T
  BY <1>1
<1>3. PICK x \in T : records[x].owner \notin T
  <2> HIDE DEF T
  <2> QED BY <1>2 DEF Rooted
<1>4. x \in DOMAIN records /\ x \in Owners(records, r) /\ r \in Owners(records, x)
  BY <1>1
<1> DEFINE p == records[x].owner
<1>5. p # None /\ (r = p \/ r \in Owners(records, p))
  BY <1>4, OwnersUnfold
<1>6. p \in Owners(records, r)
  BY <1>1, <1>4, <1>5
<1>7. p \in T
  <2>1. CASE r = p
    BY <1>2, <2>1
  <2>2. CASE r \in Owners(records, p)
    BY <1>6, <2>2
  <2> QED BY <1>5, <2>1, <2>2
<1> QED BY <1>3, <1>7

LEMMA ForestIsRooted ==
  ASSUME NEW m, NEW records, RecordsAre(records, m),
         \A r \in DOMAIN records : r \notin Owners(records, r)
  PROVE  Rooted(records)
<1> SUFFICES ASSUME NEW T \in SUBSET DOMAIN records, T # {},
                    \A r \in T : records[r].owner \in T
             PROVE  FALSE
  BY DEF Rooted
<1> DEFINE size(r) == Cardinality(Owners(records, r))
           Sizes == {size(r) : r \in T}
<1>1. DOMAIN records = 1 .. Len(records) /\ Len(records) \in Nat
  BY OwnerType
<1>2. ASSUME NEW r \in DOMAIN records PROVE IsFiniteSet(Owners(records, r)) /\ size(r) \in Nat
  <2> DEFINE D == 1 .. Len(records)
  <2>1. IsFiniteSet(D)
    BY <1>1, FS_Interval
  <2>2. Owners(records, r) \in SUBSET D
    BY <1>1, OwnersOf
  <2> HIDE DEF D
  <2>3. IsFiniteSet(Owners(records, r))
    BY <2>1, <2>2, FS_Subset
  <2> QED BY <2>3, FS_CardinalityType
<1>3. PICK least \in Sizes : \A k \in Sizes : least <= k
  <2>1. Sizes \subseteq Nat /\ Sizes # {}
    <3> HIDE DEF size
    <3> QED BY <1>2
  <2> HIDE DEF Sizes
  <2> QED BY <2>1, Least
<1>4. PICK r \in T : least = size(r)
  OBVIOUS
<1> DEFINE o == records[r].owner
<1>5. o \in T /\ r \in DOMAIN records /\ o \in DOMAIN records
  OBVIOUS
<1>6. o # None
  BY <1>1, <1>5 DEF None
<1>7. o \in Owners(records, r) /\ o \notin Owners(records, o)
  BY <1>5, <1>6, OwnersOf
<1>8. Owners(records, o) \in SUBSET Owners(records, r)
  <2> DEFINE U == Owners(records, r)
  <2>1. /\ U \subseteq DOMAIN records
        /\ \A x \in U : records[x].owner # None => records[x].owner \in U
    BY <1>5, OwnersOf
  <2>2. o \in U
    BY <1>7
  <2> HIDE DEF U, o
  <2>3. /\ records[o].owner # None => records[o].owner \in U
        /\ \A x \in U : x \in DOMAIN records /\ (records[x].owner # None => records[x].owner \in U)
    BY <2>1, <2>2
  <2>4. Owners(records, o) \subseteq U
    BY <1>5, <2>3, OwnersLeast
  <2> QED BY <2>4 DEF U
<1>9. size(o) <= size(r) /\ size(o) # size(r)
  <2>1. /\ Cardinality(Owners(records, o)) <= Cardinality(Owners(records, r))
        /\ Cardinality(Owners(records, r)) = Cardinality(Owners(records, o))
             => Owners(records, r) = Owners(records, o)
    <3> HIDE DEF o
    <3> QED BY <1>2, <1>5, <1>8, FS_Subset
  <2> QED BY <1>7, <2>1
<1>10. size(o) \in Sizes
  BY <1>5
<1>11. size(r) <= size(o) /\ size(o) \in Nat /\ size(r) \in Nat
  <2> HIDE DEF size, o
  <2> QED BY <1>2, <1>3, <1>4, <1>5, <1>10
<1> HIDE DEF size
<1> QED BY <1>9, <1>11

LEMMA LeafKeepsRooted ==
  ASSUME NEW m, NEW records, RecordsAre(records, m), Rooted(records), NEW changed, LeafAdded(changed, records)
  PROVE  Rooted(changed)
<1> DEFINE n == Len(records) + 1
           D == DOMAIN records
<1>1. /\ Len(records) \in Nat /\ D = 1 .. Len(records)
      /\ \A r \in D : records[r].owner \in 0 .. Len(records)
  BY OwnerType
<1>2. 0 .. Len(records) = D \cup {None}
  BY <1>1 DEF None
<1>3. DOMAIN changed = D \cup {n} /\ n \notin D /\ None \notin D /\ n # None
  BY <1>1 DEF LeafAdded, None
<1>4. /\ \A x \in D : changed[x].owner = records[x].owner /\ changed[x].owner \in D \cup {None}
      /\ changed[n].owner \in D \cup {None}
  BY <1>1, <1>2 DEF LeafAdded, OwnersAre
<1> HIDE DEF n, D
<1> SUFFICES ASSUME NEW T \in SUBSET DOMAIN changed, T # {}, \A r \in T : changed[r].owner \in T
             PROVE  FALSE
  BY DEF Rooted
<1> DEFINE U == T \cap D
<1>5. U # {}
  <2>1. PICK r \in T : TRUE
    OBVIOUS
  <2>2. changed[r].owner \in T /\ changed[r].owner \in D \cup {None}
    BY <1>3, <1>4, <2>1
  <2> QED BY <1>3, <2>2
<1>6. PICK r \in U : records[r].owner \notin U
  BY <1>5 DEF Rooted, D
<1> QED BY <1>3, <1>4, <1>6

\* A record whose owner becomes one of its owners, or none.
LEMMA ShortcutKeepsRooted ==
  ASSUME NEW m, NEW records, RecordsAre(records, m), Rooted(records), NEW x \in DOMAIN records,
         NEW y \in Owners(records, x) \cup {None}, NEW changed, DOMAIN changed = DOMAIN records,
         \A r \in DOMAIN records : changed[r].owner = IF r = x THEN y ELSE records[r].owner
  PROVE  Rooted(changed)
<1> DEFINE D == DOMAIN records
<1>0. None \notin D
  BY OwnerType DEF None
<1> SUFFICES ASSUME NEW T \in SUBSET D, T # {}, \A r \in T : changed[r].owner \in T
             PROVE  FALSE
  BY DEF Rooted
<1> DEFINE U == {t \in D : t \in T \/ Owners(records, t) \cap T # {}}
<1>1. PICK t \in U : records[t].owner \notin U
  <2>1. U \in SUBSET D /\ U # {}
    OBVIOUS
  <2> HIDE DEF U
  <2> QED BY <2>1 DEF Rooted
<1> DEFINE p == records[t].owner
<1>2. t \in D /\ (t \in T \/ Owners(records, t) \cap T # {})
  OBVIOUS
<1>3. ASSUME NEW z \in Owners(records, t), z \in T PROVE FALSE
  <2>1. p \in D /\ (z = p \/ z \in Owners(records, p))
    BY <1>2, OwnersUnfold
  <2>2. p \in U
    BY <1>3, <2>1
  <2> QED BY <1>1, <2>2
<1>4. t \in T
  BY <1>2, <1>3
<1>5. changed[t].owner \in T
  BY <1>4
<1>6. CASE t # x
  <2>1. records[t].owner \in T
    BY <1>2, <1>5, <1>6
  <2> QED BY <1>1, <2>1
<1>7. CASE t = x
  <2>1. y \in T /\ y \in Owners(records, t)
    BY <1>0, <1>2, <1>5, <1>7
  <2> QED BY <1>3, <2>1
<1> QED BY <1>6, <1>7

\* A record whose owner becomes one that does not belong to it.
LEMMA AdoptionKeepsRooted ==
  ASSUME NEW m, NEW records, RecordsAre(records, m), Rooted(records), NEW r \in DOMAIN records,
         NEW s \in DOMAIN records, r # s, r \notin Owners(records, s),
         NEW changed, DOMAIN changed = DOMAIN records,
         \A x \in DOMAIN records : changed[x].owner = IF x = r THEN s ELSE records[x].owner
  PROVE  Rooted(changed)
<1> DEFINE D == DOMAIN records
<1>0. None \notin D
  BY OwnerType DEF None
<1> SUFFICES ASSUME NEW T \in SUBSET D, T # {}, \A x \in T : changed[x].owner \in T
             PROVE  FALSE
  BY DEF Rooted
<1>1. /\ records[s].owner # None => records[s].owner \in Owners(records, s)
      /\ \A o \in Owners(records, s) : records[o].owner # None => records[o].owner \in Owners(records, s)
  BY OwnersOf
<1>2. CASE r \notin T
  <2>1. PICK x \in T : records[x].owner \notin T
    BY DEF Rooted
  <2> QED BY <1>2, <2>1
<1>3. CASE r \in T
  <2> DEFINE U == {t \in T : t = s \/ t \in Owners(records, s)}
  <2>1. s \in T /\ U \in SUBSET D /\ U # {}
    BY <1>3
  <2>2. PICK u \in U : records[u].owner \notin U
    <3> HIDE DEF U
    <3> QED BY <2>1 DEF Rooted
  <2>3. u \in T /\ u # r /\ (u = s \/ u \in Owners(records, s))
    OBVIOUS
  <2>4. records[u].owner \in T /\ records[u].owner # None
    BY <1>0, <2>3
  <2>5. records[u].owner \in Owners(records, s)
    BY <1>1, <2>3, <2>4
  <2> QED BY <2>2, <2>4, <2>5
<1> QED BY <1>2, <1>3

\* A record whose owner becomes one that may belong to it: that one is given the
\* owner of the record first.
LEMMA ExchangeKeepsRooted ==
  ASSUME NEW m \in Nat, NEW records, RecordsAre(records, m), Rooted(records), NEW r \in DOMAIN records,
         NEW s \in DOMAIN records, r # s,
         NEW changed, DOMAIN changed = DOMAIN records,
         \A x \in DOMAIN records :
           changed[x].owner = IF x = r THEN s
                              ELSE IF x = s /\ r \in Owners(records, s) THEN records[r].owner
                              ELSE records[x].owner
  PROVE  Rooted(changed)
<1>1. CASE r \notin Owners(records, s)
  <2>1. \A x \in DOMAIN records : changed[x].owner = IF x = r THEN s ELSE records[x].owner
    BY <1>1
  <2> QED BY <1>1, <2>1, AdoptionKeepsRooted
<1>2. CASE r \in Owners(records, s)
  <2> DEFINE y == records[r].owner
             mid == SetField(records, s, "owner", y)
  <2>1. y \in 0 .. Len(records)
    BY OwnerType
  <2>2. "owner" \in Fields /\ Fits("owner", y, Len(records), m)
    BY <2>1 DEF Fields, Fits
  <2>3. RecordsAre(mid, m) /\ FieldIs(mid, records, s, "owner", y)
    <3> HIDE DEF y
    <3> QED BY <2>2, FieldSet
  <2> HIDE DEF mid
  <2>4. DOMAIN mid = DOMAIN records /\ \A x \in DOMAIN records : mid[x].owner = IF x = s THEN y ELSE records[x].owner
    BY <2>2, <2>3 DEF FieldIs
  <2>5. y \in Owners(records, s) \cup {None}
    BY <1>2, OwnersOf
  <2>6. Rooted(mid)
    <3> HIDE DEF y
    <3> QED BY <2>4, <2>5, ShortcutKeepsRooted
  <2>7. r \notin Owners(mid, s)
    <3> DEFINE T == Owners(records, r)
    <3>1. /\ T \subseteq DOMAIN records /\ (y # None => y \in T)
          /\ \A o \in T : records[o].owner # None => records[o].owner \in T
      BY OwnersOf
    <3>2. r \notin T
      BY RootedIsForest
    <3> HIDE DEF T, y
    <3>3. /\ mid[s].owner # None => mid[s].owner \in T
          /\ \A o \in T : o \in DOMAIN mid /\ (mid[o].owner # None => mid[o].owner \in T)
      BY <2>4, <3>1
    <3>4. Owners(mid, s) \subseteq T
      BY <2>3, <2>4, <3>3, OwnersLeast
    <3> QED BY <3>2, <3>4
  <2>8. \A x \in DOMAIN mid : changed[x].owner = IF x = r THEN s ELSE mid[x].owner
    BY <1>2, <2>4
  <2> HIDE DEF y
  <2> QED BY <2>3, <2>4, <2>6, <2>7, <2>8, AdoptionKeepsRooted
<1> QED BY <1>1, <1>2

\* What a record that was emptied leads to is one of its owners.
LEMMA RealIsOwner ==
  ASSUME NEW m, NEW records, RecordsAre(records, m), NEW r \in DOMAIN records
  PROVE  get_real_outrec(records, records[r].owner) \in Owners(records, r) \cup {None}
<1> DEFINE S == Owners(records, r) \cup {None}
           step == PastEmpty(records)
           p == records[r].owner
<1>1. /\ Owners(records, r) \subseteq DOMAIN records /\ (p # None => p \in Owners(records, r))
      /\ \A o \in Owners(records, r) : records[o].owner # None => records[o].owner \in Owners(records, r)
  BY OwnersOf
<1>2. Len(records) \in Nat /\ DOMAIN records = 1 .. Len(records)
  BY OwnerType
<1>3. S \subseteq 0 .. Len(records)
  BY <1>1, <1>2 DEF None
<1>4. \A s \in S : step[s] = IF s # None /\ records[s].pts = None THEN records[s].owner ELSE s
  BY <1>3 DEF PastEmpty
<1>5. get_real_outrec(records, p) = Iterated(step, p, Len(records))
  BY DEF get_real_outrec, PastEmpty
<1> HIDE DEF step, p
<1>6. StaysIn(step, S) /\ p \in S
  BY <1>1, <1>4 DEF StaysIn
<1> HIDE DEF S
<1>7. Iterated(step, p, Len(records)) \in S
  BY <1>2, <1>6, IteratedIn
<1> QED BY <1>5, <1>7 DEF S, p

-----------------------------------------------------------------------------
(* The owners come to an end in every state.                               *)

\* Only polygon trees and the borrowed topology read the owners.
OwnersAreRooted == using_polytree => Rooted(rec)

LEMMA FieldKeepsOwners ==
  ASSUME NEW m, NEW records, RecordsAre(records, m), NEW r, NEW f, f # "owner", NEW v
  PROVE  SameOwners(SetField(records, r, f, v), records)
<1> DEFINE changed == SetField(records, r, f, v)
<1>1. \A x \in DOMAIN records : "owner" \in DOMAIN records[x]
  BY DEF RecordsAre, RecordIs, Fields
<1>2. DOMAIN changed = DOMAIN records
  BY DEF SetField
<1>3. \A x \in DOMAIN records : changed[x] = records[x] \/ changed[x] = [records[x] EXCEPT ![f] = v]
  BY DEF SetField
<1> HIDE DEF changed
<1>4. ASSUME NEW x \in DOMAIN records PROVE changed[x].owner = records[x].owner
  <2>1. CASE changed[x] = records[x]
    BY <2>1
  <2>2. CASE changed[x] = [records[x] EXCEPT ![f] = v]
    BY <1>1, <2>2
  <2> QED BY <1>3, <2>1, <2>2
<1> QED BY <1>2, <1>4 DEF SameOwners, changed

LEMMA OwnersUntouched ==
  ASSUME OwnersAreRooted, options' = options, SameOwners(rec', rec)
  PROVE  OwnersAreRooted'
BY SameOwnersKeepRooted DEF OwnersAreRooted, using_polytree

LEMMA RecordsUntouched ==
  ASSUME OwnersAreRooted, options' = options, rec' = rec
  PROVE  OwnersAreRooted'
BY OwnersUntouched DEF SameOwners

LEMMA FieldUntouched ==
  ASSUME IInv, OwnersAreRooted, options' = options, NEW r, NEW f, f # "owner", NEW v,
         rec' = SetField(rec, r, f, v)
  PROVE  OwnersAreRooted'
<1>1. SameOwners(rec', rec)
  BY FieldKeepsOwners DEF IInv
<1> QED BY <1>1, OwnersUntouched

\* set_owner does what it is for: the chains of owners do not close.
LEMMA SetOwnerKeepsRooted ==
  ASSUME NEW m \in Nat, NEW records, RecordsAre(records, m), Rooted(records), NEW r \in DOMAIN records,
         NEW owner \in DOMAIN records, r # owner
  PROVE  Rooted(set_owner(records, r, owner))
<1> DEFINE n == Len(records)
           found == get_real_outrec(records, records[owner].owner)
           real == SetField(records, owner, "owner", found)
           belongs == r \in Owners(real, owner)
           second_owner == IF r = owner \/ belongs THEN records[r].owner ELSE real[owner].owner
           r1 == SetField(real, owner, "owner", second_owner)
           r2 == SetField(r1, r, "owner", owner)
<1>1. set_owner(records, r, owner) = r2
  BY DEF set_owner, SetField
<1>2. "owner" \in Fields
  BY DEF Fields
<1>3. found \in Owners(records, owner) \cup {None}
  BY RealIsOwner
<1>4. \A x \in DOMAIN records : records[x].owner \in 0 .. n /\ x \in 0 .. n
  BY OwnerType
<1>5. found \in 0 .. n
  BY <1>4, RealType
<1> HIDE DEF found
<1>6. RecordsAre(real, m) /\ FieldIs(real, records, owner, "owner", found)
  <2>1. Fits("owner", found, n, m)
    BY <1>5 DEF Fits
  <2> QED BY <1>2, <2>1, FieldSet
<1> HIDE DEF real, n
<1>7. /\ Len(real) = n /\ DOMAIN real = DOMAIN records
      /\ \A x \in DOMAIN records : real[x].owner = IF x = owner THEN found ELSE records[x].owner
  BY <1>2, <1>6 DEF FieldIs, n
<1>8. Rooted(real)
  BY <1>3, <1>7, ShortcutKeepsRooted
<1>9. second_owner = IF belongs THEN records[r].owner ELSE real[owner].owner
  OBVIOUS
<1>10. second_owner \in 0 .. n
  <2>1. real[owner].owner \in 0 .. n
    BY <1>6, <1>7, OwnerType
  <2> QED BY <1>4, <2>1
<1> HIDE DEF second_owner, belongs
<1>11. RecordsAre(r1, m) /\ FieldIs(r1, real, owner, "owner", second_owner)
  <2>1. Fits("owner", second_owner, Len(real), m)
    BY <1>7, <1>10 DEF Fits
  <2> QED BY <1>2, <1>6, <1>7, <2>1, FieldSet
<1> HIDE DEF r1
<1>12. /\ Len(r1) = n /\ DOMAIN r1 = DOMAIN records
       /\ \A x \in DOMAIN records : r1[x].owner = IF x = owner THEN second_owner ELSE real[x].owner
  BY <1>2, <1>7, <1>11 DEF FieldIs
<1>13. FieldIs(r2, r1, r, "owner", owner)
  <2>1. Fits("owner", owner, Len(r1), m)
    BY <1>4, <1>12 DEF Fits
  <2> QED BY <1>2, <1>11, <1>12, <2>1, FieldSet
<1> HIDE DEF r2
<1>14. /\ DOMAIN r2 = DOMAIN real
       /\ \A x \in DOMAIN real :
            r2[x].owner = IF x = r THEN owner
                          ELSE IF x = owner /\ r \in Owners(real, owner) THEN real[r].owner
                          ELSE real[x].owner
  BY <1>2, <1>7, <1>9, <1>12, <1>13 DEF FieldIs, belongs
<1>15. Rooted(r2)
  <2>1. m \in Nat /\ RecordsAre(real, m) /\ r \in DOMAIN real /\ owner \in DOMAIN real /\ r # owner
    BY <1>6, <1>7
  <2> QED BY ONLY <1>8, <1>14, <2>1, ExchangeKeepsRooted
<1> QED BY <1>1, <1>15

LEMMA ProcessJoinKeepsOwners ==
  ASSUME IInv, OwnersAreRooted, ProcessJoin
  PROVE  OwnersAreRooted'
<1>1. /\ pc = "joins" /\ index <= Len(joins) /\ options' = options
      /\ \E j \in {Joining} :
           IF j.first_record = j.second_record THEN JoinWithinRecord(j) ELSE JoinRecords(j)
  BY DEF ProcessJoin
<1>2. Joins /\ JoinIs(Joining)
  BY <1>1, JoiningType
<1>3. PICK j : j = Joining /\ IF j.first_record = j.second_record THEN JoinWithinRecord(j) ELSE JoinRecords(j)
  BY <1>1
<1> SUFFICES ASSUME using_polytree PROVE Rooted(rec')
  BY <1>1 DEF OwnersAreRooted, using_polytree
<1>4. JoinIs(j) /\ RecordsAre(rec, Len(op)) /\ Rooted(rec) /\ Len(op) \in Nat
  BY <1>2, <1>3 DEF Joins, OwnersAreRooted
<1>5. CASE j.first_record = j.second_record
  <2>1. LeafAdded(rec', rec)
    BY <1>2, <1>3, <1>4, <1>5, JoinWithinRecordType
  <2> QED BY <1>4, <2>1, LeafKeepsRooted
<1>6. CASE j.first_record # j.second_record
  <2> DEFINE f == j.first_record
             s == j.second_record
             emptied == SetField(rec, s, "pts", None)
             owned == set_owner(emptied, s, f)
             moved == move_splits(owned, s, f)
  <2>1. rec' = moved
    BY <1>3, <1>6 DEF JoinRecords, SetField
  <2>2. f \in DOMAIN rec /\ s \in DOMAIN rec /\ f # s
    BY <1>4, <1>6 DEF JoinIs
  <2>3. RecordsAre(emptied, Len(op)) /\ FieldIs(emptied, rec, s, "pts", None)
    <3>1. "pts" \in Fields /\ Fits("pts", None, Len(rec), Len(op))
      BY <1>4 DEF Fields, Fits, None
    <3> HIDE DEF s
    <3> QED BY <1>4, <2>2, <3>1, FieldSet
  <2>4. SameOwners(emptied, rec)
    BY <1>4, FieldKeepsOwners
  <2> HIDE DEF emptied, f, s
  <2>5. DOMAIN emptied = DOMAIN rec /\ Rooted(emptied)
    BY <1>4, <2>4, SameOwnersKeepRooted DEF SameOwners
  <2>6. Rooted(owned) /\ RecordsAre(owned, Len(op)) /\ DOMAIN owned = DOMAIN emptied
    BY <1>4, <2>2, <2>3, <2>5, SetOwnerKeepsRooted, SetOwnerType DEF OwnerIsSet
  <2> HIDE DEF owned
  <2>7. SameOwners(moved, owned)
    <3>1. Len(op) \in Nat /\ RecordsAre(owned, Len(op)) /\ s \in DOMAIN owned /\ f \in DOMAIN owned
      BY <1>4, <2>2, <2>5, <2>6
    <3>2. /\ DOMAIN moved = DOMAIN owned
          /\ \A r \in DOMAIN owned : moved[r].owner = owned[r].owner /\ moved[r].pts = owned[r].pts
      BY ONLY <3>1, MovedSplitsType
    <3> QED BY <3>2 DEF SameOwners
  <2> HIDE DEF moved
  <2> QED BY <2>1, <2>6, <2>7, SameOwnersKeepRooted
<1> QED BY <1>5, <1>6

\* A ring that is given up keeps its owner.
LEMMA GivenUpKeepsOwners ==
  ASSUME IInv, OwnersAreRooted, options' = options, NEW r, dispose_out_points(r)
  PROVE  OwnersAreRooted'
<1>1. rec' = SetField(rec, r, "pts", None)
  BY DEF dispose_out_points, SetField
<1> QED BY <1>1, FieldUntouched

LEMMA SplitRecordsAreLeaves ==
  ASSUME NEW m, RecordsAre(rec, m), NEW r \in DOMAIN rec, NEW before, NEW pts,
         SplitsAre(SplitRecords(r, before, pts), r, Len(rec) + 1)
  PROVE  LeafAdded(rec', rec)
<1> DEFINE n == Len(rec) + 1
           shorter == SetField(rec, r, "pts", before)
           new == NewRecord(pts, rec[r].owner)
           records == Append(shorter, new)
<1>1. Len(rec) \in Nat /\ DOMAIN rec = 1 .. Len(rec) /\ Sequence(rec) /\ rec[r].owner \in 0 .. Len(rec)
  BY OwnerType DEF RecordsAre
<1>2. SameOwners(shorter, rec) /\ Sequence(shorter) /\ Len(shorter) = Len(rec)
  <2>1. SameOwners(shorter, rec)
    BY FieldKeepsOwners
  <2> DEFINE record == [rec[r] EXCEPT !["pts"] = before]
  <2>2. shorter = [rec EXCEPT ![r] = record]
    BY DEF SetField
  <2> HIDE DEF shorter, record
  <2>3. Sequence([rec EXCEPT ![r] = record]) /\ Len([rec EXCEPT ![r] = record]) = Len(rec)
    <3>1. Sequence(rec)
      BY <1>1
    <3> QED BY ONLY <3>1, r \in DOMAIN rec, SequenceChanged
  <2> QED BY <2>1, <2>2, <2>3
<1> HIDE DEF shorter
<1>3. new.owner = rec[r].owner /\ new.splits = <<>> /\ DOMAIN new = Fields
  BY DEF NewRecord, Fields
<1> HIDE DEF new
<1>4. /\ Len(records) = n /\ DOMAIN records = 1 .. n /\ records[n] = new
      /\ \A x \in DOMAIN rec : records[x] = shorter[x]
  BY <1>2, SequenceAppended DEF SameOwners
<1>5. records = SplitRecords(r, before, pts)
  BY DEF SplitRecords, shorter, new
<1> HIDE DEF records
<1>6. LeafAdded(records, rec)
  BY <1>1, <1>2, <1>3, <1>4 DEF LeafAdded, OwnersAre, SameOwners
<1>7. \A x \in DOMAIN records : "owner" \in DOMAIN records[x]
  <2>1. \A x \in DOMAIN rec : "owner" \in DOMAIN shorter[x]
    <3>1. \A x \in DOMAIN rec : "owner" \in DOMAIN rec[x]
      BY DEF RecordsAre, RecordIs, Fields
    <3> QED BY <3>1 DEF shorter, SetField
  <2>2. "owner" \in DOMAIN new
    BY <1>3 DEF Fields
  <2>3. \A x \in DOMAIN records : x \in DOMAIN rec \/ x = n
    BY <1>1, <1>4
  <2> QED BY <1>4, <2>1, <2>2, <2>3
<1>8. ASSUME NEW x, NEW v, rec' = SetField(records, x, "splits", v) PROVE LeafAdded(rec', rec)
  <2>1. DOMAIN rec' = DOMAIN records
    BY <1>8 DEF SetField
  <2>2. \A y \in DOMAIN records : rec'[y] = records[y] \/ rec'[y] = [records[y] EXCEPT !["splits"] = v]
    BY <1>8 DEF SetField
  <2>3. \A y \in DOMAIN records : rec'[y].owner = records[y].owner
    BY <1>7, <2>2
  <2>4. DOMAIN rec \subseteq DOMAIN records /\ n \in DOMAIN records
    BY <1>1, <1>4
  <2> QED BY <1>6, <2>1, <2>3, <2>4 DEF LeafAdded, OwnersAre
<1> QED BY <1>5, <1>6, <1>8 DEF SplitsAre

LEMMA DoSplitOperationKeepsOwners ==
  ASSUME IInv, OwnersAreRooted, do_split_operation
  PROVE  OwnersAreRooted'
<1>1. call # <<>> /\ options' = options
  BY RunningIs DEF do_split_operation, Splitting, engine
<1>2. SplitOffIs(ShortenedRing, Top.current)
  BY KeptOrDropped
<1>3. Top.record \in DOMAIN rec /\ RecordsAre(rec, Len(op))
  BY <1>1, TopIs
<1>4. CASE rec' = SetField(rec, Top.record, "pts", op[Top.current].prev)
  BY <1>1, <1>4, FieldUntouched
<1>5. CASE SplitsAre(SplitRecords(Top.record, op[Top.current].prev, Len(ShortenedRing) + 1), Top.record, Len(rec) + 1)
  <2>1. LeafAdded(rec', rec)
    BY <1>3, <1>5, SplitRecordsAreLeaves
  <2>2. Rooted(rec) => Rooted(rec')
    BY <1>3, <2>1, LeafKeepsRooted
  <2> QED BY <1>1, <2>2 DEF OwnersAreRooted, using_polytree
<1> QED BY <1>2, <1>4, <1>5 DEF SplitOffIs

LEMMA SplitBoundedKeepsOwners ==
  ASSUME IInv, OwnersAreRooted, SplitBounded
  PROVE  OwnersAreRooted'
<1> DEFINE r == Top.record
           s == Top.current
           belongs == r \in Owners(rec, s)
           w == IF belongs THEN rec[r].owner ELSE rec[s].owner
           r1 == SetField(rec, s, "owner", w)
           r2 == SetField(r1, r, "owner", s)
<1>1. /\ Running("split bounded") /\ options' = options
      /\ rec' = r2 \/ rec' = rec
  <2>1. /\ Running("split bounded") /\ options' = options
        /\ \/ rec' = [rec EXCEPT ![s].owner = IF r \in Owners(rec, s) THEN rec[r].owner ELSE @, ![r].owner = s]
           \/ rec' = rec
    BY DEF SplitBounded, engine
  <2> QED BY <2>1 DEF SetField
<1>2. call # <<>> /\ Top.at = "split bounded"
  BY <1>1, RunningIs
<1>3. /\ r \in DOMAIN rec /\ s \in DOMAIN rec /\ s # r /\ Len(op) \in Nat
      /\ RecordsAre(rec, Len(op)) /\ DOMAIN rec = 1 .. Len(rec) /\ Len(rec) \in Nat
  <2>1. /\ FrameIs(Top, rec, Len(op)) /\ Len(op) \in Nat
        /\ RecordsAre(rec, Len(op)) /\ DOMAIN rec = 1 .. Len(rec) /\ Len(rec) \in Nat
    BY <1>2, TopIs
  <2> QED BY <1>2, <2>1 DEF FrameIs, Searching
<1>4. w \in 0 .. Len(rec) /\ s \in 0 .. Len(rec)
  <2>1. s \in 0 .. Len(rec)
    BY <1>3
  <2> QED BY <1>3, <2>1, OwnerType
<1>5. "owner" \in Fields
  BY DEF Fields
<1> HIDE DEF r, s, w, belongs
<1>6. RecordsAre(r1, Len(op)) /\ FieldIs(r1, rec, s, "owner", w)
  <2>1. Fits("owner", w, Len(rec), Len(op))
    BY <1>4 DEF Fits
  <2> QED BY <1>3, <1>5, <2>1, FieldSet
<1> HIDE DEF r1
<1>7. /\ Len(r1) = Len(rec) /\ DOMAIN r1 = DOMAIN rec
      /\ \A x \in DOMAIN rec : r1[x].owner = IF x = s THEN w ELSE rec[x].owner
  BY <1>5, <1>6 DEF FieldIs
<1>8. FieldIs(r2, r1, r, "owner", s)
  <2>1. Fits("owner", s, Len(r1), Len(op))
    BY <1>4, <1>7 DEF Fits
  <2> QED BY <1>3, <1>5, <1>6, <1>7, <2>1, FieldSet
<1> HIDE DEF r2
<1>9. /\ DOMAIN r2 = DOMAIN rec
      /\ \A x \in DOMAIN rec :
           r2[x].owner = IF x = r THEN s
                         ELSE IF x = s /\ r \in Owners(rec, s) THEN rec[r].owner
                         ELSE rec[x].owner
  BY <1>3, <1>5, <1>7, <1>8 DEF FieldIs, w, belongs
<1>10. Rooted(rec) => Rooted(r2)
  BY <1>3, <1>9, ExchangeKeepsRooted
<1> QED BY <1>1, <1>10 DEF OwnersAreRooted, using_polytree

LEMMA ToNextOwnerKeepsOwners ==
  ASSUME IInv, OwnersAreRooted, call # <<>>, Top.at \in {"owner", "owner bounded"}, options' = options,
         ToNextOwner
  PROVE  OwnersAreRooted'
<1> DEFINE r == Top.record
           o == rec[r].owner
           next == rec[o].owner
<1>1. rec' = SetField(rec, r, "owner", next)
  BY DEF ToNextOwner, SetField
<1>2. /\ FrameIs(Top, rec, Len(op)) /\ r \in DOMAIN rec /\ RecordsAre(rec, Len(op)) /\ Len(op) \in Nat
  BY TopIs
<1>3. o # None
  BY <1>2 DEF FrameIs
<1>4. o \in Owners(rec, r) /\ o \in DOMAIN rec
  BY <1>2, <1>3, OwnersOf
<1>5. next \in Owners(rec, r) \cup {None}
  BY <1>2, <1>4, OwnersOf
<1>6. next \in 0 .. Len(rec) /\ "owner" \in Fields
  BY <1>2, <1>4, OwnerType DEF Fields
<1> HIDE DEF next, o, r
<1>7. FieldIs(rec', rec, r, "owner", next)
  <2>1. Fits("owner", next, Len(rec), Len(op))
    BY <1>6 DEF Fits
  <2> QED BY <1>1, <1>2, <1>6, <2>1, FieldSet
<1>8. /\ DOMAIN rec' = DOMAIN rec
      /\ \A x \in DOMAIN rec : rec'[x].owner = IF x = r THEN next ELSE rec[x].owner
  BY <1>6, <1>7 DEF FieldIs
<1>9. Rooted(rec) => Rooted(rec')
  BY <1>2, <1>5, <1>8, ShortcutKeepsRooted
<1> QED BY <1>9 DEF OwnersAreRooted, using_polytree

\* Where the scan of a ring, or its end, leaves the owners.
LEMMA CleanRingKeepsOwners ==
  ASSUME IInv, OwnersAreRooted, CleanRing
  PROVE  OwnersAreRooted'
<1>1. CASE KeepPoint \/ NoCrossing \/ RelocateDuplicate \/ RingFixed
  BY <1>1, RecordsUntouched DEF KeepPoint, NoCrossing, RelocateDuplicate, RingFixed, engine
<1>2. CASE CleanCollinear
  <2>1. options' = options /\ (rec' = rec \/ dispose_out_points(get_real_outrec(rec, Top.record)))
    BY <1>2 DEF CleanCollinear, engine
  <2> QED BY <2>1, RecordsUntouched, GivenUpKeepsOwners
<1>3. CASE CheckRing
  <2>1. options' = options /\ (rec' = rec \/ dispose_out_points(Top.record))
    BY <1>3 DEF CheckRing, engine
  <2> QED BY <2>1, RecordsUntouched, GivenUpKeepsOwners
<1>4. CASE GiveUpRing
  BY <1>4, GivenUpKeepsOwners DEF GiveUpRing, engine
<1>5. CASE RemovePoint
  <2> DEFINE r == Top.record
             v == IF rec[r].pts = Top.current THEN op[rec[r].pts].prev ELSE rec[r].pts
  <2>1. options' = options /\ rec' = SetField(rec, r, "pts", v)
    BY <1>5 DEF RemovePoint, engine, SetField
  <2> HIDE DEF r, v
  <2> QED BY <2>1, FieldUntouched
<1>6. CASE do_split_operation
  BY <1>6, DoSplitOperationKeepsOwners
<1> QED BY <1>1, <1>2, <1>3, <1>4, <1>5, <1>6 DEF CleanRing

LEMMA FindOwnerKeepsOwners ==
  ASSUME IInv, OwnersAreRooted, FindOwner
  PROVE  OwnersAreRooted'
<1>1. CASE \/ check_bounds \/ LookAtSplit \/ StackOverflow \/ EmptySplitSearched \/ SplitSearched
           \/ resolve_output_record_owner \/ OwnerSearched
  BY <1>1, RecordsUntouched
     DEF check_bounds, LookAtSplit, StackOverflow, EmptySplitSearched, SplitSearched,
         resolve_output_record_owner, OwnerSearched, engine
<1>2. CASE SetBounds
  <2> DEFINE v == Bounds(PathOf(op, rec[Top.record].pts))
  <2>1. options' = options /\ (rec' = rec \/ rec' = SetField(rec, Top.record, "bounds", v))
    BY <1>2 DEF SetBounds, engine, SetField
  <2> HIDE DEF v
  <2> QED BY <2>1, RecordsUntouched, FieldUntouched
<1>3. CASE TrySplit
  <2>1. options' = options /\ (rec' = rec \/ rec' = SetField(rec, RealSplit, "recursive_split", Top.record))
    BY <1>3 DEF TrySplit, engine, SetField
  <2> QED BY <2>1, RecordsUntouched, FieldUntouched
<1>4. CASE SplitBounded
  BY <1>4, SplitBoundedKeepsOwners
<1>5. CASE TryOwner
  <2>1. Running("owner") /\ options' = options /\ (ToNextOwner \/ rec' = rec)
    BY <1>5 DEF TryOwner, engine
  <2> QED BY <2>1, RunningIs, RecordsUntouched, ToNextOwnerKeepsOwners
<1>6. CASE OwnerBounded
  <2>1. Running("owner bounded") /\ options' = options /\ (ToNextOwner \/ rec' = rec)
    BY <1>6 DEF OwnerBounded, engine
  <2> QED BY <2>1, RunningIs, RecordsUntouched, ToNextOwnerKeepsOwners
<1> QED BY <1>1, <1>2, <1>3, <1>4, <1>5, <1>6 DEF FindOwner

LEMMA BuildAnswerKeepsOwners ==
  ASSUME IInv, OwnersAreRooted, BuildAnswer
  PROVE  OwnersAreRooted'
<1>1. CASE AddChild
  <2> DEFINE v == Len(answer) + 1
  <2>1. options' = options /\ rec' = SetField(rec, Top.record, "polygon_node", v)
    BY <1>1 DEF AddChild, engine, SetField
  <2> HIDE DEF v
  <2> QED BY <2>1, FieldUntouched
<1>2. CASE \/ NextRecord \/ RecordsDone \/ EmitPath \/ PlaceRecord \/ recursive_check_owners
           \/ PlaceOwnerFirst \/ NextBounds \/ BoundsDone \/ NextResolve \/ ReadFreedRecords
           \/ DescribeTopology
  BY <1>2, RecordsUntouched
     DEF NextRecord, RecordsDone, EmitPath, PlaceRecord, recursive_check_owners, PlaceOwnerFirst,
         NextBounds, BoundsDone, NextResolve, ReadFreedRecords, DescribeTopology, engine
<1> QED BY <1>1, <1>2 DEF BuildAnswer

LEMMA NextKeepsOwners ==
  ASSUME IInv, OwnersAreRooted, Next
  PROVE  OwnersAreRooted'
<1>1. CASE ConvertSegments
  BY <1>1, RecordsUntouched
     DEF ConvertSegments, UpdateSegment, SortSegments, SkipPair, TakePair, AdvanceFirst,
         AdvanceSecond, JoinPair
<1>2. CASE ProcessJoins
  BY <1>2, ProcessJoinKeepsOwners, RecordsUntouched DEF ProcessJoins, JoinsProcessed
<1>3. CASE Terminated
  BY <1>3, RecordsUntouched DEF Terminated, vars
<1> QED BY <1>1, <1>2, <1>3, CleanRingKeepsOwners, FindOwnerKeepsOwners, BuildAnswerKeepsOwners DEF Next

LEMMA InitIsRooted ==
  ASSUME Init
  PROVE  OwnersAreRooted
<1>1. RecordsAre(rec, Len(op))
  BY InitInvariant DEF IInv
<1>2. \A r \in DOMAIN rec : r \notin Owners(rec, r)
  <2>1. PICK d \in Drawings : rec = d.rec
    BY DEF Init
  <2>2. \A r \in DOMAIN d.rec : r \notin Owners(d.rec, r)
    BY DrawingsAssumption
  <2> QED BY <2>1, <2>2
<1> QED BY <1>1, <1>2, ForestIsRooted DEF OwnersAreRooted

\* The owners of a record come to an end, whatever is joined, split off, searched
\* and placed: set_owner and check_split_owner give the owner of a record away
\* before it becomes one of its own owners, so no loop over the owners turns in a
\* circle.
THEOREM OwnersComeToAnEnd == Spec => []OwnersEnd
<1>1. Init => OwnersAreRooted
  BY InitIsRooted
<1>2. IInv /\ OwnersAreRooted /\ [Next]_vars => OwnersAreRooted'
  BY NextKeepsOwners, RecordsUntouched DEF vars
<1>3. Spec => []OwnersAreRooted
  BY <1>1, <1>2, StepsFindWhatTheyRead, PTL DEF Spec
<1>4. IInv /\ OwnersAreRooted => OwnersEnd
  BY RootedIsForest DEF IInv, OwnersAreRooted, OwnersEnd
<1> QED BY <1>3, <1>4, StepsFindWhatTheyRead, PTL
=============================================================================
