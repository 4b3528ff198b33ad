------------------------ MODULE IntersectionListProofs ------------------------
(***************************************************************************)
(* do_intersections does what IntersectionList checks for an active edge   *)
(* list of every length, every schedule and every rounding of the points.  *)
(*                                                                         *)
(* The invariant of the merge sort says which positions are in the order   *)
(* of the AEL (those of different runs, and those a merge has yet to       *)
(* compare) and which are in the order of the top; the pairs listed are    *)
(* those that have changed their order.  The invariant of the processing   *)
(* says that only edges that cross have changed their order, and that the  *)
(* pairs ahead are those that have yet to.  A list with such a pair has    *)
(* two neighbours that have yet to cross, whatever order the points gave.  *)
(***************************************************************************)
EXTENDS IntersectionList, SequenceTheorems, FiniteSetTheorems, WellFoundedInduction, TLAPS

-----------------------------------------------------------------------------
(* The inductive invariant.                                                *)

\* The order the edges have at the top: by x, then as they were below.
Before(a, b) == top_x[a] < top_x[b] \/ (top_x[a] = top_x[b] /\ a < b)

\* A sequence that holds every edge once.
IsOrder(s) ==
  /\ s \in [1 .. EdgeCount -> 1 .. EdgeCount]
  /\ \A i, j \in 1 .. EdgeCount : s[i] = s[j] => i = j
  /\ \A e \in 1 .. EdgeCount : \E i \in 1 .. EdgeCount : s[i] = e

InOrder(s) == \A i, j \in 1 .. EdgeCount : i < j => Before(s[i], s[j])

AsBelow(s) == s = [i \in 1 .. EdgeCount |-> i]

\* The pairs of edges of which the right one was moved before the left one.
Swapped(s) ==
  {p \in Edge \X Edge : /\ p[1] < p[2]
                        /\ \E i, j \in 1 .. EdgeCount : i < j /\ s[i] = p[2] /\ s[j] = p[1]}

\* A list of pairs without repetition.
ListsOnce(list, pairs) ==
  /\ list \in Seq(Edge \X Edge)
  /\ Range(list) = pairs
  /\ \A i, j \in 1 .. Len(list) : list[i] = list[j] => i = j

\* A run starts between two positions.
Divided(borders, i, j) == \E s \in borders : i < s /\ s <= j

\* The merge has yet to compare the edges of two positions.
Unmerged(c, i, j) == c.left <= i /\ i < c.right /\ c.right <= j /\ j < c.right_end

\* Edges of different runs are in the order of the AEL, those of a run in the
\* order of the top, but for the two runs being merged.
RunsOK(s, c, borders) ==
  \A i, j \in 1 .. EdgeCount :
    i < j => IF Divided(borders, i, j) \/ Unmerged(c, i, j) THEN s[i] < s[j]
             ELSE Before(s[i], s[j])

\* middle is the start of the right one of the two runs being merged.
MergeOK(s, c, borders, middle) ==
  /\ middle \in borders /\ 1 < middle /\ middle <= c.right /\ middle < c.right_end
  /\ 1 <= c.left /\ c.left <= c.right /\ c.right <= c.right_end
  /\ c.right_end \in borders \cup {End}
  /\ \A b \in borders : b <= c.left \/ b = middle \/ b >= c.right_end
  /\ \A b \in borders : b <= middle \/ b >= c.right_end
  /\ RunsOK(s, c, borders \ {middle})

TypeInv ==
  /\ top_x \in Seq(Int)
  /\ IsOrder(sel) /\ IsOrder(actives)
  /\ starts \subseteq 1 .. EdgeCount
  /\ cursor \in [left : Int, right : Int, right_end : Int]
  /\ next \in Nat
  /\ pc \in {"schedule", "pass", "merge", "pass done", "sort", "sorting", "process", "done"}

\* Before the pass, and while runs are merged.
SortInv ==
  /\ pc = "schedule" => AsBelow(sel) /\ nodes = <<>>
  /\ pc # "merge" => cursor = NoMerge
  /\ pc \in {"schedule", "pass", "merge", "pass done", "sort", "sorting"} => AsBelow(actives)
  /\ pc \in {"schedule", "pass", "merge", "pass done", "sort"} => next = 1
  /\ pc \in {"pass", "merge", "pass done", "sort", "sorting"} => HasInversion
  /\ pc \in {"pass", "merge", "pass done"} => 1 \in starts /\ ListsOnce(nodes, Swapped(sel))
  /\ pc = "pass" => starts # {1}
  /\ pc \in {"pass", "pass done"} => RunsOK(sel, cursor, starts)
  /\ pc = "merge" => \E middle \in starts : MergeOK(sel, cursor, starts, middle)
  /\ pc \in {"sort", "sorting", "process", "done"} => InOrder(sel)

\* Two edges that are not in the order they had below have crossed.
CrossedOnly(s) ==
  \A i, j \in 1 .. EdgeCount : i < j => s[i] < s[j] \/ top_x[s[i]] < top_x[s[j]]

\* The pairs that have yet to cross.
ToCross(s) ==
  {p \in Crossings : \E i, j \in 1 .. EdgeCount : i < j /\ s[i] = p[1] /\ s[j] = p[2]}

PairsFrom(list, first) == {list[k] : k \in first .. Len(list)}

\* After the sort, and while the nodes are processed.
ProcessInv ==
  /\ succeeded
  /\ pc \in {"sort", "sorting", "process"} => ListsOnce(nodes, Crossings)
  /\ pc \in {"sorting", "process"} => next \in 1 .. Len(nodes) + 1
  /\ pc = "process" => CrossedOnly(actives) /\ PairsFrom(nodes, next) = ToCross(actives)
  /\ pc = "done" => InOrder(actives)

IInv == TypeInv /\ SortInv /\ ProcessInv

-----------------------------------------------------------------------------
(* Numbers, orders and sequences.                                          *)

\* A set of numbers that is not empty has a least one.
LEMMA Least ==
  ASSUME NEW T, T \subseteq Nat, T # {}
  PROVE  \E n \in T : \A m \in T : n <= m
<1>1. PICK n \in T : \A m \in T : ~(<<m, n>> \in OpToRel(<, Nat))
  BY NatLessThanWellFounded, WFMin, Zenon
<1>2. \A m \in T : ~(m < n)
  BY <1>1 DEF OpToRel
<1> QED
  BY <1>2

LEMMA Sizes ==
  ASSUME TypeInv
  PROVE  /\ EdgeCount \in Nat /\ Edge = 1 .. EdgeCount
         /\ \A e \in 1 .. EdgeCount : top_x[e] \in Int
<1>1. top_x \in Seq(Int)
  BY DEF TypeInv
<1> QED
  BY <1>1 DEF EdgeCount, Edge

\* Before is a strict total order of the edges.
LEMMA BeforeIsAnOrder ==
  ASSUME TypeInv, NEW a \in 1 .. EdgeCount, NEW b \in 1 .. EdgeCount, NEW c \in 1 .. EdgeCount
  PROVE  /\ Before(a, b) /\ Before(b, c) => Before(a, c)
         /\ ~(Before(a, b) /\ Before(b, a)) /\ ~Before(a, a)
         /\ a = b \/ Before(a, b) \/ Before(b, a)
<1>1. /\ a \in Int /\ b \in Int /\ c \in Int
      /\ top_x[a] \in Int /\ top_x[b] \in Int /\ top_x[c] \in Int
  BY Sizes
<1> QED
  BY <1>1 DEF Before

LEMMA OrderFields ==
  ASSUME NEW s, IsOrder(s)
  PROVE  /\ \A i \in 1 .. EdgeCount : s[i] \in 1 .. EdgeCount
         /\ \A i, j \in 1 .. EdgeCount : s[i] = s[j] => i = j
         /\ \A e \in 1 .. EdgeCount : \E i \in 1 .. EdgeCount : s[i] = e
  BY DEF IsOrder

\* A list in which every edge is before its neighbour is in order: otherwise
\* take two edges that are not, as close as possible.
LEMMA NeighboursInOrder ==
  ASSUME TypeInv, NEW s, IsOrder(s),
         \A i \in 1 .. EdgeCount - 1 : Before(s[i], s[i + 1])
  PROVE  InOrder(s)
<1> DEFINE Wrong == {d \in Nat : \E i \in 1 .. EdgeCount :
                       d > 0 /\ i + d <= EdgeCount /\ ~Before(s[i], s[i + d])}
<1>1. EdgeCount \in Nat
  BY Sizes
<1>2. Wrong = {}
  <2> SUFFICES ASSUME Wrong # {}
               PROVE  FALSE
    OBVIOUS
  <2>1. PICK d \in Wrong : \A e \in Wrong : d <= e
    BY Least
  <2>2. PICK i \in 1 .. EdgeCount : d > 0 /\ i + d <= EdgeCount /\ ~Before(s[i], s[i + d])
    OBVIOUS
  <2>3. d \in Nat /\ d # 1
    <3>1. CASE d = 1
      <4>1. i \in 1 .. EdgeCount - 1
        BY <1>1, <2>2, <3>1
      <4> QED
        BY <2>2, <3>1, <4>1
    <3> QED
      BY <3>1
  <2> DEFINE k == i + (d - 1)
  <2>4. d - 1 \in Nat /\ d - 1 > 0 /\ ~(d <= d - 1)
    BY <2>2, <2>3
  <2>5. k \in 1 .. EdgeCount /\ k \in 1 .. EdgeCount - 1 /\ k + 1 = i + d
        /\ i + d \in 1 .. EdgeCount /\ i + (d - 1) <= EdgeCount
    BY <1>1, <2>2, <2>3
  <2>6. Before(s[i], s[k])
    <3>1. d - 1 \notin Wrong
      BY <2>1, <2>4
    <3> QED
      BY <2>4, <2>5, <3>1
  <2>7. Before(s[k], s[i + d])
    <3> HIDE DEF k
    <3> QED
      BY <2>5
  <2>8. s[i] \in 1 .. EdgeCount /\ s[k] \in 1 .. EdgeCount /\ s[i + d] \in 1 .. EdgeCount
    <3> HIDE DEF k
    <3> QED
      BY <2>5, OrderFields
  <2> QED
    BY <2>2, <2>6, <2>7, <2>8, BeforeIsAnOrder
<1>3. SUFFICES ASSUME NEW i \in 1 .. EdgeCount, NEW j \in 1 .. EdgeCount, i < j
               PROVE  Before(s[i], s[j])
  BY DEF InOrder
<1>4. j - i \in Nat /\ j - i > 0 /\ i + (j - i) = j /\ j <= EdgeCount
  BY <1>1, <1>3
<1> QED
  BY <1>2, <1>4

\* There is one order only: at the first place where two differ, each would
\* have the other's edge further on.
LEMMA OrderIsUnique ==
  ASSUME TypeInv, NEW s, NEW t, IsOrder(s), IsOrder(t), InOrder(s), InOrder(t)
  PROVE  s = t
<1> DEFINE Differ == {i \in 1 .. EdgeCount : s[i] # t[i]}
<1>1. EdgeCount \in Nat
  BY Sizes
<1>2. Differ = {}
  <2> SUFFICES ASSUME Differ # {}
               PROVE  FALSE
    OBVIOUS
  <2>1. Differ \subseteq Nat
    BY <1>1
  <2>2. PICK k \in Differ : \A m \in Differ : k <= m
    BY <2>1, Least
  <2>3. k \in 1 .. EdgeCount /\ s[k] # t[k]
    OBVIOUS
  <2>4. PICK m \in 1 .. EdgeCount : s[m] = t[k]
    BY <2>3, OrderFields
  <2>5. PICK l \in 1 .. EdgeCount : t[l] = s[k]
    BY <2>3, OrderFields
  <2>6. k < m
    <3>1. CASE m < k
      <4>1. s[m] = t[m]
        BY <2>2, <2>3, <3>1
      <4> QED
        BY <2>3, <2>4, <3>1, <4>1, OrderFields, ZenonT(30)
    <3>2. m # k
      BY <2>3, <2>4
    <3> QED
      BY <1>1, <2>3, <3>1, <3>2
  <2>7. k < l
    <3>1. CASE l < k
      <4>1. s[l] = t[l]
        BY <2>2, <2>3, <3>1
      <4> QED
        BY <2>3, <2>5, <3>1, <4>1, OrderFields
    <3>2. l # k
      BY <2>3, <2>5
    <3> QED
      BY <1>1, <2>3, <3>1, <3>2
  <2>8. Before(s[k], t[k]) /\ Before(t[k], s[k])
    BY <2>3, <2>4, <2>5, <2>6, <2>7 DEF InOrder
  <2>9. s[k] \in 1 .. EdgeCount /\ t[k] \in 1 .. EdgeCount
    BY <2>3, OrderFields
  <2> QED
    BY <2>8, <2>9, BeforeIsAnOrder
<1>3. s \in [1 .. EdgeCount -> 1 .. EdgeCount] /\ t \in [1 .. EdgeCount -> 1 .. EdgeCount]
  BY DEF IsOrder
<1>4. \A i \in 1 .. EdgeCount : s[i] = t[i]
  BY <1>2
<1>5. s = [i \in 1 .. EdgeCount |-> s[i]] /\ t = [i \in 1 .. EdgeCount |-> t[i]]
  BY <1>3
<1> QED
  BY <1>4, <1>5, Zenon

\* t is s with the element of a position moved ahead to another.
IsMoved(t, s, l, r, n) ==
  \A i \in 1 .. n :
    t[i] = IF i < l \/ i > r THEN s[i] ELSE IF i = l THEN s[r] ELSE s[i - 1]

\* What taking an element out and putting it in further ahead does.
LEMMA MovedAhead ==
  ASSUME NEW S, NEW s \in Seq(S), NEW from \in 1 .. Len(s), NEW to \in 1 .. Len(s), to <= from
  PROVE  LET t == InsertAt(RemoveAt(s, from), to, s[from])
         IN  /\ t \in Seq(S) /\ Len(t) = Len(s)
             /\ IsMoved(t, s, to, from, Len(s))
<1> DEFINE head == SubSeq(s, 1, from - 1)
           tail == SubSeq(s, from + 1, Len(s))
           rest == RemoveAt(s, from)
           first == SubSeq(rest, 1, to - 1)
           last == SubSeq(rest, to, Len(rest))
           t == InsertAt(rest, to, s[from])
<1>1. Len(s) \in Nat /\ \A i \in 1 .. Len(s) : s[i] \in S
  OBVIOUS
<1>2. /\ head \in Seq(S) /\ Len(head) = from - 1
      /\ \A i \in 1 .. from - 1 : head[i] = s[i]
  OBVIOUS
<1>3. /\ tail \in Seq(S) /\ Len(tail) = Len(s) - from
      /\ \A i \in 1 .. Len(s) - from : tail[i] = s[from + i]
  <2>1. \A i \in from + 1 .. Len(s) : s[i] \in S
    BY <1>1
  <2>2. /\ tail \in Seq(S)
        /\ Len(tail) = IF from + 1 <= Len(s) THEN Len(s) - (from + 1) + 1 ELSE 0
        /\ \A i \in 1 .. Len(s) - (from + 1) + 1 : tail[i] = s[from + 1 + i - 1]
    BY <1>1, <2>1, SubSeqProperties
  <2>3. Len(s) - (from + 1) + 1 = Len(s) - from
    BY <1>1
  <2>4. \A i \in 1 .. Len(s) - from : from + 1 + i - 1 = from + i
    BY <1>1
  <2> HIDE DEF tail
  <2>5. Len(tail) = Len(s) - from
    BY <1>1, <2>2
  <2> QED
    BY <2>2, <2>3, <2>4, <2>5
<1>4. /\ rest \in Seq(S) /\ Len(rest) = Len(s) - 1
      /\ \A i \in 1 .. Len(s) - 1 : rest[i] = IF i < from THEN s[i] ELSE s[i + 1]
  <2>1. rest = head \o tail
    BY DEF RemoveAt
  <2> HIDE DEF head, tail, rest
  <2>2. /\ rest \in Seq(S) /\ Len(rest) = Len(head) + Len(tail)
        /\ \A i \in 1 .. Len(head) + Len(tail) :
             rest[i] = IF i <= Len(head) THEN head[i] ELSE tail[i - Len(head)]
    BY <1>2, <1>3, <2>1, ConcatProperties
  <2>3. Len(head) + Len(tail) = Len(s) - 1
    BY <1>1, <1>2, <1>3
  <2>4. ASSUME NEW i \in 1 .. Len(s) - 1
        PROVE  rest[i] = IF i < from THEN s[i] ELSE s[i + 1]
    <3>1. CASE i < from
      <4>1. i \in 1 .. from - 1 /\ i <= Len(head)
        BY <1>2, <3>1
      <4> QED
        BY <1>2, <2>2, <2>3, <3>1, <4>1
    <3>2. CASE ~(i < from)
      <4>1. /\ ~(i <= Len(head)) /\ i - Len(head) = i - (from - 1)
            /\ i - (from - 1) \in 1 .. Len(s) - from /\ from + (i - (from - 1)) = i + 1
        BY <1>1, <1>2, <3>2
      <4> QED
        BY <1>3, <2>2, <2>3, <3>2, <4>1
    <3> QED
      BY <3>1, <3>2
  <2> QED
    BY <2>2, <2>3, <2>4
<1> HIDE DEF head, tail, rest
<1>5. /\ first \in Seq(S) /\ Len(first) = to - 1
      /\ \A i \in 1 .. to - 1 : first[i] = rest[i]
  <2>1. to - 1 \in 0 .. Len(rest) /\ \A i \in 1 .. Len(rest) : rest[i] \in S
    BY <1>1, <1>4
  <2>2. \A i \in 1 .. to - 1 : rest[i] \in S
    BY <1>4, <2>1
  <2>3. /\ first \in Seq(S) /\ Len(first) = IF 1 <= to - 1 THEN to - 1 - 1 + 1 ELSE 0
        /\ \A i \in 1 .. to - 1 - 1 + 1 : first[i] = rest[1 + i - 1]
    BY <2>2, SubSeqProperties
  <2> HIDE DEF first
  <2>4. Len(first) = to - 1 /\ to - 1 - 1 + 1 = to - 1 /\ \A i \in 1 .. to - 1 : 1 + i - 1 = i
    BY <2>3
  <2> QED
    BY <2>3, <2>4
<1>6. /\ last \in Seq(S) /\ Len(last) = Len(s) - to
      /\ \A i \in 1 .. Len(s) - to : last[i] = rest[to + i - 1]
  <2>1. \A i \in to .. Len(rest) : rest[i] \in S
    BY <1>1, <1>4
  <2>2. /\ last \in Seq(S) /\ Len(last) = IF to <= Len(rest) THEN Len(rest) - to + 1 ELSE 0
        /\ \A i \in 1 .. Len(rest) - to + 1 : last[i] = rest[to + i - 1]
    BY <1>1, <1>4, <2>1, SubSeqProperties, SMTT(30)
  <2> HIDE DEF last
  <2>3. Len(last) = Len(s) - to /\ Len(rest) - to + 1 = Len(s) - to
    BY <1>1, <1>4, <2>2
  <2> QED
    BY <2>2, <2>3
<1>7. t = (first \o <<s[from]>>) \o last
  BY DEF InsertAt
<1> HIDE DEF first, last, t
<1>8. /\ first \o <<s[from]>> \in Seq(S) /\ Len(first \o <<s[from]>>) = to
      /\ \A i \in 1 .. to : (first \o <<s[from]>>)[i] = IF i < to THEN first[i] ELSE s[from]
  <2>1. /\ <<s[from]>> \in Seq(S) /\ Len(<<s[from]>>) = 1 /\ <<s[from]>>[1] = s[from]
    BY <1>1
  <2> DEFINE u == <<s[from]>>
  <2> HIDE DEF u
  <2>2. /\ first \o u \in Seq(S) /\ Len(first \o u) = Len(first) + Len(u)
        /\ \A i \in 1 .. Len(first) + Len(u) :
             (first \o u)[i] = IF i <= Len(first) THEN first[i] ELSE u[i - Len(first)]
    BY <1>5, <2>1, ConcatProperties DEF u
  <2>3. Len(u) = 1 /\ u[1] = s[from] /\ Len(first) + Len(u) = to
    BY <1>5, <2>1 DEF u
  <2>4. ASSUME NEW i \in 1 .. to
        PROVE  (first \o u)[i] = IF i < to THEN first[i] ELSE s[from]
    <3>1. CASE i < to
      BY <1>5, <2>2, <2>3, <3>1
    <3>2. CASE i = to
      <4>1. i - Len(first) = 1 /\ ~(i <= Len(first)) /\ ~(i < to)
        BY <1>5, <3>2
      <4> QED
        BY <2>2, <2>3, <4>1
    <3>3. i < to \/ i = to
      OBVIOUS
    <3> QED
      BY <3>1, <3>2, <3>3, Zenon
  <2> QED
    BY <2>2, <2>3, <2>4 DEF u
<1> DEFINE front == first \o <<s[from]>>
<1> HIDE DEF front
<1>9. /\ t \in Seq(S) /\ Len(t) = to + Len(last)
      /\ \A i \in 1 .. to + Len(last) : t[i] = IF i <= to THEN front[i] ELSE last[i - to]
  <2>1. front \in Seq(S) /\ Len(front) = to
    BY <1>8 DEF front
  <2>2. t = front \o last
    BY <1>7 DEF front
  <2>3. /\ t \in Seq(S) /\ Len(t) = Len(front) + Len(last)
        /\ \A i \in 1 .. Len(front) + Len(last) :
             t[i] = IF i <= Len(front) THEN front[i] ELSE last[i - Len(front)]
    BY <1>6, <2>1, <2>2, ConcatProperties
  <2> QED
    BY <2>1, <2>3
<1>10. to + Len(last) = Len(s)
  BY <1>1, <1>6
<1>11. ASSUME NEW i \in 1 .. Len(s)
       PROVE  t[i] = IF i < to \/ i > from THEN s[i] ELSE IF i = to THEN s[from] ELSE s[i - 1]
  <2>1. CASE i < to
    <3>1. t[i] = first[i]
      BY <1>8, <1>9, <1>10, <2>1 DEF front
    <3>2. i \in 1 .. to - 1 /\ i < from /\ i \in 1 .. Len(s) - 1
      BY <2>1
    <3> QED
      BY <1>4, <1>5, <2>1, <3>1, <3>2
  <2>2. CASE i = to
    BY <1>8, <1>9, <1>10, <2>2 DEF front
  <2>3. CASE i > to
    <3>1. t[i] = last[i - to] /\ i - to \in 1 .. Len(s) - to /\ to + (i - to) - 1 = i - 1
      BY <1>9, <1>10, <2>3
    <3>2. last[i - to] = rest[to + (i - to) - 1]
      BY <1>6, <3>1
    <3>3. t[i] = rest[i - 1]
      BY <3>1, <3>2
    <3>4. i - 1 \in 1 .. Len(s) - 1 /\ (i - 1 < from <=> ~(i > from)) /\ (i - 1) + 1 = i
      BY <2>3
    <3>5. rest[i - 1] = IF i - 1 < from THEN s[i - 1] ELSE s[(i - 1) + 1]
      BY <1>4, <3>4
    <3> QED
      BY <2>3, <3>3, <3>4, <3>5
  <2> QED
    BY <2>1, <2>2, <2>3
<1>12. IsMoved(t, s, to, from, Len(s))
  BY <1>11 DEF IsMoved
<1> QED
  BY <1>9, <1>10, <1>12 DEF t, rest

-----------------------------------------------------------------------------
(* The order below, and what has crossed in the order at the top.          *)

LEMMA BelowIsAnOrder ==
  ASSUME EdgeCount \in Nat, Edge = 1 .. EdgeCount, NEW s, AsBelow(s)
  PROVE  IsOrder(s) /\ Swapped(s) = {}
<1>1. s \in [1 .. EdgeCount -> 1 .. EdgeCount] /\ \A i \in 1 .. EdgeCount : s[i] = i
  BY DEF AsBelow
<1>2. IsOrder(s)
  BY <1>1 DEF IsOrder
<1>3. Swapped(s) = {}
  <2> SUFFICES ASSUME NEW p \in Swapped(s)
               PROVE  FALSE
    OBVIOUS
  <2>1. PICK i, j \in 1 .. EdgeCount : p[1] < p[2] /\ i < j /\ s[i] = p[2] /\ s[j] = p[1]
    BY DEF Swapped
  <2> QED
    BY <1>1, <2>1
<1> QED
  BY <1>2, <1>3

LEMMA SwappedAreTheCrossings ==
  ASSUME TypeInv, NEW s, IsOrder(s), InOrder(s)
  PROVE  Swapped(s) = Crossings
<1>1. Edge = 1 .. EdgeCount /\ EdgeCount \in Nat
  BY Sizes
<1>2. ASSUME NEW p \in Edge \X Edge, p[1] < p[2]
      PROVE  (\E i, j \in 1 .. EdgeCount : i < j /\ s[i] = p[2] /\ s[j] = p[1])
               <=> top_x[p[2]] < top_x[p[1]]
  <2>1. /\ p[1] \in 1 .. EdgeCount /\ p[2] \in 1 .. EdgeCount
        /\ top_x[p[1]] \in Int /\ top_x[p[2]] \in Int
    BY <1>1, <1>2, Sizes
  <2>2. Before(p[2], p[1]) <=> top_x[p[2]] < top_x[p[1]]
    BY <1>2, <2>1 DEF Before
  <2>3. PICK i \in 1 .. EdgeCount : s[i] = p[2]
    BY <2>1, OrderFields
  <2>4. PICK j \in 1 .. EdgeCount : s[j] = p[1]
    BY <2>1, OrderFields
  <2>5. i # j
    BY <1>2, <2>1, <2>3, <2>4
  <2>6. CASE i < j
    BY <2>2, <2>3, <2>4, <2>6 DEF InOrder
  <2>7. CASE j < i
    <3>1. Before(p[1], p[2])
      BY <2>3, <2>4, <2>7 DEF InOrder
    <3>2. ~Before(p[2], p[1])
      BY <2>1, <3>1, BeforeIsAnOrder
    <3>3. ASSUME NEW k \in 1 .. EdgeCount, NEW l \in 1 .. EdgeCount,
                 k < l, s[k] = p[2], s[l] = p[1]
          PROVE  FALSE
      <4>1. k = i /\ l = j
        BY <2>3, <2>4, <3>3, OrderFields
      <4> QED
        BY <1>1, <2>7, <3>3, <4>1
    <3> QED
      BY <2>2, <3>2, <3>3
  <2> QED
    BY <1>1, <2>5, <2>6, <2>7
<1> QED
  BY <1>2 DEF Swapped, Crossings

\* Where a run ends, the next one starts.
LEMMA NextRun ==
  ASSUME TypeInv, NEW p \in 1 .. EdgeCount
  PROVE  /\ RunAfter(p) \in starts \cup {End} /\ RunAfter(p) > p /\ RunAfter(p) <= End
         /\ \A b \in starts : b <= p \/ b >= RunAfter(p)
<1> DEFINE later == {b \in starts : b > p} \cup {End}
<1>1. EdgeCount \in Nat /\ (\A b \in starts : b \in 1 .. EdgeCount) /\ End = EdgeCount + 1
  BY Sizes DEF TypeInv, End
<1>2. later \subseteq Nat /\ later # {}
  BY <1>1
<1>3. \E n \in later : \A m \in later : n <= m
  <2> HIDE DEF later
  <2> QED
    BY <1>2, Least
<1>4. RunAfter(p) \in later /\ \A m \in later : RunAfter(p) <= m
  <2>1. RunAfter(p) = CHOOSE n \in later : \A m \in later : n <= m
    BY DEF RunAfter, Min
  <2> HIDE DEF later
  <2> QED
    BY <1>3, <2>1
<1> QED
  BY <1>1, <1>4

\* Runs that are in order, with nothing being merged, stay so when the merge of
\* two of them begins; the merge before may have taken a start before these away.
LEMMA MergeBegins ==
  ASSUME TypeInv, NEW B, B \subseteq starts, NEW s, NEW c, RunsOK(s, c, B),
         \A i, j \in 1 .. EdgeCount : ~Unmerged(c, i, j),
         NEW p \in B, \A b \in starts : b > p => b \in B, RunAfter(p) # End
  PROVE  /\ RunAfter(p) \in B
         /\ MergeOK(s, MergeAt(p), B, RunAfter(p))
         /\ MergeAt(p) \in [left : Int, right : Int, right_end : Int]
<1> DEFINE middle == RunAfter(p)
           end == RunAfter(middle)
           d == MergeAt(p)
<1>1. /\ EdgeCount \in Nat /\ (\A b \in starts : b \in 1 .. EdgeCount) /\ End = EdgeCount + 1
      /\ p \in 1 .. EdgeCount
  BY Sizes DEF TypeInv, End
<1>2. /\ middle \in starts /\ middle \in B /\ middle > p /\ middle \in 1 .. EdgeCount
      /\ \A b \in starts : b <= p \/ b >= middle
  BY <1>1, NextRun
<1> HIDE DEF middle
<1>3. /\ end \in starts \cup {End} /\ end > middle /\ end <= End /\ end \in Int
      /\ \A b \in starts : b <= middle \/ b >= end
  <2>1. /\ end \in starts \cup {End} /\ end > middle /\ end <= End
        /\ \A b \in starts : b <= middle \/ b >= end
    BY <1>2, NextRun
  <2> HIDE DEF end
  <2> QED
    BY <1>1, <2>1
<1>4. d.left = p /\ d.right = middle /\ d.right_end = end
  BY DEF MergeAt, middle
<1>5. d \in [left : Int, right : Int, right_end : Int]
  BY <1>1, <1>2, <1>3 DEF MergeAt, middle
<1> HIDE DEF end, d
<1>6. /\ \A b \in B : b <= p \/ b = middle \/ b >= end
      /\ \A b \in B : b <= middle \/ b >= end
      /\ end \in B \cup {End}
  BY <1>1, <1>2, <1>3
<1>7. RunsOK(s, d, B \ {middle})
  <2> SUFFICES ASSUME NEW i \in 1 .. EdgeCount, NEW j \in 1 .. EdgeCount, i < j
               PROVE  IF Divided(B \ {middle}, i, j) \/ Unmerged(d, i, j) THEN s[i] < s[j]
                      ELSE Before(s[i], s[j])
    BY DEF RunsOK
  <2>1. IF Divided(B, i, j) THEN s[i] < s[j] ELSE Before(s[i], s[j])
    BY DEF RunsOK
  <2>2. CASE Divided(B \ {middle}, i, j)
    BY <2>1, <2>2 DEF Divided
  <2>3. CASE Unmerged(d, i, j)
    <3>1. i < middle /\ middle <= j
      BY <1>4, <2>3 DEF Unmerged
    <3> QED
      BY <1>2, <2>1, <2>3, <3>1 DEF Divided
  <2>4. CASE ~Divided(B \ {middle}, i, j) /\ ~Unmerged(d, i, j)
    <3>1. ~Divided(B, i, j)
      <4> SUFFICES ASSUME Divided(B, i, j)
                   PROVE  FALSE
        OBVIOUS
      <4>1. i < middle /\ middle <= j
        BY <2>4 DEF Divided
      <4>2. p <= i
        <5>1. p # middle /\ p \in B
          BY <1>1, <1>2
        <5>2. ~(i < p /\ p <= j)
          BY <2>4, <5>1 DEF Divided
        <5> QED
          BY <1>1, <1>2, <4>1, <5>2
      <4>3. j < end
        <5>1. CASE end \in B
          <6>1. end # middle /\ ~(i < end /\ end <= j)
            BY <1>2, <1>3, <2>4, <5>1 DEF Divided
          <6> QED
            BY <1>2, <1>3, <4>1, <6>1
        <5>2. CASE end = End
          BY <1>1, <5>2
        <5> QED
          BY <1>6, <5>1, <5>2
      <4> QED
        BY <1>4, <2>4, <4>1, <4>2, <4>3 DEF Unmerged
    <3> QED
      BY <2>1, <2>4, <3>1
  <2> QED
    BY <2>2, <2>3, <2>4
<1>8. 1 < middle /\ middle <= d.right /\ middle < d.right_end /\ 1 <= d.left
      /\ d.left <= d.right /\ d.right <= d.right_end
  BY <1>1, <1>2, <1>3, <1>4
<1>9. MergeOK(s, d, B, middle)
  BY <1>2, <1>3, <1>4, <1>6, <1>7, <1>8 DEF MergeOK
<1> QED
  BY <1>2, <1>5, <1>9 DEF d, middle

-----------------------------------------------------------------------------
(* The steps of a merge.                                                   *)

\* The positions of a merge are those of the list.
LEMMA MergePositions ==
  ASSUME TypeInv, NEW s, NEW c \in [left : Int, right : Int, right_end : Int],
         NEW middle, MergeOK(s, c, starts, middle),
         c.left < c.right, c.right < c.right_end
  PROVE  /\ c.left \in 1 .. EdgeCount /\ c.right \in 1 .. EdgeCount /\ c.right_end \in 1 .. End
         /\ c.right_end \in Int /\ End = EdgeCount + 1 /\ EdgeCount \in Nat
         /\ \A b \in starts \ {middle} : b \in Int /\ (b <= c.left \/ b >= c.right_end)
         /\ c.right_end <= EdgeCount => c.right_end \in starts \ {middle}
<1>1. EdgeCount \in Nat /\ (\A b \in starts : b \in 1 .. EdgeCount) /\ End = EdgeCount + 1
  BY Sizes DEF TypeInv, End
<1>2. /\ c.left \in Int /\ c.right \in Int /\ c.right_end \in Int
      /\ 1 <= c.left /\ c.right_end \in starts \cup {End} /\ middle < c.right_end
      /\ \A b \in starts : b <= c.left \/ b = middle \/ b >= c.right_end
      /\ middle \in starts
  BY DEF MergeOK
<1>3. c.right_end <= End
  BY <1>1, <1>2
<1>4. c.right_end <= EdgeCount => c.right_end \in starts \ {middle}
  BY <1>1, <1>2
<1> QED
  BY <1>1, <1>2, <1>3, <1>4

\* The position k from which the element at a position i came.
CameFrom(i, k, l, r) ==
  \/ (i < l \/ i > r) /\ k = i
  \/ i = l /\ k = r
  \/ l < i /\ i <= r /\ k = i - 1

Traced(t, s, l, r, n) ==
  /\ \A i \in 1 .. n : \E k \in 1 .. n : CameFrom(i, k, l, r) /\ t[i] = s[k]
  /\ \A k \in 1 .. n : \E i \in 1 .. n : CameFrom(i, k, l, r) /\ t[i] = s[k]

LEMMA MovedFrom ==
  ASSUME NEW n \in Nat, NEW s, NEW l \in 1 .. n, NEW r \in 1 .. n,
         l <= r, NEW t, IsMoved(t, s, l, r, n)
  PROVE  Traced(t, s, l, r, n)
<1>1. ASSUME NEW i \in 1 .. n
      PROVE  \E k \in 1 .. n : CameFrom(i, k, l, r) /\ t[i] = s[k]
  <2>1. CASE i < l \/ i > r
    BY <2>1 DEF IsMoved, CameFrom
  <2>2. CASE i = l
    BY <2>2 DEF IsMoved, CameFrom
  <2>3. CASE l < i /\ i <= r
    <3>1. i - 1 \in 1 .. n /\ ~(i < l \/ i > r) /\ i # l
      BY <2>3
    <3>2. t[i] = s[i - 1]
      BY <3>1 DEF IsMoved
    <3> QED
      BY <2>3, <3>1, <3>2 DEF CameFrom
  <2> QED
    BY <2>1, <2>2, <2>3
<1>2. ASSUME NEW k \in 1 .. n
      PROVE  \E i \in 1 .. n : CameFrom(i, k, l, r) /\ t[i] = s[k]
  <2>1. CASE k < l \/ k > r
    BY <2>1 DEF IsMoved, CameFrom
  <2>2. CASE k = r
    <3>1. ~(l < l \/ l > r)
      OBVIOUS
    <3> QED
      BY <2>2, <3>1 DEF IsMoved, CameFrom
  <2>3. CASE l <= k /\ k < r
    <3>1. /\ k + 1 \in 1 .. n /\ ~(k + 1 < l \/ k + 1 > r) /\ k + 1 # l
          /\ (k + 1) - 1 = k /\ l < k + 1 /\ k + 1 <= r
      BY <2>3
    <3>2. t[k + 1] = s[k]
      BY <3>1 DEF IsMoved
    <3>3. CameFrom(k + 1, k, l, r)
      BY <3>1 DEF CameFrom
    <3> QED
      BY <3>1, <3>2, <3>3
  <2> QED
    BY <2>1, <2>2, <2>3
<1> QED
  BY <1>1, <1>2 DEF Traced

\* Moving the right edge before what is left of the left run keeps a list of
\* all edges.
LEMMA MovedOrder ==
  ASSUME EdgeCount \in Nat, NEW s, IsOrder(s), NEW l \in 1 .. EdgeCount, NEW r \in 1 .. EdgeCount,
         l <= r, NEW t, t \in [1 .. EdgeCount -> 1 .. EdgeCount], IsMoved(t, s, l, r, EdgeCount)
  PROVE  IsOrder(t)
<1>1. /\ \A i, j \in 1 .. EdgeCount : s[i] = s[j] => i = j
      /\ \A e \in 1 .. EdgeCount : \E i \in 1 .. EdgeCount : s[i] = e
  BY DEF IsOrder
<1>2. /\ \A i \in 1 .. EdgeCount : \E k \in 1 .. EdgeCount : CameFrom(i, k, l, r) /\ t[i] = s[k]
      /\ \A k \in 1 .. EdgeCount : \E i \in 1 .. EdgeCount : CameFrom(i, k, l, r) /\ t[i] = s[k]
  <2>1. Traced(t, s, l, r, EdgeCount)
    BY MovedFrom
  <2> QED
    BY <2>1 DEF Traced
<1>3. ASSUME NEW i \in 1 .. EdgeCount, NEW j \in 1 .. EdgeCount, t[i] = t[j]
      PROVE  i = j
  <2>1. PICK k \in 1 .. EdgeCount : CameFrom(i, k, l, r) /\ t[i] = s[k]
    BY <1>2
  <2>2. PICK m \in 1 .. EdgeCount : CameFrom(j, m, l, r) /\ t[j] = s[m]
    BY <1>2
  <2>3. k = m
    BY <1>1, <1>3, <2>1, <2>2
  <2>4. CameFrom(i, k, l, r) /\ CameFrom(j, k, l, r)
    BY <2>1, <2>2, <2>3
  <2>5. i \in Int /\ j \in Int /\ k \in Int /\ l \in Int /\ r \in Int
    OBVIOUS
  <2> QED
    BY <2>4, <2>5, SMTT(30) DEF CameFrom
<1>4. ASSUME NEW e \in 1 .. EdgeCount
      PROVE  \E i \in 1 .. EdgeCount : t[i] = e
  <2>1. PICK k \in 1 .. EdgeCount : s[k] = e
    BY <1>1
  <2> QED
    BY <1>2, <2>1
<1> QED
  BY <1>3, <1>4 DEF IsOrder

LEMMA MovedRuns ==
  ASSUME TypeInv, NEW s, IsOrder(s), NEW c \in [left : Int, right : Int, right_end : Int],
         NEW middle, MergeOK(s, c, starts, middle),
         c.left < c.right, c.right < c.right_end,
         top_x[s[c.right]] < top_x[s[c.left]],
         NEW t, t \in [1 .. EdgeCount -> 1 .. EdgeCount], IsMoved(t, s, c.left, c.right, EdgeCount),
         NEW d, d = [c EXCEPT !.left = @ + 1, !.right = @ + 1]
  PROVE  MergeOK(t, d, starts, middle)
<1> DEFINE l == c.left
           r == c.right
           e == c.right_end
           borders == starts \ {middle}
<1>1. /\ l \in 1 .. EdgeCount /\ r \in 1 .. EdgeCount /\ e \in 1 .. End
      /\ e \in Int /\ End = EdgeCount + 1 /\ EdgeCount \in Nat
      /\ \A b \in borders : b \in Int /\ (b <= l \/ b >= e)
      /\ e <= EdgeCount => e \in borders
  BY MergePositions
<1>2. l < r /\ r < e /\ top_x[s[r]] < top_x[s[l]] /\ l \in Int /\ r \in Int
  BY <1>1
<1>3. d.left = l + 1 /\ d.right = r + 1 /\ d.right_end = e
  OBVIOUS
<1>4. /\ \A i, j \in 1 .. EdgeCount :
           i < j => IF Divided(borders, i, j) \/ Unmerged(c, i, j) THEN s[i] < s[j]
                    ELSE Before(s[i], s[j])
      /\ \A i, j : Unmerged(c, i, j) <=> l <= i /\ i < r /\ r <= j /\ j < e
  BY DEF MergeOK, RunsOK, Unmerged
<1>5. \A i, j : Unmerged(d, i, j) <=> l + 1 <= i /\ i < r + 1 /\ r + 1 <= j /\ j < e
  BY <1>3 DEF Unmerged
<1>6. \A i, j : Divided(borders, i, j) <=> \E b \in borders : i < b /\ b <= j
  BY DEF Divided
<1>7. \A i \in 1 .. EdgeCount : t[i] = IF i < l \/ i > r THEN s[i] ELSE IF i = l THEN s[r] ELSE s[i - 1]
  BY DEF IsMoved
<1>8. \A i \in 1 .. EdgeCount : s[i] \in 1 .. EdgeCount /\ top_x[s[i]] \in Int
  BY OrderFields, Sizes
<1> HIDE DEF l, r, e, borders
\* Positions apart by a run border are not both among those that are moved.
<1>9. ASSUME NEW i \in 1 .. EdgeCount, NEW j \in 1 .. EdgeCount, i < j, Divided(borders, i, j)
      PROVE  t[i] < t[j]
  <2>1. PICK b \in borders : i < b /\ b <= j
    BY <1>6, <1>9
  <2>2. b \in Int /\ (b <= l \/ b >= e)
    BY <1>1
  <2>3. CASE b <= l
    <3>1. i < l /\ t[i] = s[i]
      BY <1>1, <1>7, <2>1, <2>2, <2>3
    <3>2. PICK k \in 1 .. EdgeCount : t[j] = s[k] /\ b <= k
      <4>1. CASE j < l \/ j > r
        BY <1>7, <2>1, <4>1
      <4>2. CASE j = l
        BY <1>1, <1>2, <1>7, <2>2, <2>3, <4>2
      <4>3. CASE l < j /\ j <= r
        <5>1. j - 1 \in 1 .. EdgeCount /\ b <= j - 1 /\ t[j] = s[j - 1]
          BY <1>1, <1>2, <1>7, <2>2, <2>3, <4>3
        <5> QED
          BY <5>1
      <4> QED
        BY <1>1, <4>1, <4>2, <4>3
    <3>3. i < k /\ Divided(borders, i, k)
      BY <1>6, <2>1, <2>2, <3>2
    <3> QED
      BY <1>4, <3>1, <3>2, <3>3
  <2>4. CASE b >= e
    <3>1. j > r /\ t[j] = s[j]
      BY <1>1, <1>2, <1>7, <2>1, <2>2, <2>4
    <3>2. PICK k \in 1 .. EdgeCount : t[i] = s[k] /\ k < b
      <4>1. CASE i < l \/ i > r
        BY <1>7, <2>1, <4>1
      <4>2. CASE i = l
        BY <1>1, <1>2, <1>7, <2>2, <2>4, <4>2
      <4>3. CASE l < i /\ i <= r
        <5>1. i - 1 \in 1 .. EdgeCount /\ i - 1 < b /\ ~(i < l \/ i > r) /\ i # l
          BY <1>1, <1>2, <2>1, <2>2, <4>3
        <5>2. t[i] = s[i - 1]
          BY <1>7, <5>1
        <5> QED
          BY <5>1, <5>2
      <4> QED
        BY <1>1, <4>1, <4>2, <4>3
    <3>3. k < j /\ Divided(borders, k, j)
      BY <1>6, <2>1, <2>2, <3>2
    <3> QED
      BY <1>4, <3>1, <3>2, <3>3
  <2> QED
    BY <2>2, <2>3, <2>4
<1>10. ASSUME NEW i \in 1 .. EdgeCount, NEW j \in 1 .. EdgeCount, Unmerged(d, i, j)
       PROVE  t[i] < t[j]
  <2>1. l + 1 <= i /\ i < r + 1 /\ r + 1 <= j /\ j < e
    BY <1>5, <1>10
  <2>4. /\ i - 1 \in 1 .. EdgeCount /\ i - 1 < j
        /\ ~(i < l \/ i > r) /\ i # l /\ j > r
    BY <1>1, <1>2, <2>1
  <2>2. t[i] = s[i - 1] /\ t[j] = s[j]
    BY <1>7, <2>4
  <2>3. Unmerged(c, i - 1, j)
    BY <1>1, <1>2, <1>4, <2>1, SMTT(30)
  <2> QED
    BY <1>4, <2>2, <2>3, <2>4
\* The edges left of the left run are in order, and the right one is before them.
<1>11. ASSUME NEW j \in 1 .. EdgeCount, l <= j, j < r
       PROVE  Before(s[r], s[j])
  <2>1. CASE j = l
    BY <1>2, <2>1 DEF Before
  <2>2. CASE j # l
    <3>1. l < j /\ ~Unmerged(c, l, j)
      BY <1>1, <1>2, <1>4, <1>11, <2>2
    <3>2. ~Divided(borders, l, j)
      BY <1>1, <1>2, <1>6, <1>11
    <3>3. Before(s[l], s[j])
      BY <1>1, <1>4, <3>1, <3>2
    <3> QED
      BY <1>1, <1>2, <1>8, <3>3, SMTT(30) DEF Before
  <2> QED
    BY <2>1, <2>2
<1>12. ASSUME NEW i \in 1 .. EdgeCount, NEW j \in 1 .. EdgeCount, i < j,
              ~Divided(borders, i, j), ~Unmerged(d, i, j)
       PROVE  Before(t[i], t[j])
  <2>0. ASSUME NEW k \in 1 .. EdgeCount, NEW m \in 1 .. EdgeCount, k < m,
               ~Divided(borders, k, m), ~Unmerged(c, k, m)
        PROVE  Before(s[k], s[m])
    BY <1>4, <2>0
  <2>1. CASE i < l
    <3>1. t[i] = s[i]
      BY <1>7, <2>1
    <3>2. \A m : ~Unmerged(c, i, m)
      BY <1>1, <1>4, <2>1
    <3>3. CASE j < l \/ j > r
      BY <1>7, <1>12, <2>0, <3>1, <3>2, <3>3
    <3>4. CASE j = l
      <4>1. ~Divided(borders, i, r)
        BY <1>1, <1>2, <1>6, <1>12, <3>4
      <4>2. i < r /\ t[j] = s[r]
        BY <1>1, <1>2, <1>7, <2>1, <3>4, SMTT(30)
      <4> QED
        BY <1>1, <2>0, <3>1, <3>2, <4>1, <4>2
    <3>5. CASE l < j /\ j <= r
      <4>1. j - 1 \in 1 .. EdgeCount /\ i < j - 1 /\ t[j] = s[j - 1]
        BY <1>1, <1>7, <2>1, <3>5, SMTT(30)
      <4>2. ~Divided(borders, i, j - 1)
        BY <1>1, <1>6, <1>12, <3>5
      <4> QED
        BY <2>0, <3>1, <3>2, <4>1, <4>2
    <3> QED
      BY <1>1, <3>3, <3>4, <3>5
  <2>2. CASE i = l
    <3>1. t[i] = s[r]
      BY <1>1, <1>2, <1>7, <2>2
    <3>2. CASE j <= r
      <4>1. j - 1 \in 1 .. EdgeCount /\ l <= j - 1 /\ j - 1 < r /\ t[j] = s[j - 1]
        BY <1>1, <1>7, <1>12, <2>2, <3>2, SMTT(30)
      <4> QED
        BY <1>11, <3>1, <4>1
    <3>3. CASE j > r
      <4>1. t[j] = s[j] /\ ~Unmerged(c, r, j)
        BY <1>1, <1>4, <1>7, <3>3
      <4>2. ~Divided(borders, r, j)
        BY <1>1, <1>2, <1>6, <1>12, <2>2
      <4> QED
        BY <1>1, <2>0, <3>1, <3>3, <4>1, <4>2
    <3> QED
      BY <1>1, <3>2, <3>3
  <2>3. CASE l < i /\ i <= r
    <3>0. i - 1 \in 1 .. EdgeCount /\ l <= i - 1 /\ i - 1 < r /\ ~(i < l \/ i > r) /\ i # l
      BY <1>1, <1>2, <2>3
    <3>1. i - 1 \in 1 .. EdgeCount /\ l <= i - 1 /\ i - 1 < r /\ t[i] = s[i - 1]
      BY <1>7, <3>0
    <3>2. CASE j <= r
      <4>0. /\ j - 1 \in 1 .. EdgeCount /\ i - 1 < j - 1 /\ j - 1 < r
            /\ ~(j < l \/ j > r) /\ j # l
        BY <1>1, <1>2, <1>12, <2>3, <3>2
      <4>1. j - 1 \in 1 .. EdgeCount /\ i - 1 < j - 1 /\ t[j] = s[j - 1] /\ j - 1 < r
        BY <1>7, <4>0
      <4>2. ~Unmerged(c, i - 1, j - 1)
        BY <1>1, <1>4, <4>1
      <4>3. ~Divided(borders, i - 1, j - 1)
        <5> SUFFICES ASSUME NEW b \in borders, i - 1 < b, b <= j - 1
                     PROVE  FALSE
          BY <1>6
        <5>1. b \in Int /\ (b <= l \/ b >= e)
          BY <1>1
        <5> QED
          BY <1>1, <1>2, <3>1, <4>1, <5>1
      <4> QED
        BY <2>0, <3>1, <4>1, <4>2, <4>3
    <3>3. CASE j > r
      <4>1. j >= e
        BY <1>1, <1>5, <1>12, <2>3, <3>3
      <4>2. e \in borders /\ i < e
        BY <1>1, <1>2, <2>3, <4>1
      <4> QED
        BY <1>6, <1>12, <4>1, <4>2
    <3> QED
      BY <1>1, <3>2, <3>3
  <2>4. CASE i > r
    <3>1. t[i] = s[i] /\ t[j] = s[j]
      BY <1>1, <1>2, <1>7, <1>12, <2>4
    <3>2. ~Unmerged(c, i, j)
      BY <1>1, <1>4, <2>4
    <3> QED
      BY <1>12, <2>0, <3>1, <3>2
  <2> QED
    BY <1>1, <2>1, <2>2, <2>3, <2>4
<1>13. RunsOK(t, d, borders)
  BY <1>9, <1>10, <1>12 DEF RunsOK
<1>14. /\ middle \in starts /\ 1 < middle /\ middle <= r /\ middle < e
       /\ 1 <= l /\ e \in starts \cup {End}
       /\ \A b \in starts : b <= l \/ b = middle \/ b >= e
       /\ \A b \in starts : b <= middle \/ b >= e
       /\ middle \in Int /\ \A b \in starts : b \in Int
  <2>1. \A b \in starts : b \in Int
    <3>1. \A b \in starts : b \in 1 .. EdgeCount
      BY DEF TypeInv
    <3> QED
      BY <1>1, <3>1
  <2>2. /\ middle \in starts /\ 1 < middle /\ middle <= r /\ middle < e
        /\ 1 <= l /\ e \in starts \cup {End}
        /\ \A b \in starts : b <= l \/ b = middle \/ b >= e
        /\ \A b \in starts : b <= middle \/ b >= e
    BY DEF MergeOK, l, r, e
  <2> QED
    BY <2>1, <2>2
<1>15. /\ middle <= r + 1 /\ 1 <= l + 1 /\ l + 1 <= r + 1 /\ r + 1 <= e
       /\ \A b \in starts : b <= l + 1 \/ b = middle \/ b >= e
  BY <1>1, <1>2, <1>14
<1> QED
  BY <1>3, <1>13, <1>14, <1>15 DEF MergeOK, borders

LEMMA KeptRuns ==
  ASSUME TypeInv, NEW s, IsOrder(s), NEW c \in [left : Int, right : Int, right_end : Int],
         NEW middle, MergeOK(s, c, starts, middle),
         c.left < c.right, c.right < c.right_end,
         ~(top_x[s[c.right]] < top_x[s[c.left]]),
         NEW d, d = [c EXCEPT !.left = @ + 1]
  PROVE  MergeOK(s, d, starts, middle)
<1> DEFINE l == c.left
           r == c.right
           e == c.right_end
           borders == starts \ {middle}
<1>1. /\ l \in 1 .. EdgeCount /\ r \in 1 .. EdgeCount /\ e \in 1 .. End
      /\ e \in Int /\ End = EdgeCount + 1 /\ EdgeCount \in Nat
      /\ \A b \in borders : b \in Int /\ (b <= l \/ b >= e)
  BY MergePositions
<1>2. l < r /\ r < e /\ ~(top_x[s[r]] < top_x[s[l]]) /\ l \in Int /\ r \in Int
  BY <1>1
<1>3. d.left = l + 1 /\ d.right = r /\ d.right_end = e
  OBVIOUS
<1>4. /\ \A i, j \in 1 .. EdgeCount :
           i < j => IF Divided(borders, i, j) \/ Unmerged(c, i, j) THEN s[i] < s[j]
                    ELSE Before(s[i], s[j])
      /\ \A i, j : Unmerged(c, i, j) <=> l <= i /\ i < r /\ r <= j /\ j < e
  BY DEF MergeOK, RunsOK, Unmerged
<1>5. \A i, j : Unmerged(d, i, j) <=> l + 1 <= i /\ i < r /\ r <= j /\ j < e
  BY <1>3 DEF Unmerged
<1>6. \A i, j : Divided(borders, i, j) <=> \E b \in borders : i < b /\ b <= j
  BY DEF Divided
<1>7. \A i \in 1 .. EdgeCount : s[i] \in 1 .. EdgeCount /\ top_x[s[i]] \in Int
  BY OrderFields, Sizes
<1>8. /\ middle \in starts /\ 1 < middle /\ middle <= r /\ middle < e
      /\ 1 <= l /\ e \in starts \cup {End}
      /\ \A b \in starts : b <= l \/ b = middle \/ b >= e
      /\ \A b \in starts : b <= middle \/ b >= e
  BY DEF MergeOK
<1>9. \A b \in starts : b \in Int
  <2>1. \A b \in starts : b \in 1 .. EdgeCount
    BY DEF TypeInv
  <2> QED
    BY <1>1, <2>1
<1> HIDE DEF l, r, e, borders
\* The left edge is before the right one, and so before those after it.
<1>10. Before(s[l], s[r])
  <2>1. s[l] < s[r]
    BY <1>1, <1>2, <1>4
  <2> QED
    BY <1>1, <1>2, <1>7, <2>1 DEF Before
<1>11. ASSUME NEW j \in 1 .. EdgeCount, r < j, j < e
       PROVE  Before(s[r], s[j])
  <2>1. ~Unmerged(c, r, j)
    BY <1>2, <1>4
  <2>2. ~Divided(borders, r, j)
    <3> SUFFICES ASSUME NEW b \in borders, r < b, b <= j
                 PROVE  FALSE
      BY <1>6
    <3>1. b \in Int /\ (b <= l \/ b >= e)
      BY <1>1
    <3> QED
      BY <1>1, <1>2, <1>11, <3>1
  <2> QED
    BY <1>1, <1>4, <1>11, <2>1, <2>2
<1>12. ASSUME NEW j \in 1 .. EdgeCount, Unmerged(c, l, j)
       PROVE  Before(s[l], s[j])
  <2>1. r <= j /\ j < e
    BY <1>4, <1>12
  <2>2. CASE j = r
    BY <1>10, <2>2
  <2>3. CASE r < j
    <3>1. Before(s[r], s[j])
      BY <1>11, <2>1, <2>3
    <3> QED
      BY <1>1, <1>7, <1>10, <3>1, BeforeIsAnOrder
  <2> QED
    BY <1>1, <2>1, <2>2, <2>3
<1>13. RunsOK(s, d, borders)
  <2> SUFFICES ASSUME NEW i \in 1 .. EdgeCount, NEW j \in 1 .. EdgeCount, i < j
               PROVE  IF Divided(borders, i, j) \/ Unmerged(d, i, j) THEN s[i] < s[j]
                      ELSE Before(s[i], s[j])
    BY DEF RunsOK
  <2>1. CASE Divided(borders, i, j)
    BY <1>4, <2>1
  <2>2. CASE ~Divided(borders, i, j) /\ Unmerged(d, i, j)
    <3>1. Unmerged(c, i, j)
      BY <1>1, <1>2, <1>4, <1>5, <2>2
    <3> QED
      BY <1>4, <2>2, <3>1
  <2>3. CASE ~Divided(borders, i, j) /\ ~Unmerged(d, i, j) /\ ~Unmerged(c, i, j)
    BY <1>4, <2>3
  <2>4. CASE ~Divided(borders, i, j) /\ ~Unmerged(d, i, j) /\ Unmerged(c, i, j)
    <3>1. i = l
      BY <1>1, <1>2, <1>4, <1>5, <2>4
    <3> QED
      BY <1>12, <2>4, <3>1
  <2> QED
    BY <2>1, <2>2, <2>3, <2>4
<1>14. /\ 1 <= l + 1 /\ l + 1 <= r /\ r <= e
       /\ \A b \in starts : b <= l + 1 \/ b = middle \/ b >= e
  BY <1>1, <1>2, <1>8, <1>9
<1> QED
  BY <1>3, <1>8, <1>13, <1>14 DEF MergeOK, borders

-----------------------------------------------------------------------------
(* The list of the pairs.                                                  *)

LEMMA ListsBoth ==
  ASSUME NEW P, NEW Q, NEW a, NEW b, ListsOnce(a, P), ListsOnce(b, Q), P \cap Q = {}
  PROVE  ListsOnce(a \o b, P \cup Q)
<1>1. /\ a \in Seq(Edge \X Edge) /\ b \in Seq(Edge \X Edge)
      /\ P = Range(a) /\ Q = Range(b)
      /\ \A i, j \in 1 .. Len(a) : a[i] = a[j] => i = j
      /\ \A i, j \in 1 .. Len(b) : b[i] = b[j] => i = j
  BY DEF ListsOnce
<1> DEFINE c == a \o b
<1>2. /\ c \in Seq(Edge \X Edge) /\ Len(c) = Len(a) + Len(b)
      /\ \A i \in 1 .. Len(a) + Len(b) : c[i] = IF i <= Len(a) THEN a[i] ELSE b[i - Len(a)]
  BY <1>1, ConcatProperties
<1> HIDE DEF c
<1>3. Len(a) \in Nat /\ Len(b) \in Nat /\ DOMAIN a = 1 .. Len(a) /\ DOMAIN b = 1 .. Len(b)
      /\ DOMAIN c = 1 .. Len(c)
  BY <1>1, <1>2
\* Every position is one of a or one of b.
<1>4. ASSUME NEW i \in 1 .. Len(c)
      PROVE  \/ i \in 1 .. Len(a) /\ c[i] = a[i] /\ c[i] \in P
             \/ i - Len(a) \in 1 .. Len(b) /\ c[i] = b[i - Len(a)] /\ c[i] \in Q
  <2>1. CASE i <= Len(a)
    <3>1. i \in 1 .. Len(a) /\ c[i] = a[i]
      BY <1>2, <1>3, <2>1
    <3> QED
      BY <1>1, <1>3, <3>1 DEF Range
  <2>2. CASE ~(i <= Len(a))
    <3>1. i - Len(a) \in 1 .. Len(b) /\ i \in 1 .. Len(a) + Len(b)
      BY <1>2, <1>3, <2>2
    <3>2. c[i] = b[i - Len(a)]
      BY <1>2, <2>2, <3>1
    <3> QED
      BY <1>1, <1>3, <3>1, <3>2 DEF Range
  <2> QED
    BY <2>1, <2>2
<1>5. ASSUME NEW i \in 1 .. Len(c), NEW j \in 1 .. Len(c), c[i] = c[j]
      PROVE  i = j
  <2>1. CASE c[i] \in P
    <3>1. c[i] \notin Q /\ c[j] \notin Q
      BY <1>5, <2>1
    <3>2. i \in 1 .. Len(a) /\ j \in 1 .. Len(a) /\ a[i] = a[j]
      BY <1>4, <1>5, <3>1
    <3> QED
      BY <1>1, <3>2
  <2>2. CASE c[i] \notin P
    <3>1. /\ i - Len(a) \in 1 .. Len(b) /\ j - Len(a) \in 1 .. Len(b)
          /\ b[i - Len(a)] = b[j - Len(a)]
      BY <1>4, <1>5, <2>2
    <3>2. i - Len(a) = j - Len(a)
      BY <1>1, <3>1
    <3> QED
      BY <1>2, <1>3, <3>2
  <2> QED
    BY <2>1, <2>2
<1>6. Range(c) = P \cup Q
  <2>1. ASSUME NEW x \in Range(c)
        PROVE  x \in P \cup Q
    BY <1>3, <1>4 DEF Range
  <2>2. ASSUME NEW x \in P
        PROVE  x \in Range(c)
    <3>1. PICK i \in 1 .. Len(a) : x = a[i]
      BY <1>1, <1>3 DEF Range
    <3>2. i \in 1 .. Len(a) + Len(b) /\ i <= Len(a)
      BY <1>3
    <3>3. c[i] = x /\ i \in DOMAIN c
      BY <1>2, <1>3, <3>1, <3>2
    <3> QED
      BY <3>3 DEF Range
  <2>3. ASSUME NEW x \in Q
        PROVE  x \in Range(c)
    <3>1. PICK i \in 1 .. Len(b) : x = b[i]
      BY <1>1, <1>3 DEF Range
    <3>2. i + Len(a) \in 1 .. Len(a) + Len(b) /\ ~(i + Len(a) <= Len(a)) /\ (i + Len(a)) - Len(a) = i
      BY <1>3
    <3>3. c[i + Len(a)] = x /\ i + Len(a) \in DOMAIN c
      BY <1>2, <1>3, <3>1, <3>2
    <3> QED
      BY <3>3 DEF Range
  <2> QED
    BY <2>1, <2>2, <2>3
<1> QED
  BY <1>2, <1>5, <1>6 DEF ListsOnce, c

\* The pairs that a moved edge has changed the order of are listed with it.
LEMMA MovedPairs ==
  ASSUME TypeInv, NEW s, IsOrder(s), NEW l \in 1 .. EdgeCount, NEW r \in 1 .. EdgeCount, l < r,
         \A k \in l .. r - 1 : s[k] < s[r],
         NEW t, IsMoved(t, s, l, r, EdgeCount),
         NEW list, ListsOnce(list, Swapped(s))
  PROVE  ListsOnce(list \o [k \in 1 .. r - l |-> <<s[r - k], s[r]>>], Swapped(t))
<1> DEFINE over == [k \in 1 .. r - l |-> <<s[r - k], s[r]>>]
           new == {p \in Edge \X Edge : \E k \in l .. r - 1 : p = <<s[k], s[r]>>}
<1>1. EdgeCount \in Nat /\ Edge = 1 .. EdgeCount
  BY Sizes
<1>2. /\ \A i \in 1 .. EdgeCount : s[i] \in 1 .. EdgeCount
      /\ \A i, j \in 1 .. EdgeCount : s[i] = s[j] => i = j
  BY OrderFields
<1>3. /\ \A i \in 1 .. EdgeCount : \E k \in 1 .. EdgeCount : CameFrom(i, k, l, r) /\ t[i] = s[k]
      /\ \A k \in 1 .. EdgeCount : \E i \in 1 .. EdgeCount : CameFrom(i, k, l, r) /\ t[i] = s[k]
  <2>1. l <= r
    BY <1>1
  <2>2. Traced(t, s, l, r, EdgeCount)
    BY <1>1, <2>1, MovedFrom
  <2> QED
    BY <2>2 DEF Traced
<1>4. ASSUME NEW p \in Swapped(s)
      PROVE  p \in Swapped(t)
  <2>1. p \in Edge \X Edge /\ p[1] < p[2]
    BY DEF Swapped
  <2>2. PICK a, b \in 1 .. EdgeCount : a < b /\ s[a] = p[2] /\ s[b] = p[1]
    BY DEF Swapped
  <2>3. PICK i \in 1 .. EdgeCount : CameFrom(i, a, l, r) /\ t[i] = s[a]
    BY <1>3
  <2>4. PICK j \in 1 .. EdgeCount : CameFrom(j, b, l, r) /\ t[j] = s[b]
    BY <1>3
  <2>5. ~(b = r /\ l <= a /\ a < r)
    <3> SUFFICES ASSUME b = r, l <= a, a < r
                 PROVE  FALSE
      OBVIOUS
    <3>1. a \in l .. r - 1
      BY <1>1
    <3>2. s[a] < s[r] /\ s[a] \in Int /\ s[r] \in Int
      BY <1>1, <1>2, <3>1
    <3> QED
      BY <2>1, <2>2, <3>2
  <2>6. i < j
    <3>1. i \in Int /\ j \in Int /\ a \in Int /\ b \in Int /\ l \in Int /\ r \in Int
      BY <1>1
    <3> QED
      BY <2>2, <2>3, <2>4, <2>5, <3>1 DEF CameFrom
  <2> QED
    BY <2>1, <2>2, <2>3, <2>4, <2>6 DEF Swapped
<1>5. ASSUME NEW p \in new
      PROVE  p \in Swapped(t) /\ p \notin Swapped(s)
  <2>1. PICK k \in l .. r - 1 : p = <<s[k], s[r]>>
    OBVIOUS
  <2>2. k \in 1 .. EdgeCount /\ k < r /\ l <= k /\ p[1] = s[k] /\ p[2] = s[r]
    BY <1>1, <2>1
  <2>3. p \in Edge \X Edge /\ p[1] < p[2]
    BY <2>1, <2>2
  <2>4. PICK i \in 1 .. EdgeCount : CameFrom(i, r, l, r) /\ t[i] = s[r]
    BY <1>3
  <2>5. PICK j \in 1 .. EdgeCount : CameFrom(j, k, l, r) /\ t[j] = s[k]
    BY <1>3, <2>2
  <2>6. i < j
    <3>1. i \in Int /\ j \in Int /\ k \in Int /\ l \in Int /\ r \in Int
      BY <1>1
    <3> QED
      BY <2>2, <2>4, <2>5, <3>1 DEF CameFrom
  <2>7. p \in Swapped(t)
    BY <2>2, <2>3, <2>4, <2>5, <2>6 DEF Swapped
  <2>8. ASSUME NEW a \in 1 .. EdgeCount, NEW b \in 1 .. EdgeCount, a < b, s[a] = p[2], s[b] = p[1]
        PROVE  FALSE
    <3>1. a = r /\ b = k
      BY <1>2, <2>2, <2>8
    <3> QED
      BY <1>1, <2>2, <2>8, <3>1
  <2> QED
    BY <2>7, <2>8 DEF Swapped
<1>6. ASSUME NEW p \in Swapped(t), p \notin Swapped(s)
      PROVE  p \in new
  <2>1. p \in Edge \X Edge /\ p[1] < p[2]
    BY DEF Swapped
  <2>2. PICK i, j \in 1 .. EdgeCount : i < j /\ t[i] = p[2] /\ t[j] = p[1]
    BY DEF Swapped
  <2>3. PICK a \in 1 .. EdgeCount : CameFrom(i, a, l, r) /\ t[i] = s[a]
    BY <1>3
  <2>4. PICK b \in 1 .. EdgeCount : CameFrom(j, b, l, r) /\ t[j] = s[b]
    BY <1>3
  <2>5. ~(a < b)
    BY <1>6, <2>1, <2>2, <2>3, <2>4 DEF Swapped
  <2>6. a = r /\ l <= b /\ b < r
    <3>1. i \in Int /\ j \in Int /\ a \in Int /\ b \in Int /\ l \in Int /\ r \in Int
      BY <1>1
    <3> QED
      BY <2>2, <2>3, <2>4, <2>5, <3>1 DEF CameFrom
  <2>7. b \in l .. r - 1
    BY <1>1, <2>6
  <2>8. p = <<p[1], p[2]>>
    BY <2>1
  <2> QED
    BY <2>1, <2>2, <2>3, <2>4, <2>6, <2>7, <2>8
<1>7. Swapped(t) = Swapped(s) \cup new
  <2> HIDE DEF new
  <2> QED
    BY <1>4, <1>5, <1>6
<1>8. ListsOnce(over, new)
  <2>1. ASSUME NEW k \in 1 .. r - l
        PROVE  over[k] = <<s[r - k], s[r]>> /\ over[k] \in Edge \X Edge /\ r - k \in l .. r - 1
               /\ r - k \in 1 .. EdgeCount
    <3>1. r - k \in l .. r - 1 /\ r - k \in 1 .. EdgeCount
      BY <1>1
    <3> QED
      BY <1>1, <1>2, <3>1
  <2>2. over \in Seq(Edge \X Edge) /\ Len(over) = r - l /\ DOMAIN over = 1 .. r - l
    <3>1. r - l \in Nat /\ over \in [1 .. r - l -> Edge \X Edge]
      BY <1>1, <2>1, SMTT(30)
    <3> QED
      BY <3>1
  <2>3. ASSUME NEW i \in 1 .. r - l, NEW j \in 1 .. r - l, over[i] = over[j]
        PROVE  i = j
    <3>1. s[r - i] = s[r - j]
      BY <2>1, <2>3
    <3>2. r - i = r - j
      BY <1>2, <2>1, <3>1
    <3> QED
      BY <1>1, <3>2
  <2>4. ASSUME NEW k \in l .. r - 1
        PROVE  r - k \in 1 .. r - l /\ over[r - k] = <<s[k], s[r]>>
    <3>1. r - k \in 1 .. r - l /\ r - (r - k) = k
      BY <1>1
    <3> QED
      BY <2>1, <3>1
  <2> HIDE DEF over
  <2>5. Range(over) = new
    <3>1. ASSUME NEW p \in Range(over)
          PROVE  p \in new
      BY <2>1, <2>2 DEF Range
    <3>2. ASSUME NEW p \in new
          PROVE  p \in Range(over)
      BY <2>2, <2>4 DEF Range
    <3> QED
      BY <3>1, <3>2
  <2> QED
    BY <2>2, <2>3, <2>5 DEF ListsOnce
<1>9. Swapped(s) \cap new = {}
  <2> HIDE DEF new
  <2> QED
    BY <1>5
<1> HIDE DEF over, new
<1>10. ListsOnce(list \o over, Swapped(s) \cup new)
  BY <1>8, <1>9, ListsBoth
<1> QED
  BY <1>7, <1>10 DEF over

-----------------------------------------------------------------------------
(* The begin and the end of a pass.                                        *)

LEMMA NothingUnmerged == \A i, j \in 1 .. EdgeCount : ~Unmerged(NoMerge, i, j)
BY DEF Unmerged, NoMerge

\* A merge that has nothing left to compare has made one run of two: the start
\* of the right one is the last start before its end.
LEMMA MergeEnds ==
  ASSUME TypeInv, NEW s, NEW c \in [left : Int, right : Int, right_end : Int],
         NEW middle, MergeOK(s, c, starts, middle),
         ~(c.left < c.right /\ c.right < c.right_end)
  PROVE  /\ Max({b \in starts : b < c.right_end}) = middle
         /\ \A i, j \in 1 .. EdgeCount : ~Unmerged(c, i, j)
         /\ RunsOK(s, NoMerge, starts \ {middle})
<1>1. EdgeCount \in Nat /\ \A b \in starts : b \in 1 .. EdgeCount
  BY Sizes DEF TypeInv
<1>2. /\ c.left \in Int /\ c.right \in Int /\ c.right_end \in Int
      /\ middle \in starts /\ middle < c.right_end
      /\ c.left <= c.right /\ c.right <= c.right_end
      /\ \A b \in starts : b <= middle \/ b >= c.right_end
      /\ RunsOK(s, c, starts \ {middle})
  BY DEF MergeOK
<1>3. Max({b \in starts : b < c.right_end}) = middle
  <2> DEFINE earlier == {b \in starts : b < c.right_end}
  <2>1. /\ middle \in earlier
        /\ \A b \in earlier : b \in Int /\ middle >= b
    BY <1>1, <1>2
  <2>2. Max(earlier) = CHOOSE b \in earlier : \A m \in earlier : b >= m
    BY DEF Max
  <2> HIDE DEF earlier
  <2>3. Max(earlier) \in earlier /\ \A m \in earlier : Max(earlier) >= m
    BY <2>1, <2>2
  <2>4. Max(earlier) = middle
    BY <2>1, <2>3
  <2> QED
    BY <2>4 DEF earlier
<1>4. ASSUME NEW i \in 1 .. EdgeCount, NEW j \in 1 .. EdgeCount
      PROVE  ~Unmerged(c, i, j)
  BY <1>1, <1>2 DEF Unmerged
<1>5. RunsOK(s, NoMerge, starts \ {middle})
  BY <1>2, <1>4, NothingUnmerged DEF RunsOK
<1> QED
  BY <1>3, <1>4, <1>5

\* There is no run after the end.
LEMMA NoRunAfterEnd ==
  ASSUME TypeInv
  PROVE  RunAfter(End) = End
<1>1. EdgeCount \in Nat /\ (\A b \in starts : b \in 1 .. EdgeCount) /\ End = EdgeCount + 1
  BY Sizes DEF TypeInv, End
<1>2. {b \in starts : b > End} = {}
  BY <1>1
<1>3. RunAfter(End) = CHOOSE n \in {End} : \A m \in {End} : n <= m
  BY <1>2 DEF RunAfter, Min
<1> QED
  BY <1>1, <1>3

\* Edges whose x nowhere falls are in the order of their x.
LEMMA MonotoneRun ==
  ASSUME TypeInv, NEW i \in 1 .. EdgeCount, NEW j \in 1 .. EdgeCount, i < j,
         \A k \in i + 1 .. j : ~(top_x[k] < top_x[k - 1])
  PROVE  Before(i, j)
<1> DEFINE Lower == {k \in i .. j : top_x[k] < top_x[i]}
<1>1. EdgeCount \in Nat /\ \A k \in 1 .. EdgeCount : top_x[k] \in Int
  BY Sizes
<1>2. Lower = {}
  <2> SUFFICES ASSUME Lower # {}
               PROVE  FALSE
    OBVIOUS
  <2>1. Lower \subseteq Nat
    BY <1>1
  <2>2. PICK k \in Lower : \A m \in Lower : k <= m
    BY <2>1, Least
  <2>3. /\ k \in i + 1 .. j /\ k - 1 \in i .. j /\ ~(k <= k - 1)
        /\ k \in 1 .. EdgeCount /\ k - 1 \in 1 .. EdgeCount /\ top_x[k] < top_x[i]
    BY <1>1
  <2>4. k - 1 \notin Lower
    BY <2>2, <2>3
  <2>5. ~(top_x[k - 1] < top_x[i]) /\ ~(top_x[k] < top_x[k - 1])
    BY <2>3, <2>4
  <2>6. top_x[k] \in Int /\ top_x[k - 1] \in Int /\ top_x[i] \in Int
    BY <1>1, <2>3
  <2> QED
    BY <2>3, <2>5, <2>6
<1>3. ~(top_x[j] < top_x[i])
  BY <1>1, <1>2
<1> QED
  BY <1>1, <1>3 DEF Before

\* The unit runs and the monotone runs of the list below are in order.
LEMMA RunsOfTheSchedule ==
  ASSUME TypeInv, HasInversion, NEW s, AsBelow(s), NEW B, B \in {Edge, MonotoneStarts}
  PROVE  B \subseteq 1 .. EdgeCount /\ 1 \in B /\ B # {1} /\ RunsOK(s, NoMerge, B)
<1>1. EdgeCount \in Nat /\ Edge = 1 .. EdgeCount /\ \A k \in 1 .. EdgeCount : s[k] = k
  BY Sizes DEF AsBelow
<1>2. PICK i \in 1 .. EdgeCount - 1 : top_x[i + 1] < top_x[i]
  BY DEF HasInversion
<1>3. /\ 1 \in 1 .. EdgeCount /\ i + 1 \in 1 .. EdgeCount /\ i + 1 # 1
      /\ i + 1 \in 2 .. EdgeCount /\ (i + 1) - 1 = i
  BY <1>1
<1>4. B \subseteq 1 .. EdgeCount /\ 1 \in B /\ i + 1 \in B
  <2>1. CASE B = Edge
    BY <1>1, <1>3, <2>1
  <2>2. CASE B = MonotoneStarts
    BY <1>1, <1>2, <1>3, <2>2 DEF MonotoneStarts
  <2> QED
    BY <2>1, <2>2
<1>5. RunsOK(s, NoMerge, B)
  <2> SUFFICES ASSUME NEW a \in 1 .. EdgeCount, NEW b \in 1 .. EdgeCount, a < b
               PROVE  IF Divided(B, a, b) THEN s[a] < s[b] ELSE Before(s[a], s[b])
    BY NothingUnmerged DEF RunsOK
  <2>1. s[a] = a /\ s[b] = b
    BY <1>1
  <2>2. CASE Divided(B, a, b)
    BY <2>1, <2>2
  <2>3. CASE ~Divided(B, a, b)
    <3>1. ASSUME NEW k \in a + 1 .. b
          PROVE  ~(top_x[k] < top_x[k - 1])
      <4>1. a < k /\ k <= b /\ k \in 2 .. EdgeCount /\ k \in 1 .. EdgeCount
        BY <1>1
      <4>2. k \notin B
        BY <2>3, <4>1 DEF Divided
      <4>3. B = MonotoneStarts
        BY <1>1, <4>1, <4>2
      <4> QED
        BY <4>1, <4>2, <4>3 DEF MonotoneStarts
    <3>2. Before(a, b)
      BY <3>1, MonotoneRun
    <3> QED
      BY <2>1, <2>3, <3>2
  <2> QED
    BY <2>2, <2>3
<1> QED
  BY <1>3, <1>4, <1>5

\* With one run, or with runs of which none begins before the end of the last,
\* the list is in order.
LEMMA RunsAreDone ==
  ASSUME TypeInv, RunsOK(sel, NoMerge, starts), starts = {1} \/ RunsAreOrdered
  PROVE  InOrder(sel)
<1>1. EdgeCount \in Nat /\ IsOrder(sel)
  BY Sizes DEF TypeInv
<1>2. \A k \in 1 .. EdgeCount : sel[k] \in 1 .. EdgeCount /\ top_x[sel[k]] \in Int
  BY <1>1, OrderFields, Sizes
<1>3. ASSUME NEW i \in 1 .. EdgeCount - 1
      PROVE  Before(sel[i], sel[i + 1])
  <2>1. /\ i \in 1 .. EdgeCount /\ i + 1 \in 1 .. EdgeCount /\ i < i + 1
        /\ (i + 1) - 1 = i /\ i + 1 # 1
    BY <1>1
  <2>2. IF Divided(starts, i, i + 1) THEN sel[i] < sel[i + 1] ELSE Before(sel[i], sel[i + 1])
    BY <2>1, NothingUnmerged DEF RunsOK
  <2>3. CASE Divided(starts, i, i + 1)
    <3>1. PICK b \in starts : i < b /\ b <= i + 1
      BY <2>3 DEF Divided
    <3>2. b = i + 1
      <4>1. b \in Int
        <5>1. \A a \in starts : a \in 1 .. EdgeCount
          BY DEF TypeInv
        <5> QED
          BY <1>1, <5>1
      <4> QED
        BY <3>1, <4>1
    <3>3. RunsAreOrdered
      BY <2>1, <3>2
    <3>4. top_x[sel[i]] <= top_x[sel[i + 1]]
      BY <2>1, <3>2, <3>3 DEF RunsAreOrdered
    <3>5. top_x[sel[i]] < top_x[sel[i + 1]] \/ top_x[sel[i]] = top_x[sel[i + 1]]
      BY <1>2, <2>1, <3>4
    <3> QED
      BY <2>2, <2>3, <3>5 DEF Before
  <2>4. CASE ~Divided(starts, i, i + 1)
    BY <2>2, <2>4
  <2> QED
    BY <2>3, <2>4
<1> QED
  BY <1>1, <1>3, NeighboursInOrder

-----------------------------------------------------------------------------
(* The sort and the search change the order of the list only.              *)

LEMMA ListMoved ==
  ASSUME NEW P, NEW list, ListsOnce(list, P),
         NEW from \in 1 .. Len(list), NEW to \in 1 .. Len(list), to <= from
  PROVE  LET t == InsertAt(RemoveAt(list, from), to, list[from])
         IN  ListsOnce(t, P) /\ Len(t) = Len(list)
<1> DEFINE t == InsertAt(RemoveAt(list, from), to, list[from])
<1>1. /\ list \in Seq(Edge \X Edge) /\ Range(list) = P /\ Len(list) \in Nat
      /\ \A i, j \in 1 .. Len(list) : list[i] = list[j] => i = j
      /\ DOMAIN list = 1 .. Len(list)
  BY DEF ListsOnce
<1>2. /\ t \in Seq(Edge \X Edge) /\ Len(t) = Len(list)
      /\ IsMoved(t, list, to, from, Len(list))
  BY <1>1, MovedAhead
<1> HIDE DEF t
<1>3. Traced(t, list, to, from, Len(list))
  BY <1>1, <1>2, MovedFrom
<1>4. /\ \A i \in 1 .. Len(list) : \E k \in 1 .. Len(list) : CameFrom(i, k, to, from) /\ t[i] = list[k]
      /\ \A k \in 1 .. Len(list) : \E i \in 1 .. Len(list) : CameFrom(i, k, to, from) /\ t[i] = list[k]
  BY <1>3 DEF Traced
<1>5. ASSUME NEW i \in 1 .. Len(list), NEW j \in 1 .. Len(list), t[i] = t[j]
      PROVE  i = j
  <2>1. PICK k \in 1 .. Len(list) : CameFrom(i, k, to, from) /\ t[i] = list[k]
    BY <1>4
  <2>2. PICK m \in 1 .. Len(list) : CameFrom(j, m, to, from) /\ t[j] = list[m]
    BY <1>4
  <2>3. k = m
    BY <1>1, <1>5, <2>1, <2>2
  <2>4. CameFrom(i, k, to, from) /\ CameFrom(j, k, to, from)
    BY <2>1, <2>2, <2>3
  <2>5. i \in Int /\ j \in Int /\ k \in Int /\ to \in Int /\ from \in Int
    OBVIOUS
  <2> QED
    BY <2>4, <2>5 DEF CameFrom
<1>6. Range(t) = P
  <2>1. DOMAIN t = 1 .. Len(list)
    BY <1>2
  <2>2. ASSUME NEW x \in Range(t)
        PROVE  x \in P
    <3>1. PICK i \in 1 .. Len(list) : x = t[i]
      BY <2>1 DEF Range
    <3>2. PICK k \in 1 .. Len(list) : t[i] = list[k]
      BY <1>4
    <3> QED
      BY <1>1, <3>1, <3>2 DEF Range
  <2>3. ASSUME NEW x \in P
        PROVE  x \in Range(t)
    <3>1. PICK k \in 1 .. Len(list) : x = list[k]
      BY <1>1 DEF Range
    <3>2. PICK i \in 1 .. Len(list) : t[i] = list[k]
      BY <1>4
    <3> QED
      BY <2>1, <3>1, <3>2 DEF Range
  <2> QED
    BY <2>2, <2>3
<1> QED
  BY <1>2, <1>5, <1>6 DEF ListsOnce, t

\* Two elements of a list change places.
Exchanged(list, i, j) == [list EXCEPT ![i] = list[j], ![j] = list[i]]

LEMMA ListExchanged ==
  ASSUME NEW P, NEW list, ListsOnce(list, P),
         NEW n \in 1 .. Len(list), NEW i \in n .. Len(list),
         NEW t, t = Exchanged(list, n, i)
  PROVE  /\ ListsOnce(t, P) /\ Len(t) = Len(list)
         /\ PairsFrom(t, n + 1) = PairsFrom(list, n) \ {list[i]}
<1>1. /\ list \in Seq(Edge \X Edge) /\ Range(list) = P /\ Len(list) \in Nat
      /\ \A k, m \in 1 .. Len(list) : list[k] = list[m] => k = m
      /\ DOMAIN list = 1 .. Len(list) /\ list \in [1 .. Len(list) -> Edge \X Edge]
  BY DEF ListsOnce
<1>2. i \in 1 .. Len(list) /\ n <= i
  BY <1>1
<1>3. /\ t \in [1 .. Len(list) -> Edge \X Edge] /\ DOMAIN t = 1 .. Len(list)
      /\ t[n] = list[i] /\ t[i] = list[n]
      /\ \A k \in 1 .. Len(list) : k # n /\ k # i => t[k] = list[k]
  BY <1>1, <1>2 DEF Exchanged
<1>4. t \in Seq(Edge \X Edge) /\ Len(t) = Len(list)
  BY <1>1, <1>3
<1>5. ASSUME NEW k \in 1 .. Len(list), NEW m \in 1 .. Len(list), t[k] = t[m]
      PROVE  k = m
  <2>1. CASE k # n /\ k # i /\ m # n /\ m # i
    BY <1>1, <1>3, <1>5, <2>1
  <2>2. CASE k = n
    BY <1>1, <1>2, <1>3, <1>5, <2>2
  <2>3. CASE k = i
    BY <1>1, <1>2, <1>3, <1>5, <2>3
  <2>4. CASE m = n
    BY <1>1, <1>2, <1>3, <1>5, <2>4
  <2>5. CASE m = i
    BY <1>1, <1>2, <1>3, <1>5, <2>5
  <2> QED
    BY <2>1, <2>2, <2>3, <2>4, <2>5
<1>6. Range(t) = P
  <2>1. ASSUME NEW k \in 1 .. Len(list)
        PROVE  t[k] \in Range(list) /\ list[k] \in Range(t)
    <3>1. CASE k # n /\ k # i
      BY <1>1, <1>3, <3>1 DEF Range
    <3>2. CASE k = n
      BY <1>1, <1>2, <1>3, <3>2 DEF Range
    <3>3. CASE k = i
      BY <1>1, <1>2, <1>3, <3>3 DEF Range
    <3> QED
      BY <3>1, <3>2, <3>3
  <2>2. Range(t) = Range(list)
    <3>1. ASSUME NEW e \in Range(t)
          PROVE  e \in Range(list)
      <4>1. PICK k \in 1 .. Len(list) : e = t[k]
        BY <1>3 DEF Range
      <4> QED
        BY <2>1, <4>1
    <3>2. ASSUME NEW e \in Range(list)
          PROVE  e \in Range(t)
      <4>1. PICK k \in 1 .. Len(list) : e = list[k]
        BY <1>1 DEF Range
      <4> QED
        BY <2>1, <4>1
    <3> QED
      BY <3>1, <3>2
  <2> QED
    BY <1>1, <2>2
<1>7. ASSUME NEW x \in {t[k] : k \in n + 1 .. Len(t)}
      PROVE  x \in {list[k] : k \in n .. Len(list)} /\ x # list[i]
  <2>1. PICK k \in n + 1 .. Len(list) : x = t[k]
    BY <1>4
  <2>2. k \in 1 .. Len(list) /\ k \in n .. Len(list) /\ k # n /\ n \in n .. Len(list) /\ n \in 1 .. Len(list)
    BY <1>1
  <2>3. CASE k = i
    BY <1>1, <1>2, <1>3, <2>1, <2>2, <2>3
  <2>4. CASE k # i
    BY <1>1, <1>2, <1>3, <2>1, <2>2, <2>4
  <2> QED
    BY <2>3, <2>4
<1>8. ASSUME NEW k \in n .. Len(list), list[k] # list[i]
      PROVE  list[k] \in {t[m] : m \in n + 1 .. Len(t)}
  <2>1. k \in 1 .. Len(list) /\ k # i
    BY <1>1, <1>8
  <2>2. CASE k = n
    <3>1. i \in n + 1 .. Len(t) /\ t[i] = list[k]
      BY <1>1, <1>2, <1>3, <1>4, <2>1, <2>2
    <3> QED
      BY <3>1
  <2>3. CASE k # n
    <3>1. k \in n + 1 .. Len(t) /\ t[k] = list[k]
      BY <1>1, <1>3, <1>4, <2>1, <2>3
    <3> QED
      BY <3>1
  <2> QED
    BY <2>2, <2>3
<1>9. PairsFrom(t, n + 1) = PairsFrom(list, n) \ {list[i]}
  BY <1>7, <1>8 DEF PairsFrom
<1> QED
  BY <1>4, <1>5, <1>6, <1>9 DEF ListsOnce

-----------------------------------------------------------------------------
(* The processing.                                                         *)

\* As long as a pair has to cross, two neighbours have: otherwise the x of the
\* edges would nowhere fall.
LEMMA NeighboursToCross ==
  ASSUME TypeInv, NEW a, IsOrder(a), CrossedOnly(a), ToCross(a) # {}
  PROVE  \E k \in 1 .. EdgeCount - 1 : <<a[k], a[k + 1]>> \in ToCross(a)
<1>1. EdgeCount \in Nat /\ Edge = 1 .. EdgeCount
  BY Sizes
<1>2. \A k \in 1 .. EdgeCount : a[k] \in 1 .. EdgeCount /\ top_x[a[k]] \in Int
  BY OrderFields, Sizes
<1>3. PICK p \in ToCross(a) : TRUE
  OBVIOUS
<1>4. PICK i, j \in 1 .. EdgeCount : i < j /\ a[i] = p[1] /\ a[j] = p[2]
  BY DEF ToCross
<1>5. top_x[a[j]] < top_x[a[i]]
  BY <1>4 DEF ToCross, Crossings
<1> DEFINE Lower == {k \in i .. j : top_x[a[k]] < top_x[a[i]]}
<1>6. Lower \subseteq Nat /\ j \in Lower
  BY <1>1, <1>4, <1>5
<1>7. PICK k \in Lower : \A m \in Lower : k <= m
  BY <1>6, Least
<1>8. /\ k \in i + 1 .. j /\ k - 1 \in i .. j /\ ~(k <= k - 1)
      /\ k - 1 \in 1 .. EdgeCount - 1 /\ k - 1 \in 1 .. EdgeCount /\ (k - 1) + 1 = k
      /\ k \in 1 .. EdgeCount /\ top_x[a[k]] < top_x[a[i]] /\ k - 1 < k
  BY <1>1, <1>2
<1>9. k - 1 \notin Lower
  BY <1>7, <1>8
<1>10. top_x[a[k]] < top_x[a[k - 1]]
  <2>1. ~(top_x[a[k - 1]] < top_x[a[i]])
    BY <1>8, <1>9
  <2>2. top_x[a[k]] \in Int /\ top_x[a[k - 1]] \in Int /\ top_x[a[i]] \in Int
    BY <1>2, <1>8
  <2> QED
    BY <1>8, <2>1, <2>2
<1> HIDE DEF Lower
<1>11. a[k - 1] < a[k]
  <2>1. ~(top_x[a[k - 1]] < top_x[a[k]])
    BY <1>2, <1>8, <1>10
  <2> QED
    BY <1>8, <2>1 DEF CrossedOnly
<1> DEFINE q == <<a[k - 1], a[(k - 1) + 1]>>
<1>12. q \in Edge \X Edge /\ q[1] = a[k - 1] /\ q[2] = a[k]
  BY <1>1, <1>2, <1>8
<1> HIDE DEF q
<1>13. q \in Crossings
  BY <1>10, <1>11, <1>12 DEF Crossings
<1>14. q \in ToCross(a)
  BY <1>8, <1>12, <1>13 DEF ToCross
<1> QED
  BY <1>8, <1>14 DEF q

\* Two neighbours that have to cross change places: they have crossed, and
\* nothing else has changed its order.
LEMMA PairCrosses ==
  ASSUME TypeInv, NEW a, IsOrder(a), CrossedOnly(a),
         NEW x \in 1 .. EdgeCount - 1, <<a[x], a[x + 1]>> \in ToCross(a),
         NEW b, b = Exchanged(a, x, x + 1)
  PROVE  /\ IsOrder(b) /\ CrossedOnly(b)
         /\ ToCross(b) = ToCross(a) \ {<<a[x], a[x + 1]>>}
<1> DEFINE y == x + 1
           q == <<a[x], a[y]>>
<1>1. EdgeCount \in Nat /\ Edge = 1 .. EdgeCount
  BY Sizes
<1>2. x \in 1 .. EdgeCount /\ y \in 1 .. EdgeCount /\ x <= y /\ x \in Int /\ y \in Int
  BY <1>1
<1>3. /\ \A i \in 1 .. EdgeCount : a[i] \in 1 .. EdgeCount
      /\ \A i, j \in 1 .. EdgeCount : a[i] = a[j] => i = j
      /\ a \in [1 .. EdgeCount -> 1 .. EdgeCount]
  BY OrderFields DEF IsOrder
<1>4. q \in ToCross(a) /\ q \in Crossings /\ a[x] < a[y] /\ top_x[a[y]] < top_x[a[x]]
  BY DEF ToCross, Crossings
<1>5. b \in [1 .. EdgeCount -> 1 .. EdgeCount] /\ IsMoved(b, a, x, y, EdgeCount)
  <2>1. /\ b \in [1 .. EdgeCount -> 1 .. EdgeCount] /\ b[x] = a[y] /\ b[y] = a[x]
        /\ \A i \in 1 .. EdgeCount : i # x /\ i # y => b[i] = a[i]
    BY <1>2, <1>3 DEF Exchanged
  <2>2. ASSUME NEW i \in 1 .. EdgeCount
        PROVE  b[i] = IF i < x \/ i > y THEN a[i] ELSE IF i = x THEN a[y] ELSE a[i - 1]
    <3>1. CASE i = x
      BY <1>2, <2>1, <3>1
    <3>2. CASE i = y
      <4>1. i - 1 = x /\ i # x /\ ~(i < x \/ i > y)
        BY <1>2, <3>2
      <4> QED
        BY <2>1, <3>2, <4>1
    <3>3. CASE i # x /\ i # y
      <4>1. i < x \/ i > y
        BY <1>1, <1>2, <3>3
      <4> QED
        BY <2>1, <3>3, <4>1
    <3> QED
      BY <3>1, <3>2, <3>3
  <2> QED
    BY <2>1, <2>2 DEF IsMoved
<1>6. IsOrder(b)
  BY <1>1, <1>2, <1>5, MovedOrder
<1>7. Traced(b, a, x, y, EdgeCount)
  BY <1>1, <1>2, <1>5, MovedFrom
<1>8. /\ \A i \in 1 .. EdgeCount : \E k \in 1 .. EdgeCount : CameFrom(i, k, x, y) /\ b[i] = a[k]
      /\ \A k \in 1 .. EdgeCount : \E i \in 1 .. EdgeCount : CameFrom(i, k, x, y) /\ b[i] = a[k]
  BY <1>7 DEF Traced
<1>9. ASSUME NEW i \in 1 .. EdgeCount, NEW j \in 1 .. EdgeCount,
             NEW k \in 1 .. EdgeCount, NEW m \in 1 .. EdgeCount,
             CameFrom(i, k, x, y), CameFrom(j, m, x, y)
      PROVE  /\ i < j => k < m \/ (k = y /\ m = x)
             /\ k < m => i < j \/ (k = x /\ m = y)
             /\ k = x /\ m = y => ~(i < j)
  <2>1. i \in Int /\ j \in Int /\ k \in Int /\ m \in Int /\ x \in Int /\ y = x + 1
    BY <1>1
  <2> QED
    BY <1>9, <2>1 DEF CameFrom
<1> HIDE DEF y, q
<1>10. CrossedOnly(b)
  <2> SUFFICES ASSUME NEW i \in 1 .. EdgeCount, NEW j \in 1 .. EdgeCount, i < j
               PROVE  b[i] < b[j] \/ top_x[b[i]] < top_x[b[j]]
    BY DEF CrossedOnly
  <2>1. PICK k \in 1 .. EdgeCount : CameFrom(i, k, x, y) /\ b[i] = a[k]
    BY <1>8
  <2>2. PICK m \in 1 .. EdgeCount : CameFrom(j, m, x, y) /\ b[j] = a[m]
    BY <1>8
  <2>3. k < m \/ (k = y /\ m = x)
    BY <1>9, <2>1, <2>2
  <2> QED
    BY <1>4, <2>1, <2>2, <2>3 DEF CrossedOnly
<1>11. ASSUME NEW p \in ToCross(b)
       PROVE  p \in ToCross(a) /\ p # q
  <2>1. p \in Crossings /\ p[1] < p[2] /\ p[1] \in Int /\ p[2] \in Int
    BY <1>1 DEF ToCross, Crossings
  <2>2. PICK i, j \in 1 .. EdgeCount : i < j /\ b[i] = p[1] /\ b[j] = p[2]
    BY DEF ToCross
  <2>3. PICK k \in 1 .. EdgeCount : CameFrom(i, k, x, y) /\ b[i] = a[k]
    BY <1>8
  <2>4. PICK m \in 1 .. EdgeCount : CameFrom(j, m, x, y) /\ b[j] = a[m]
    BY <1>8
  <2>5. k < m \/ (k = y /\ m = x)
    BY <1>9, <2>2, <2>3, <2>4
  <2>6. ~(k = y /\ m = x)
    <3> SUFFICES ASSUME k = y, m = x
                 PROVE  FALSE
      OBVIOUS
    <3>1. a[y] < a[x] /\ a[x] \in Int /\ a[y] \in Int
      BY <1>1, <1>2, <1>3, <2>1, <2>2, <2>3, <2>4
    <3> QED
      BY <1>4, <3>1
  <2>7. p \in ToCross(a)
    BY <2>1, <2>2, <2>3, <2>4, <2>5, <2>6 DEF ToCross
  <2>8. ~(k = x /\ m = y)
    BY <1>9, <2>2, <2>3, <2>4
  <2>9. p # q
    <3> SUFFICES ASSUME p = q
                 PROVE  FALSE
      OBVIOUS
    <3>1. p[1] = a[x] /\ p[2] = a[y]
      BY DEF q
    <3>2. a[k] = a[x] /\ a[m] = a[y]
      BY <2>2, <2>3, <2>4, <3>1
    <3>3. k = x /\ m = y
      BY <1>2, <1>3, <3>2
    <3> QED
      BY <2>8, <3>3
  <2> QED
    BY <2>7, <2>9
<1>12. ASSUME NEW p \in ToCross(a), p # q
       PROVE  p \in ToCross(b)
  <2>1. p \in Crossings /\ p \in Edge \X Edge
    BY DEF ToCross, Crossings
  <2>2. PICK k, m \in 1 .. EdgeCount : k < m /\ a[k] = p[1] /\ a[m] = p[2]
    BY DEF ToCross
  <2>3. PICK i \in 1 .. EdgeCount : CameFrom(i, k, x, y) /\ b[i] = a[k]
    BY <1>8
  <2>4. PICK j \in 1 .. EdgeCount : CameFrom(j, m, x, y) /\ b[j] = a[m]
    BY <1>8
  <2>5. ~(k = x /\ m = y)
    <3>1. p = <<p[1], p[2]>>
      BY <2>1
    <3> QED
      BY <1>12, <2>2, <3>1 DEF q
  <2>6. i < j
    BY <1>9, <2>2, <2>3, <2>4, <2>5
  <2> QED
    BY <2>1, <2>2, <2>3, <2>4, <2>6 DEF ToCross
<1>13. ToCross(b) = ToCross(a) \ {q}
  BY <1>11, <1>12
<1> QED
  BY <1>6, <1>10, <1>13 DEF y, q

LEMMA NothingToCross ==
  ASSUME TypeInv, NEW a, IsOrder(a), CrossedOnly(a), ToCross(a) = {}
  PROVE  InOrder(a)
<1> SUFFICES ASSUME NEW i \in 1 .. EdgeCount, NEW j \in 1 .. EdgeCount, i < j
             PROVE  Before(a[i], a[j])
  BY DEF InOrder
<1>1. /\ a[i] \in 1 .. EdgeCount /\ a[j] \in 1 .. EdgeCount /\ Edge = 1 .. EdgeCount
      /\ top_x[a[i]] \in Int /\ top_x[a[j]] \in Int
  BY OrderFields, Sizes
<1>2. CASE top_x[a[i]] < top_x[a[j]]
  BY <1>2 DEF Before
<1>3. CASE ~(top_x[a[i]] < top_x[a[j]])
  <2> DEFINE q == <<a[i], a[j]>>
  <2>1. a[i] < a[j]
    BY <1>3 DEF CrossedOnly
  <2>2. q \in Edge \X Edge /\ q[1] = a[i] /\ q[2] = a[j]
    BY <1>1
  <2> HIDE DEF q
  <2>3. q \notin Crossings
    BY <2>2 DEF ToCross
  <2>4. ~(top_x[a[j]] < top_x[a[i]])
    BY <2>1, <2>2, <2>3 DEF Crossings
  <2> QED
    BY <1>1, <2>1, <2>4 DEF Before
<1> QED
  BY <1>2, <1>3

\* The list below has everything to cross.
LEMMA AllToCross ==
  ASSUME TypeInv, NEW a, AsBelow(a)
  PROVE  CrossedOnly(a) /\ ToCross(a) = Crossings
<1>1. EdgeCount \in Nat /\ Edge = 1 .. EdgeCount /\ \A k \in 1 .. EdgeCount : a[k] = k
  BY Sizes DEF AsBelow
<1>2. CrossedOnly(a)
  BY <1>1 DEF CrossedOnly
<1>3. ASSUME NEW p \in Crossings
      PROVE  p \in ToCross(a)
  <2>1. p[1] \in 1 .. EdgeCount /\ p[2] \in 1 .. EdgeCount /\ p[1] < p[2]
    BY <1>1 DEF Crossings
  <2>2. a[p[1]] = p[1] /\ a[p[2]] = p[2]
    BY <1>1, <2>1
  <2> QED
    BY <2>1, <2>2 DEF ToCross
<1> QED
  BY <1>2, <1>3 DEF ToCross

LEMMA NoInversion ==
  ASSUME TypeInv, ~HasInversion, NEW a, AsBelow(a)
  PROVE  InOrder(a)
<1>1. EdgeCount \in Nat /\ Edge = 1 .. EdgeCount /\ \A k \in 1 .. EdgeCount : a[k] = k
  BY Sizes DEF AsBelow
<1>2. IsOrder(a)
  BY <1>1, BelowIsAnOrder
<1>3. ASSUME NEW i \in 1 .. EdgeCount - 1
      PROVE  Before(a[i], a[i + 1])
  <2>1. i \in 1 .. EdgeCount /\ i + 1 \in 1 .. EdgeCount /\ i < i + 1
    BY <1>1
  <2>2. ~(top_x[i + 1] < top_x[i]) /\ top_x[i] \in Int /\ top_x[i + 1] \in Int
    BY <2>1, Sizes DEF HasInversion
  <2>3. a[i] = i /\ a[i + 1] = i + 1
    BY <1>1, <2>1
  <2>4. Before(i, i + 1)
    BY <2>1, <2>2 DEF Before
  <2> QED
    BY <2>3, <2>4
<1> QED
  BY <1>2, <1>3, NeighboursInOrder

-----------------------------------------------------------------------------
(* Every step keeps the invariant.                                         *)

\* The x at the top never change, nor what is said in terms of them.
LEMMA SameEdges ==
  ASSUME top_x' = top_x
  PROVE  /\ EdgeCount' = EdgeCount
         /\ HasInversion' <=> HasInversion
         /\ IsOrder(sel)' <=> IsOrder(sel')
         /\ IsOrder(actives)' <=> IsOrder(actives')
         /\ AsBelow(sel)' <=> AsBelow(sel')
         /\ AsBelow(actives)' <=> AsBelow(actives')
         /\ InOrder(sel)' <=> InOrder(sel')
         /\ InOrder(actives)' <=> InOrder(actives')
         /\ ListsOnce(nodes, Swapped(sel))' <=> ListsOnce(nodes', Swapped(sel'))
         /\ ListsOnce(nodes, Crossings)' <=> ListsOnce(nodes', Crossings)
         /\ RunsOK(sel, cursor, starts)' <=> RunsOK(sel', cursor', starts')
         /\ CrossedOnly(actives)' <=> CrossedOnly(actives')
         /\ ToCross(actives)' = ToCross(actives')
<1>1. EdgeCount' = EdgeCount /\ Edge' = Edge
  BY DEF EdgeCount, Edge
<1>2. /\ HasInversion' <=> HasInversion
      /\ IsOrder(sel)' <=> IsOrder(sel')
      /\ IsOrder(actives)' <=> IsOrder(actives')
      /\ AsBelow(sel)' <=> AsBelow(sel')
      /\ AsBelow(actives)' <=> AsBelow(actives')
  BY <1>1 DEF HasInversion, IsOrder, AsBelow
<1>3. /\ InOrder(sel)' <=> InOrder(sel')
      /\ InOrder(actives)' <=> InOrder(actives')
      /\ CrossedOnly(actives)' <=> CrossedOnly(actives')
  BY <1>1 DEF InOrder, Before, CrossedOnly
<1>4. Crossings' = Crossings
  BY <1>1 DEF Crossings
<1>5. Swapped(sel)' = Swapped(sel')
  BY <1>1 DEF Swapped
<1>6. ToCross(actives)' = ToCross(actives')
  BY <1>1, <1>4 DEF ToCross
<1>7. /\ ListsOnce(nodes, Swapped(sel))' <=> ListsOnce(nodes', Swapped(sel'))
      /\ ListsOnce(nodes, Crossings)' <=> ListsOnce(nodes', Crossings)
  BY <1>1, <1>4, <1>5 DEF ListsOnce
<1>8. RunsOK(sel, cursor, starts)' <=> RunsOK(sel', cursor', starts')
  BY <1>1 DEF RunsOK, Divided, Unmerged, Before
<1> QED
  BY <1>1, <1>2, <1>3, <1>6, <1>7, <1>8

LEMMA SameMerge ==
  ASSUME top_x' = top_x
  PROVE  \A middle : MergeOK(sel, cursor, starts, middle)' <=> MergeOK(sel', cursor', starts', middle)
<1>1. EdgeCount' = EdgeCount /\ End' = End
  BY DEF EdgeCount, End
<1> QED
  BY <1>1 DEF MergeOK, RunsOK, Divided, Unmerged, Before

LEMMA NothingListed == ListsOnce(<<>>, {})
<1>1. <<>> \in Seq(Edge \X Edge) /\ Len(<<>>) = 0 /\ Range(<<>>) = {}
  BY DEF Range
<1> QED
  BY <1>1 DEF ListsOnce

LEMMA InitInv == Init => IInv
<1> SUFFICES ASSUME Init
             PROVE  IInv
  OBVIOUS
<1>1. PICK n \in 0 .. MaxEdges : top_x \in [1 .. n -> 1 .. MaxX]
  BY DEF Init
<1>2. n \in Nat /\ top_x \in [1 .. n -> Int]
  BY <1>1, IntersectionAssumption
<1>3. top_x \in Seq(Int) /\ Len(top_x) = n /\ DOMAIN top_x = 1 .. n
  BY <1>2
<1>4. EdgeCount \in Nat /\ Edge = 1 .. EdgeCount
  BY <1>2, <1>3 DEF EdgeCount, Edge
<1>5. AsBelow(sel) /\ AsBelow(actives)
  BY <1>4 DEF Init, AsBelow
<1>6. IsOrder(sel) /\ IsOrder(actives)
  BY <1>4, <1>5, BelowIsAnOrder
<1>7. TypeInv
  BY <1>3, <1>6 DEF Init, TypeInv, NoMerge
<1>8. SortInv
  BY <1>5 DEF Init, SortInv
<1>9. ProcessInv
  BY DEF Init, ProcessInv
<1> QED
  BY <1>7, <1>8, <1>9 DEF IInv

LEMMA NothingToDoStep == IInv /\ NothingToDo => IInv'
<1> SUFFICES ASSUME IInv, NothingToDo
             PROVE  IInv'
  OBVIOUS
<1> USE DEF NothingToDo
<1>1. TypeInv /\ SortInv /\ ProcessInv
  BY DEF IInv
<1>2. InOrder(sel') /\ InOrder(actives')
  BY <1>1, NoInversion DEF SortInv
<1>3. TypeInv'
  BY <1>1, SameEdges DEF TypeInv
<1>4. SortInv'
  BY <1>1, <1>2, SameEdges DEF SortInv
<1>5. ProcessInv'
  BY <1>1, <1>2, SameEdges DEF ProcessInv
<1> QED
  BY <1>3, <1>4, <1>5 DEF IInv

LEMMA ScheduleStep == IInv /\ Schedule => IInv'
<1> SUFFICES ASSUME IInv, Schedule
             PROVE  IInv'
  OBVIOUS
<1> USE DEF Schedule
<1>1. TypeInv /\ SortInv /\ ProcessInv
  BY DEF IInv
<1>2. starts' \in {Edge, MonotoneStarts} /\ AsBelow(sel) /\ nodes = <<>>
  BY <1>1 DEF SortInv
<1>3. starts' \subseteq 1 .. EdgeCount /\ 1 \in starts' /\ starts' # {1} /\ RunsOK(sel', NoMerge, starts')
  BY <1>1, <1>2, RunsOfTheSchedule
<1>4. ListsOnce(nodes', Swapped(sel'))
  BY <1>1, <1>2, Sizes, BelowIsAnOrder, NothingListed
<1>5. TypeInv'
  BY <1>1, <1>3, SameEdges DEF TypeInv
<1>6. SortInv'
  BY <1>1, <1>3, <1>4, SameEdges DEF SortInv
<1>7. ProcessInv'
  BY <1>1 DEF ProcessInv
<1> QED
  BY <1>5, <1>6, <1>7 DEF IInv

LEMMA BeginPassStep == IInv /\ BeginPass => IInv'
<1> SUFFICES ASSUME IInv, BeginPass
             PROVE  IInv'
  OBVIOUS
<1> USE DEF BeginPass
<1>1. TypeInv /\ SortInv /\ ProcessInv
  BY DEF IInv
<1>2. EdgeCount \in Nat /\ (\A b \in starts : b \in 1 .. EdgeCount) /\ End = EdgeCount + 1
  BY <1>1, Sizes DEF TypeInv, End
<1>3. cursor = NoMerge /\ 1 \in starts /\ starts # {1} /\ RunsOK(sel, NoMerge, starts)
  BY <1>1 DEF SortInv
<1>4. RunAfter(1) # End
  <2>1. PICK b \in starts : b # 1
    BY <1>3
  <2>2. 1 \in 1 .. EdgeCount /\ b \in 1 .. EdgeCount
    BY <1>2, <1>3
  <2>3. b <= 1 \/ b >= RunAfter(1)
    BY <1>1, <2>2, NextRun
  <2> QED
    BY <1>2, <2>1, <2>2, <2>3
<1>5. \A b \in starts : b > 1 => b \in starts
  OBVIOUS
<1>6. \A i, j \in 1 .. EdgeCount : ~Unmerged(NoMerge, i, j)
  BY NothingUnmerged
<1>7. /\ RunAfter(1) \in starts /\ MergeOK(sel, MergeAt(1), starts, RunAfter(1))
      /\ MergeAt(1) \in [left : Int, right : Int, right_end : Int]
  BY <1>1, <1>3, <1>4, <1>5, <1>6, MergeBegins
<1>8. MergeOK(sel', cursor', starts', RunAfter(1))
  BY <1>7
<1>9. \E middle \in starts' : MergeOK(sel, cursor, starts, middle)'
  BY <1>7, <1>8, SameMerge
<1>10. TypeInv'
  BY <1>1, <1>7, SameEdges DEF TypeInv
<1>11. SortInv'
  BY <1>1, <1>9, SameEdges DEF SortInv
<1>12. ProcessInv'
  BY <1>1 DEF ProcessInv
<1> QED
  BY <1>10, <1>11, <1>12 DEF IInv

LEMMA MoveStep == IInv /\ MoveRightEdgeBeforeLeft => IInv'
<1> SUFFICES ASSUME IInv, MoveRightEdgeBeforeLeft
             PROVE  IInv'
  OBVIOUS
<1> DEFINE l == cursor.left
           r == cursor.right
<1>1. TypeInv /\ SortInv /\ ProcessInv
  BY DEF IInv
<1>2. /\ pc = "merge" /\ l < r /\ r < cursor.right_end /\ top_x[sel[r]] < top_x[sel[l]]
      /\ nodes' = nodes \o Overtaken
      /\ sel' = InsertAt(RemoveAt(sel, r), l, sel[r])
      /\ cursor' = [cursor EXCEPT !.left = @ + 1, !.right = @ + 1]
      /\ UNCHANGED <<top_x, mode, pc, starts, point, next, actives, succeeded>>
  BY DEF MoveRightEdgeBeforeLeft, Merging, Overtakes
<1>3. PICK middle \in starts : MergeOK(sel, cursor, starts, middle)
  BY <1>1, <1>2 DEF SortInv
<1>4. IsOrder(sel) /\ cursor \in [left : Int, right : Int, right_end : Int]
  BY <1>1 DEF TypeInv
<1>5. l \in 1 .. EdgeCount /\ r \in 1 .. EdgeCount /\ EdgeCount \in Nat /\ l <= r
  BY <1>1, <1>2, <1>3, <1>4, MergePositions
<1>6. sel \in [1 .. EdgeCount -> 1 .. EdgeCount]
  BY <1>4 DEF IsOrder
<1>7. sel \in Seq(1 .. EdgeCount) /\ Len(sel) = EdgeCount
  BY <1>5, <1>6
<1>8. /\ sel' \in Seq(1 .. EdgeCount) /\ Len(sel') = EdgeCount
      /\ IsMoved(sel', sel, l, r, EdgeCount)
  BY <1>2, <1>5, <1>7, MovedAhead
<1>9. sel' \in [1 .. EdgeCount -> 1 .. EdgeCount]
  BY <1>5, <1>8
<1>10. IsOrder(sel')
  BY <1>4, <1>5, <1>8, <1>9, MovedOrder
<1>11. MergeOK(sel', cursor', starts, middle)
  BY <1>1, <1>2, <1>3, <1>4, <1>8, <1>9, MovedRuns
<1>12. ListsOnce(nodes', Swapped(sel'))
  <2>1. \A k \in l .. r - 1 : sel[k] < sel[r]
    <3> SUFFICES ASSUME NEW k \in l .. r - 1
                 PROVE  sel[k] < sel[r]
      OBVIOUS
    <3>1. k \in 1 .. EdgeCount /\ k < r /\ l <= k
      BY <1>5
    <3>2. Unmerged(cursor, k, r)
      BY <1>2, <1>5, <3>1 DEF Unmerged
    <3> QED
      BY <1>3, <1>5, <3>1, <3>2 DEF MergeOK, RunsOK
  <2>2. ListsOnce(nodes, Swapped(sel))
    BY <1>1, <1>2 DEF SortInv
  <2> QED
    BY <1>1, <1>2, <1>4, <1>5, <1>8, <2>1, <2>2, MovedPairs DEF Overtaken
<1>13. cursor' \in [left : Int, right : Int, right_end : Int]
  <2>1. cursor.left + 1 \in Int /\ cursor.right + 1 \in Int
    BY <1>4
  <2> DEFINE v == cursor.left + 1
             u == cursor.right + 1
  <2> HIDE DEF v, u
  <2>2. cursor' = [cursor EXCEPT !.left = v, !.right = u]
    BY <1>2 DEF v, u
  <2>3. v \in Int /\ u \in Int
    BY <2>1 DEF v, u
  <2> QED
    BY <1>4, <2>2, <2>3
<1> HIDE DEF l, r
<1>14. TypeInv'
  BY <1>1, <1>2, <1>10, <1>13, SameEdges DEF TypeInv
<1>15. \E m \in starts' : MergeOK(sel, cursor, starts, m)'
  BY <1>2, <1>11, SameMerge
<1>16. SortInv'
  BY <1>1, <1>2, <1>12, <1>15, SameEdges DEF SortInv
<1>17. ProcessInv'
  BY <1>1, <1>2 DEF ProcessInv
<1> QED
  BY <1>14, <1>16, <1>17 DEF IInv

LEMMA KeepStep == IInv /\ KeepLeftEdge => IInv'
<1> SUFFICES ASSUME IInv, KeepLeftEdge
             PROVE  IInv'
  OBVIOUS
<1>1. TypeInv /\ SortInv /\ ProcessInv
  BY DEF IInv
<1>2. /\ pc = "merge" /\ cursor.left < cursor.right /\ cursor.right < cursor.right_end
      /\ ~(top_x[sel[cursor.right]] < top_x[sel[cursor.left]])
      /\ cursor' = [cursor EXCEPT !.left = @ + 1]
      /\ UNCHANGED <<top_x, mode, pc, sel, starts, nodes, point, next, actives, succeeded>>
  BY DEF KeepLeftEdge, Merging, Overtakes
<1>3. PICK middle \in starts : MergeOK(sel, cursor, starts, middle)
  BY <1>1, <1>2 DEF SortInv
<1>4. IsOrder(sel) /\ cursor \in [left : Int, right : Int, right_end : Int]
  BY <1>1 DEF TypeInv
<1>5. MergeOK(sel', cursor', starts, middle)
  BY <1>1, <1>2, <1>3, <1>4, KeptRuns
<1>6. cursor' \in [left : Int, right : Int, right_end : Int]
  BY <1>2, <1>4
<1>7. TypeInv'
  BY <1>1, <1>2, <1>6, SameEdges DEF TypeInv
<1>8. \E m \in starts' : MergeOK(sel, cursor, starts, m)'
  BY <1>2, <1>5, SameMerge
<1>9. SortInv'
  BY <1>1, <1>2, <1>8, SameEdges DEF SortInv
<1>10. ProcessInv'
  BY <1>1, <1>2 DEF ProcessInv
<1> QED
  BY <1>7, <1>9, <1>10 DEF IInv

LEMMA MergeDoneStep == IInv /\ MergeDone => IInv'
<1> SUFFICES ASSUME IInv, MergeDone
             PROVE  IInv'
  OBVIOUS
<1> DEFINE e == cursor.right_end
<1>1. TypeInv /\ SortInv /\ ProcessInv
  BY DEF IInv
<1>2. /\ pc = "merge" /\ ~(cursor.left < cursor.right /\ cursor.right < cursor.right_end)
      /\ starts' = starts \ {Max({s \in starts : s < e})}
      /\ \/ RunAfter(e) # End /\ cursor' = MergeAt(e) /\ pc' = "merge"
         \/ RunAfter(e) = End /\ cursor' = NoMerge /\ pc' = "pass done"
      /\ UNCHANGED <<top_x, mode, sel, nodes, point, next, actives, succeeded>>
  BY DEF MergeDone, Merging
<1>3. PICK middle \in starts : MergeOK(sel, cursor, starts, middle)
  BY <1>1, <1>2 DEF SortInv
<1>4. IsOrder(sel) /\ cursor \in [left : Int, right : Int, right_end : Int]
  BY <1>1 DEF TypeInv
<1>5. starts' = starts \ {middle} /\ RunsOK(sel, NoMerge, starts')
  BY <1>1, <1>2, <1>3, <1>4, MergeEnds
<1>6. /\ EdgeCount \in Nat /\ (\A b \in starts : b \in 1 .. EdgeCount) /\ starts \subseteq 1 .. EdgeCount
      /\ 1 < middle /\ middle < e /\ e \in starts \cup {End} /\ middle \in Int /\ e \in Int
  <2>1. EdgeCount \in Nat /\ \A b \in starts : b \in 1 .. EdgeCount
    BY <1>1, Sizes DEF TypeInv
  <2>2. middle \in Int /\ e \in Int
    BY <1>4, <2>1
  <2> QED
    BY <1>1, <1>3, <2>1, <2>2 DEF MergeOK, TypeInv
<1>7. 1 \in starts' /\ ListsOnce(nodes', Swapped(sel')) /\ starts' \subseteq 1 .. EdgeCount
  <2>1. 1 \in starts /\ ListsOnce(nodes, Swapped(sel))
    BY <1>1, <1>2 DEF SortInv
  <2>2. ListsOnce(nodes', Swapped(sel'))
    BY <1>2, <2>1
  <2>3. 1 # middle
    BY <1>6
  <2> QED
    BY <1>5, <1>6, <2>1, <2>2, <2>3
<1> HIDE DEF e
<1>8. CASE RunAfter(e) = End
  <2>1. cursor' = NoMerge /\ pc' = "pass done"
    BY <1>2, <1>8
  <2>2. TypeInv'
    <3>1. cursor' \in [left : Int, right : Int, right_end : Int]
      <4>1. NoMerge \in [left : Int, right : Int, right_end : Int]
        BY DEF NoMerge
      <4> QED
        BY <2>1, <4>1
    <3> QED
      BY <1>1, <1>2, <1>7, <2>1, <3>1, SameEdges DEF TypeInv
  <2>3. RunsOK(sel', cursor', starts')
    BY <1>2, <1>5, <2>1
  <2>4. SortInv'
    BY <1>1, <1>2, <1>7, <2>1, <2>3, SameEdges DEF SortInv
  <2>5. ProcessInv'
    BY <1>1, <1>2, <2>1 DEF ProcessInv
  <2> QED
    BY <2>2, <2>4, <2>5 DEF IInv
<1>9. CASE RunAfter(e) # End
  <2>1. cursor' = MergeAt(e) /\ pc' = "merge"
    BY <1>2, <1>9
  <2>2. e \in starts'
    <3>1. e # End
      BY <1>1, <1>9, NoRunAfterEnd
    <3> QED
      BY <1>5, <1>6, <3>1
  <2>3. \A b \in starts : b > e => b \in starts'
    BY <1>5, <1>6
  <2>4. \A i, j \in 1 .. EdgeCount : ~Unmerged(NoMerge, i, j)
    BY NothingUnmerged
  <2>5. /\ RunAfter(e) \in starts' /\ MergeOK(sel, MergeAt(e), starts', RunAfter(e))
        /\ MergeAt(e) \in [left : Int, right : Int, right_end : Int]
    <3> DEFINE B == starts'
    <3>1. B \subseteq starts /\ e \in B /\ (\A b \in starts : b > e => b \in B) /\ RunsOK(sel, NoMerge, B)
      BY <1>5, <2>2, <2>3
    <3> HIDE DEF B
    <3>2. /\ RunAfter(e) \in B /\ MergeOK(sel, MergeAt(e), B, RunAfter(e))
          /\ MergeAt(e) \in [left : Int, right : Int, right_end : Int]
      BY <1>1, <1>9, <2>4, <3>1, MergeBegins
    <3> QED
      BY <3>2 DEF B
  <2>6. MergeOK(sel', cursor', starts', RunAfter(e))
    BY <1>2, <2>1, <2>5
  <2>7. \E m \in starts' : MergeOK(sel, cursor, starts, m)'
    BY <1>2, <2>5, <2>6, SameMerge
  <2>8. TypeInv'
    BY <1>1, <1>2, <1>7, <2>1, <2>5, SameEdges DEF TypeInv
  <2>9. SortInv'
    BY <1>1, <1>2, <1>7, <2>1, <2>7, SameEdges DEF SortInv
  <2>10. ProcessInv'
    BY <1>1, <1>2, <2>1 DEF ProcessInv
  <2> QED
    BY <2>8, <2>9, <2>10 DEF IInv
<1> QED
  BY <1>8, <1>9

LEMMA PassDoneStep == IInv /\ PassDone => IInv'
<1> SUFFICES ASSUME IInv, PassDone
             PROVE  IInv'
  OBVIOUS
<1>1. TypeInv /\ SortInv /\ ProcessInv
  BY DEF IInv
<1>2. /\ pc = "pass done"
      /\ \/ (starts = {1} \/ RunsAreOrdered) /\ pc' = "sort"
         \/ starts # {1} /\ pc' = "pass"
      /\ UNCHANGED <<top_x, mode, sel, starts, cursor, nodes, point, next, actives, succeeded>>
  BY DEF PassDone
<1>3. TypeInv'
  BY <1>1, <1>2, SameEdges DEF TypeInv
<1>4. /\ cursor = NoMerge /\ RunsOK(sel, NoMerge, starts) /\ ListsOnce(nodes, Swapped(sel))
      /\ IsOrder(sel)
  BY <1>1, <1>2 DEF SortInv, TypeInv
<1>5. CASE (starts = {1} \/ RunsAreOrdered) /\ pc' = "sort"
  <2>1. InOrder(sel)
    BY <1>1, <1>4, <1>5, RunsAreDone
  <2>2. ListsOnce(nodes, Crossings)
    BY <1>1, <1>4, <2>1, SwappedAreTheCrossings
  <2>3. SortInv'
    BY <1>1, <1>2, <1>5, <2>1, SameEdges DEF SortInv
  <2>4. ProcessInv'
    BY <1>1, <1>2, <1>5, <2>2, SameEdges DEF ProcessInv
  <2> QED
    BY <1>3, <2>3, <2>4 DEF IInv
<1>6. CASE starts # {1} /\ pc' = "pass"
  <2>1. SortInv'
    BY <1>1, <1>2, <1>4, <1>6, SameEdges DEF SortInv
  <2>2. ProcessInv'
    BY <1>1, <1>2, <1>6 DEF ProcessInv
  <2> QED
    BY <1>3, <2>1, <2>2 DEF IInv
<1> QED
  BY <1>2, <1>5, <1>6

LEMMA CalculateStep == IInv /\ CalculatePoints => IInv'
<1> SUFFICES ASSUME IInv, CalculatePoints
             PROVE  IInv'
  OBVIOUS
<1>1. TypeInv /\ SortInv /\ ProcessInv
  BY DEF IInv
<1>2. /\ pc = "sort" /\ pc' = "sorting"
      /\ UNCHANGED <<top_x, mode, sel, starts, cursor, nodes, next, actives, succeeded>>
  BY DEF CalculatePoints
<1>3. TypeInv'
  BY <1>1, <1>2, SameEdges DEF TypeInv
<1>4. SortInv'
  BY <1>1, <1>2, SameEdges DEF SortInv
<1>5. next' \in 1 .. Len(nodes') + 1
  <2>1. next = 1 /\ nodes \in Seq(Edge \X Edge)
    BY <1>1, <1>2 DEF SortInv, ProcessInv, ListsOnce
  <2> QED
    BY <1>2, <2>1
<1>6. ProcessInv'
  BY <1>1, <1>2, <1>5, SameEdges DEF ProcessInv
<1> QED
  BY <1>3, <1>4, <1>6 DEF IInv

LEMMA SortStep == IInv /\ SortIntersections => IInv'
<1> SUFFICES ASSUME IInv, SortIntersections
             PROVE  IInv'
  OBVIOUS
<1>1. TypeInv /\ SortInv /\ ProcessInv
  BY DEF IInv
<1>2. /\ pc = "sorting" /\ next <= Len(nodes) /\ next' = next + 1
      /\ UNCHANGED <<top_x, mode, pc, sel, starts, cursor, point, actives, succeeded>>
  BY DEF SortIntersections
<1>3. PICK i \in next .. Len(nodes) : nodes' = InsertAt(RemoveAt(nodes, i), next, nodes[i])
  BY DEF SortIntersections, Ahead
<1>4. ListsOnce(nodes, Crossings) /\ next \in Nat /\ next >= 1 /\ Len(nodes) \in Nat
  <2>1. ListsOnce(nodes, Crossings) /\ next \in 1 .. Len(nodes) + 1
    BY <1>1, <1>2 DEF ProcessInv
  <2>2. nodes \in Seq(Edge \X Edge)
    BY <2>1 DEF ListsOnce
  <2> QED
    BY <2>1, <2>2
<1>5. i \in 1 .. Len(nodes) /\ next \in 1 .. Len(nodes) /\ next <= i
  BY <1>2, <1>4
<1>6. ListsOnce(nodes', Crossings) /\ Len(nodes') = Len(nodes)
  BY <1>3, <1>4, <1>5, ListMoved
<1>7. next' \in 1 .. Len(nodes') + 1 /\ next' \in Nat
  BY <1>2, <1>4, <1>5, <1>6
<1>8. TypeInv'
  BY <1>1, <1>2, <1>7, SameEdges DEF TypeInv
<1>9. SortInv'
  BY <1>1, <1>2, SameEdges DEF SortInv
<1>10. ProcessInv'
  BY <1>1, <1>2, <1>6, <1>7, SameEdges DEF ProcessInv
<1> QED
  BY <1>8, <1>9, <1>10 DEF IInv

LEMMA RebuildStep == IInv /\ Rebuild => IInv'
<1> SUFFICES ASSUME IInv, Rebuild
             PROVE  IInv'
  OBVIOUS
<1>1. TypeInv /\ SortInv /\ ProcessInv
  BY DEF IInv
<1>2. /\ pc = "sorting" /\ pc' = "pass" /\ nodes' = <<>> /\ next' = 1
      /\ sel' = actives /\ starts' = Edge /\ cursor' = NoMerge
      /\ UNCHANGED <<top_x, point, actives, succeeded>>
  BY DEF Rebuild
<1>3. AsBelow(sel') /\ AsBelow(actives) /\ HasInversion
  BY <1>1, <1>2 DEF SortInv
<1>4. starts' \subseteq 1 .. EdgeCount /\ 1 \in starts' /\ starts' # {1} /\ RunsOK(sel', NoMerge, starts')
  BY <1>1, <1>2, <1>3, RunsOfTheSchedule
<1>5. IsOrder(sel') /\ ListsOnce(nodes', Swapped(sel'))
  BY <1>1, <1>2, <1>3, Sizes, BelowIsAnOrder, NothingListed
<1>6. TypeInv'
  <2>1. cursor' \in [left : Int, right : Int, right_end : Int]
    BY <1>2 DEF NoMerge
  <2> QED
    BY <1>1, <1>2, <1>4, <1>5, <2>1, SameEdges DEF TypeInv
<1>7. RunsOK(sel', cursor', starts')
  BY <1>2, <1>4
<1>8. SortInv'
  BY <1>1, <1>2, <1>3, <1>4, <1>5, <1>7, SameEdges DEF SortInv
<1>9. ProcessInv'
  BY <1>1, <1>2 DEF ProcessInv
<1> QED
  BY <1>6, <1>8, <1>9 DEF IInv

LEMMA SortDoneStep == IInv /\ SortDone => IInv'
<1> SUFFICES ASSUME IInv, SortDone
             PROVE  IInv'
  OBVIOUS
<1>1. TypeInv /\ SortInv /\ ProcessInv
  BY DEF IInv
<1>2. /\ pc = "sorting" /\ pc' = "process" /\ next' = 1
      /\ UNCHANGED <<top_x, mode, sel, starts, cursor, nodes, point, actives, succeeded>>
  BY DEF SortDone
<1>3. ListsOnce(nodes, Crossings) /\ AsBelow(actives)
  BY <1>1, <1>2 DEF ProcessInv, SortInv
<1>4. CrossedOnly(actives') /\ ToCross(actives') = Crossings
  BY <1>1, <1>2, <1>3, AllToCross
<1>5. nodes \in Seq(Edge \X Edge) /\ Range(nodes) = Crossings
  BY <1>3 DEF ListsOnce
<1>6. PairsFrom(nodes', next') = Crossings
  <2>1. DOMAIN nodes = 1 .. Len(nodes)
    BY <1>5
  <2> QED
    BY <1>2, <1>5, <2>1 DEF Range, PairsFrom
<1>7. next' \in 1 .. Len(nodes') + 1 /\ next' \in Nat
  BY <1>2, <1>5
<1>8. TypeInv'
  BY <1>1, <1>2, <1>7, SameEdges DEF TypeInv
<1>9. SortInv'
  BY <1>1, <1>2, SameEdges DEF SortInv
<1>10. ProcessInv'
  BY <1>1, <1>2, <1>3, <1>4, <1>6, <1>7, SameEdges DEF ProcessInv
<1> QED
  BY <1>8, <1>9, <1>10 DEF IInv

\* An edge has one position in the active edges.
LEMMA Positions ==
  ASSUME TypeInv, NEW e \in 1 .. EdgeCount
  PROVE  /\ PositionOf(e) \in 1 .. EdgeCount /\ actives[PositionOf(e)] = e
         /\ \A i \in 1 .. EdgeCount : actives[i] = e => i = PositionOf(e)
<1>1. /\ \A i, j \in 1 .. EdgeCount : actives[i] = actives[j] => i = j
      /\ \A f \in 1 .. EdgeCount : \E i \in 1 .. EdgeCount : actives[i] = f
      /\ DOMAIN actives = 1 .. EdgeCount
  BY DEF TypeInv, IsOrder
<1>2. \E i \in DOMAIN actives : actives[i] = e
  BY <1>1
<1>3. PositionOf(e) \in DOMAIN actives /\ actives[PositionOf(e)] = e
  BY <1>2 DEF PositionOf
<1> QED
  BY <1>1, <1>3

\* While the pairs ahead are those that have to cross, one of them is a pair of
\* neighbours, and a pair of neighbours among them is the left one and the right.
LEMMA AdjacentPair ==
  ASSUME TypeInv, CrossedOnly(actives), ListsOnce(nodes, Crossings), next \in 1 .. Len(nodes),
         PairsFrom(nodes, next) = ToCross(actives)
  PROVE  /\ NextAdjacent # {}
         /\ \A i \in NextAdjacent :
              /\ i \in next .. Len(nodes)
              /\ \E x \in 1 .. EdgeCount - 1 :
                   /\ nodes[i] = <<actives[x], actives[x + 1]>> /\ nodes[i] \in ToCross(actives)
                   /\ PositionOf(nodes[i][1]) = x /\ PositionOf(nodes[i][2]) = x + 1
<1>1. EdgeCount \in Nat /\ Edge = 1 .. EdgeCount /\ IsOrder(actives)
  BY Sizes DEF TypeInv
<1>2. /\ \A k \in 1 .. EdgeCount : actives[k] \in 1 .. EdgeCount
      /\ \A i, j \in 1 .. EdgeCount : actives[i] = actives[j] => i = j
  BY <1>1, OrderFields
<1>3. Len(nodes) \in Nat
  BY DEF ListsOnce
<1>4. NextAdjacent # {}
  <2>1. ToCross(actives) # {}
    <3>1. next \in next .. Len(nodes)
      BY <1>3
    <3>2. nodes[next] \in ToCross(actives)
      BY <3>1 DEF PairsFrom
    <3> QED
      BY <3>2
  <2>2. PICK x \in 1 .. EdgeCount - 1 : <<actives[x], actives[x + 1]>> \in ToCross(actives)
    BY <1>1, <2>1, NeighboursToCross
  <2>3. PICK m \in next .. Len(nodes) : nodes[m] = <<actives[x], actives[x + 1]>>
    BY <2>2 DEF PairsFrom
  <2>4. x \in 1 .. EdgeCount /\ x + 1 \in 1 .. EdgeCount
    BY <1>1
  <2>5. PositionOf(nodes[m][1]) = x /\ PositionOf(nodes[m][2]) = x + 1
    <3>1. nodes[m][1] = actives[x] /\ nodes[m][2] = actives[x + 1]
      BY <2>3
    <3> QED
      BY <1>2, <2>4, <3>1, Positions
  <2>6. AreAdjacent(nodes[m])
    BY <2>5 DEF AreAdjacent
  <2> DEFINE Found == {k \in next .. Len(nodes) : AreAdjacent(nodes[k])}
  <2>7. Found \subseteq Nat /\ Found # {}
    BY <1>3, <2>3, <2>6
  <2>8. PICK k \in Found : \A j \in Found : k <= j
    BY <2>7, Least
  <2>9. ASSUME NEW j \in next .. k - 1
        PROVE  ~AreAdjacent(nodes[j])
    <3>1. k \in next .. Len(nodes) /\ k \in Int /\ next \in Int
      BY <1>3
    <3>2. j \in next .. Len(nodes) /\ ~(k <= j)
      BY <1>3, <3>1
    <3> QED
      BY <2>8, <3>2
  <2>10. k \in NextAdjacent
    BY <2>8, <2>9 DEF NextAdjacent, Ahead
  <2> QED
    BY <2>10
<1>5. ASSUME NEW i \in NextAdjacent
      PROVE  /\ i \in next .. Len(nodes)
             /\ \E x \in 1 .. EdgeCount - 1 :
                  /\ nodes[i] = <<actives[x], actives[x + 1]>> /\ nodes[i] \in ToCross(actives)
                  /\ PositionOf(nodes[i][1]) = x /\ PositionOf(nodes[i][2]) = x + 1
  <2>1. i \in next .. Len(nodes) /\ AreAdjacent(nodes[i])
    BY DEF NextAdjacent, Ahead
  <2> DEFINE p == nodes[i]
  <2>2. p \in ToCross(actives)
    BY <2>1 DEF PairsFrom
  <2>3. p \in Edge \X Edge
    BY <2>2 DEF ToCross, Crossings
  <2>4. PICK x, y \in 1 .. EdgeCount : x < y /\ actives[x] = p[1] /\ actives[y] = p[2]
    BY <2>2 DEF ToCross
  <2>5. p[1] \in 1 .. EdgeCount /\ p[2] \in 1 .. EdgeCount
    BY <1>1, <2>3
  <2>6. PositionOf(p[1]) = x /\ PositionOf(p[2]) = y
    BY <2>4, <2>5, Positions
  <2>7. x + 1 = y \/ y + 1 = x
    BY <2>1, <2>6 DEF AreAdjacent
  <2>8. y = x + 1 /\ x \in 1 .. EdgeCount - 1
    BY <1>1, <2>4, <2>7
  <2>9. p = <<p[1], p[2]>>
    BY <2>3
  <2>10. p = <<actives[x], actives[x + 1]>>
    BY <2>4, <2>8, <2>9
  <2>11. PositionOf(p[1]) = x /\ PositionOf(p[2]) = x + 1
    BY <2>6, <2>8
  <2> QED
    BY <2>1, <2>2, <2>8, <2>10, <2>11
<1> QED
  BY <1>4, <1>5

\* What an iteration of the processing does: two neighbours that have to cross
\* change places.
LEMMA Iteration ==
  ASSUME IInv, ProcessNode
  PROVE  /\ pc' = "process" /\ succeeded' = succeeded /\ next' = next + 1
         /\ \E i \in next .. Len(nodes), x \in 1 .. EdgeCount - 1 :
              /\ nodes[i] = <<actives[x], actives[x + 1]>> /\ nodes[i] \in ToCross(actives)
              /\ nodes' = Exchanged(nodes, next, i)
              /\ actives' = Exchanged(actives, x, x + 1)
<1>1. TypeInv /\ SortInv /\ ProcessInv /\ pc = "process" /\ next <= Len(nodes)
  BY DEF IInv, ProcessNode
<1>2. /\ CrossedOnly(actives) /\ ListsOnce(nodes, Crossings) /\ next \in 1 .. Len(nodes) + 1
      /\ PairsFrom(nodes, next) = ToCross(actives)
  BY <1>1 DEF ProcessInv
<1>3. next \in 1 .. Len(nodes)
  <2>1. Len(nodes) \in Nat
    BY <1>2 DEF ListsOnce
  <2> QED
    BY <1>1, <1>2, <2>1
<1>4. /\ NextAdjacent # {}
      /\ \A i \in NextAdjacent :
           /\ i \in next .. Len(nodes)
           /\ \E x \in 1 .. EdgeCount - 1 :
                /\ nodes[i] = <<actives[x], actives[x + 1]>> /\ nodes[i] \in ToCross(actives)
                /\ PositionOf(nodes[i][1]) = x /\ PositionOf(nodes[i][2]) = x + 1
  BY <1>1, <1>2, <1>3, AdjacentPair
<1>5. PICK i \in NextAdjacent : nodes' = BroughtForward(i) /\ CrossEdges(nodes[i])
  BY <1>4 DEF ProcessNode
<1>6. pc' = "process" /\ succeeded' = succeeded /\ next' = next + 1
  BY <1>1, <1>4 DEF ProcessNode
<1>7. PICK x \in 1 .. EdgeCount - 1 :
        /\ nodes[i] = <<actives[x], actives[x + 1]>> /\ nodes[i] \in ToCross(actives)
        /\ PositionOf(nodes[i][1]) = x /\ PositionOf(nodes[i][2]) = x + 1
  BY <1>4
<1>8. actives' = Exchanged(actives, x, x + 1)
  <2>1. nodes[i][1] = actives[x] /\ nodes[i][2] = actives[x + 1]
    BY <1>7
  <2>2. actives' = [actives EXCEPT ![PositionOf(nodes[i][1])] = nodes[i][2],
                                   ![PositionOf(nodes[i][2])] = nodes[i][1]]
    BY <1>5 DEF CrossEdges
  <2> QED
    BY <1>7, <2>1, <2>2, Zenon DEF Exchanged
<1>9. nodes' = Exchanged(nodes, next, i) /\ i \in next .. Len(nodes)
  BY <1>4, <1>5 DEF BroughtForward, Exchanged
<1> QED
  BY <1>6, <1>7, <1>8, <1>9

LEMMA ProcessStep == IInv /\ ProcessNode => IInv'
<1> SUFFICES ASSUME IInv, ProcessNode
             PROVE  IInv'
  OBVIOUS
<1>1. TypeInv /\ SortInv /\ ProcessInv
  BY DEF IInv
<1>2. /\ pc = "process" /\ next <= Len(nodes)
      /\ UNCHANGED <<top_x, mode, sel, starts, cursor, point>>
  BY DEF ProcessNode
<1>3. /\ pc' = "process" /\ succeeded' = succeeded /\ next' = next + 1
      /\ \E i \in next .. Len(nodes), x \in 1 .. EdgeCount - 1 :
           /\ nodes[i] = <<actives[x], actives[x + 1]>> /\ nodes[i] \in ToCross(actives)
           /\ nodes' = Exchanged(nodes, next, i)
           /\ actives' = Exchanged(actives, x, x + 1)
  BY Iteration
<1>4. PICK i \in next .. Len(nodes), x \in 1 .. EdgeCount - 1 :
        /\ nodes[i] = <<actives[x], actives[x + 1]>> /\ nodes[i] \in ToCross(actives)
        /\ nodes' = Exchanged(nodes, next, i)
        /\ actives' = Exchanged(actives, x, x + 1)
  BY <1>3
<1>5. /\ CrossedOnly(actives) /\ ListsOnce(nodes, Crossings) /\ next \in 1 .. Len(nodes) + 1
      /\ PairsFrom(nodes, next) = ToCross(actives) /\ IsOrder(actives)
  BY <1>1, <1>2 DEF ProcessInv, TypeInv
<1>6. next \in 1 .. Len(nodes) /\ Len(nodes) \in Nat /\ next \in Nat
  <2>1. Len(nodes) \in Nat
    BY <1>5 DEF ListsOnce
  <2> QED
    BY <1>2, <1>5, <2>1
<1>7. /\ ListsOnce(nodes', Crossings) /\ Len(nodes') = Len(nodes)
      /\ PairsFrom(nodes', next + 1) = ToCross(actives) \ {nodes[i]}
  <2>1. nodes' = Exchanged(nodes, next, i)
    BY <1>4
  <2> QED
    BY <1>5, <1>6, <2>1, ListExchanged
<1>8. <<actives[x], actives[x + 1]>> \in ToCross(actives)
  BY <1>4
<1>9. /\ IsOrder(actives') /\ CrossedOnly(actives')
      /\ ToCross(actives') = ToCross(actives) \ {nodes[i]}
  BY <1>1, <1>4, <1>5, <1>8, PairCrosses
<1>10. PairsFrom(nodes', next') = ToCross(actives')
  BY <1>3, <1>7, <1>9
<1>11. next' \in 1 .. Len(nodes') + 1 /\ next' \in Nat
  BY <1>3, <1>6, <1>7
<1>12. TypeInv'
  BY <1>1, <1>2, <1>3, <1>9, <1>11, SameEdges DEF TypeInv
<1>13. SortInv'
  BY <1>1, <1>2, <1>3, SameEdges DEF SortInv
<1>14. ProcessInv'
  BY <1>1, <1>2, <1>3, <1>7, <1>9, <1>10, <1>11, SameEdges DEF ProcessInv
<1> QED
  BY <1>12, <1>13, <1>14 DEF IInv

LEMMA ProcessDoneStep == IInv /\ ProcessDone => IInv'
<1> SUFFICES ASSUME IInv, ProcessDone
             PROVE  IInv'
  OBVIOUS
<1>1. TypeInv /\ SortInv /\ ProcessInv
  BY DEF IInv
<1>2. /\ pc = "process" /\ next > Len(nodes) /\ pc' = "done"
      /\ UNCHANGED <<top_x, mode, sel, starts, cursor, point, next, actives, succeeded>>
  BY DEF ProcessDone
<1>3. /\ CrossedOnly(actives) /\ next \in 1 .. Len(nodes) + 1 /\ IsOrder(actives)
      /\ PairsFrom(nodes, next) = ToCross(actives)
      /\ nodes \in Seq(Edge \X Edge)
  BY <1>1, <1>2 DEF ProcessInv, TypeInv, ListsOnce
<1>4. ToCross(actives) = {}
  BY <1>2, <1>3 DEF PairsFrom
<1>5. InOrder(actives')
  BY <1>1, <1>2, <1>3, <1>4, NothingToCross
<1>6. TypeInv'
  BY <1>1, <1>2, SameEdges DEF TypeInv
<1>7. SortInv'
  BY <1>1, <1>2, SameEdges DEF SortInv
<1>8. ProcessInv'
  BY <1>1, <1>2, <1>5, SameEdges DEF ProcessInv
<1> QED
  BY <1>6, <1>7, <1>8 DEF IInv

LEMMA UnchangedInv == IInv /\ UNCHANGED vars => IInv'
<1> SUFFICES ASSUME IInv, UNCHANGED vars
             PROVE  IInv'
  OBVIOUS
<1>1. TypeInv /\ SortInv /\ ProcessInv
  BY DEF IInv
<1>2. UNCHANGED <<top_x, mode, pc, sel, starts, cursor, nodes, point, next, actives, succeeded>>
  BY DEF vars
<1>3. TypeInv'
  BY <1>1, <1>2, SameEdges DEF TypeInv
<1>4. pc = "merge" => \E middle \in starts' : MergeOK(sel, cursor, starts, middle)'
  BY <1>1, <1>2, SameMerge DEF SortInv
<1>5. SortInv'
  BY <1>1, <1>2, <1>4, SameEdges DEF SortInv
<1>6. ProcessInv'
  BY <1>1, <1>2, SameEdges DEF ProcessInv
<1> QED
  BY <1>3, <1>5, <1>6 DEF IInv

LEMMA StepInv == IInv /\ [Next]_vars => IInv'
<1> SUFFICES ASSUME IInv, [Next]_vars
             PROVE  IInv'
  OBVIOUS
<1>1. CASE NothingToDo
  BY <1>1, NothingToDoStep
<1>2. CASE Schedule
  BY <1>2, ScheduleStep
<1>3. CASE BeginPass
  BY <1>3, BeginPassStep
<1>4. CASE MoveRightEdgeBeforeLeft
  BY <1>4, MoveStep
<1>5. CASE KeepLeftEdge
  BY <1>5, KeepStep
<1>6. CASE MergeDone
  BY <1>6, MergeDoneStep
<1>7. CASE PassDone
  BY <1>7, PassDoneStep
<1>8. CASE CalculatePoints
  BY <1>8, CalculateStep
<1>9. CASE SortIntersections
  BY <1>9, SortStep
<1>10. CASE Rebuild
  BY <1>10, RebuildStep
<1>11. CASE SortDone
  BY <1>11, SortDoneStep
<1>12. CASE ProcessNode
  BY <1>12, ProcessStep
<1>13. CASE ProcessDone
  BY <1>13, ProcessDoneStep
<1>14. CASE UNCHANGED vars
  BY <1>14, UnchangedInv
<1> QED
  BY <1>1, <1>2, <1>3, <1>4, <1>5, <1>6, <1>7, <1>8, <1>9, <1>10, <1>11, <1>12, <1>13, <1>14 DEF Next

LEMMA InvHolds == Spec => []IInv
BY InitInv, StepInv, PTL DEF Spec

-----------------------------------------------------------------------------
(* What is shown.                                                          *)

\* A list that holds every pair of a set once is as long as the set is large.
LEMMA ListLength ==
  ASSUME NEW P, NEW list, ListsOnce(list, P)
  PROVE  Len(list) = Cardinality(P)
<1>1. /\ list \in Seq(Edge \X Edge) /\ Range(list) = P
      /\ \A i, j \in 1 .. Len(list) : list[i] = list[j] => i = j
  BY DEF ListsOnce
<1>2. Len(list) \in Nat /\ DOMAIN list = 1 .. Len(list) /\ list = [i \in 1 .. Len(list) |-> list[i]]
  BY <1>1
<1>3. /\ \A i \in 1 .. Len(list) : list[i] \in P
      /\ \A p \in P : \E i \in 1 .. Len(list) : list[i] = p
  BY <1>1, <1>2 DEF Range
<1>4. list \in [1 .. Len(list) -> P]
  BY <1>2, <1>3
<1>5. list \in Bijection(1 .. Len(list), P)
  BY <1>1, <1>3, <1>4 DEF Bijection, Injection, Surjection, IsInjective
<1> QED
  BY <1>2, <1>5, FS_CountingElements DEF ExistsBijection

\* For every active edge list, every schedule and every rounding of the points:
\* the pairs found are exactly those that cross, each once.
THEOREM CrossingsFound == Spec => []NodesAreTheCrossings
<1>1. IInv => NodesAreTheCrossings
  <2> SUFFICES ASSUME IInv, pc \in {"sort", "sorting", "process"}
               PROVE  Range(nodes) = Crossings /\ Len(nodes) = Cardinality(Crossings)
    BY DEF NodesAreTheCrossings
  <2>1. ListsOnce(nodes, Crossings)
    BY DEF IInv, ProcessInv
  <2>2. Len(nodes) = Cardinality(Crossings)
    BY <2>1, ListLength
  <2> QED
    BY <2>1, <2>2 DEF ListsOnce
<1> QED
  BY <1>1, InvHolds, PTL

\* Whatever order the rounded points gave the pairs, the processing never ends
\* up without a pair of neighbours to cross.
THEOREM ScanbeamNeverFails == Spec => []NeverStranded
<1>1. IInv => NeverStranded
  BY DEF IInv, ProcessInv, NeverStranded
<1> QED
  BY <1>1, InvHolds, PTL

\* At the end the active edges, and the sorted edges the next scanbeam takes its
\* x from, are in the one order the edges have at the top.
THEOREM EdgesEndInOrder == Spec => []EndsInOrder
<1>1. IInv => EndsInOrder
  <2> SUFFICES ASSUME IInv, pc = "done"
               PROVE  /\ \A i, j \in DOMAIN actives : i < j => Before(actives[i], actives[j])
                      /\ sel = actives
    BY DEF EndsInOrder, Before
  <2>1. TypeInv /\ InOrder(actives) /\ InOrder(sel) /\ IsOrder(actives) /\ IsOrder(sel)
    BY DEF IInv, TypeInv, SortInv, ProcessInv
  <2>2. sel = actives
    BY <2>1, OrderIsUnique
  <2>3. DOMAIN actives = 1 .. EdgeCount
    BY <2>1 DEF IsOrder
  <2> QED
    BY <2>1, <2>2, <2>3 DEF InOrder
<1> QED
  BY <1>1, InvHolds, PTL

\* Only neighbours ever cross, and only a pair that has to.
THEOREM OnlyNeighboursCross == Spec => CrossingsKept
<1>1. Init => Promise!Init
  BY DEF Init, Edge, Promise!Init
<1>2. IInv /\ [Next]_vars => [Promise!Cross]_<<top_x, actives>>
  <2> SUFFICES ASSUME IInv, [Next]_vars, ~(UNCHANGED <<top_x, actives>>)
               PROVE  Promise!Cross
    OBVIOUS
  <2>1. ProcessNode
    BY DEF Next, vars, NothingToDo, Schedule, BeginPass, MoveRightEdgeBeforeLeft, KeepLeftEdge,
       MergeDone, PassDone, CalculatePoints, SortIntersections, Rebuild, SortDone, ProcessDone
  <2>2. /\ TypeInv /\ IsOrder(actives) /\ UNCHANGED top_x
    BY <2>1 DEF IInv, TypeInv, ProcessNode
  <2>3. PICK i \in next .. Len(nodes), x \in 1 .. EdgeCount - 1 :
          /\ nodes[i] = <<actives[x], actives[x + 1]>> /\ nodes[i] \in ToCross(actives)
          /\ actives' = Exchanged(actives, x, x + 1)
    BY <2>1, Iteration
  <2>4. EdgeCount \in Nat /\ DOMAIN actives = 1 .. EdgeCount
    BY <2>2, Sizes DEF IsOrder
  <2>5. x \in DOMAIN actives /\ x + 1 \in DOMAIN actives
    BY <2>4
  <2>6. top_x[actives[x]] > top_x[actives[x + 1]]
    <3>1. top_x[actives[x + 1]] < top_x[actives[x]]
      BY <2>3 DEF ToCross, Crossings
    <3>2. top_x[actives[x + 1]] \in Int /\ top_x[actives[x]] \in Int
      BY <2>2, <2>4, <2>5, OrderFields, Sizes
    <3> QED
      BY <3>1, <3>2
  <2>7. actives' = [actives EXCEPT ![x] = actives[x + 1], ![x + 1] = actives[x]]
    BY <2>3 DEF Exchanged
  <2> QED
    BY <2>2, <2>5, <2>6, <2>7 DEF Promise!Cross
<1> QED
  BY <1>1, <1>2, InvHolds, PTL DEF Spec, CrossingsKept, Promise!Spec
=============================================================================
