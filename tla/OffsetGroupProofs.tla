-------------------------- MODULE OffsetGroupProofs --------------------------
(***************************************************************************)
(* For every request - any groups, paths, distances and executors -: the   *)
(* chunks of a group leave a path to every later one, and a group that is  *)
(* generated in chunks answers what the serial loop answers.               *)
(*                                                                         *)
(* The rings are opaque.  What matters is that concatenation is            *)
(* associative: the rings so far after each path are a table (RunsTo), a   *)
(* chunk is a piece of it (IsPiece), and chunks that follow on each other  *)
(* (ChunksFollow) give, in their order, the entry of the last path.        *)
(***************************************************************************)
EXTENDS OffsetCalls, SequenceTheorems, WellFoundedInduction, TLAPS

-----------------------------------------------------------------------------
(* What FlattenSeq concatenates.                                           *)

LEMMA Least ==
  ASSUME NEW T, T \subseteq Nat, T # {}
  PROVE  \E n \in T : \A m \in T : n <= m
<1>1. PICK n \in T : \A m \in T : ~(<<m, n>> \in OpToRel(<, Nat))
  BY NatLessThanWellFounded, WFMin, Zenon
<1>2. \A m \in T : ~(m < n)
  BY <1>1 DEF OpToRel
<1> QED BY <1>2

\* F holds the concatenations of the first members of s, up to m of them.
RunsTo(F, s, m) == F[0] = <<>> /\ \A i \in 1 .. m : F[i] = F[i - 1] \o s[i]

LEMMA RunExists ==
  ASSUME NEW S, NEW s \in Seq(Seq(S))
  PROVE  \E F \in [0 .. Len(s) -> Seq(S)] : RunsTo(F, s, Len(s))
<1> DEFINE n == Len(s)
           Run(m) == \E F \in [0 .. m -> Seq(S)] : RunsTo(F, s, m)
           T == {m \in 0 .. n : ~ Run(m)}
<1>0. n \in Nat /\ \A i \in 1 .. n : s[i] \in Seq(S)
  OBVIOUS
<1> SUFFICES ASSUME T # {} PROVE FALSE
  <2>1. n \in 0 .. n
    BY <1>0
  <2> QED BY <2>1
<1>1. PICK m \in T : \A k \in T : m <= k
  <2>1. T \subseteq Nat
    BY <1>0
  <2> HIDE DEF T
  <2> QED BY <2>1, Least
<1>2. m \in 0 .. n /\ ~ Run(m)
  BY <1>1
<1>3. m # 0
  <2> DEFINE F == [i \in 0 .. 0 |-> <<>>]
  <2>1. F \in [0 .. 0 -> Seq(S)] /\ RunsTo(F, s, 0)
    BY DEF RunsTo
  <2> QED BY <1>2, <2>1
<1>4. m - 1 \in 0 .. n /\ ~ (m <= m - 1) /\ m \in 1 .. n
  BY <1>0, <1>2, <1>3
<1>5. PICK F \in [0 .. m - 1 -> Seq(S)] : RunsTo(F, s, m - 1)
  BY <1>1, <1>4
<1> DEFINE G == [i \in 0 .. m |-> IF i = m THEN F[m - 1] \o s[m] ELSE F[i]]
<1>6. F[m - 1] \in Seq(S) /\ s[m] \in Seq(S)
  BY <1>0, <1>4, <1>5
<1>7. F[m - 1] \o s[m] \in Seq(S)
  BY <1>6, ConcatProperties
<1>8. G \in [0 .. m -> Seq(S)]
  BY <1>4, <1>5, <1>7
<1>9. RunsTo(G, s, m)
  <2>1. G[0] = <<>>
    BY <1>4, <1>5 DEF RunsTo
  <2>2. ASSUME NEW i \in 1 .. m PROVE G[i] = G[i - 1] \o s[i]
    <3>1. i \in 0 .. m /\ i - 1 \in 0 .. m /\ i - 1 # m
      BY <1>4
    <3>2. CASE i = m
      BY <3>1, <3>2
    <3>3. CASE i # m
      <4>1. i \in 1 .. m - 1
        BY <1>4, <3>3
      <4>2. F[i] = F[i - 1] \o s[i]
        BY <1>5, <4>1 DEF RunsTo
      <4> QED BY <3>1, <3>3, <4>2
    <3> QED BY <3>2, <3>3
  <2> QED BY <2>1, <2>2 DEF RunsTo
<1> QED BY <1>2, <1>8, <1>9

FlattenStep(s, f) == [i \in 1 .. Len(s) |-> IF i = 1 THEN s[i] ELSE f[i - 1] \o s[i]]

LEMMA FlattenIsRun ==
  ASSUME NEW S, NEW s \in Seq(Seq(S)), NEW F \in [0 .. Len(s) -> Seq(S)], RunsTo(F, s, Len(s))
  PROVE  FlattenSeq(s) = F[Len(s)]
<1> DEFINE n == Len(s)
           h == CHOOSE f : f = FlattenStep(s, f)
<1>0. n \in Nat /\ \A i \in 1 .. n : s[i] \in Seq(S)
  OBVIOUS
<1>1. CASE n = 0
  <2>1. s = <<>> /\ F[0] = <<>>
    BY <1>1 DEF RunsTo
  <2>2. FlattenSeq(s) = s
    BY <1>1 DEF FlattenSeq
  <2> QED BY <1>1, <2>1, <2>2
<1>2. CASE n # 0
  <2>1. FlattenSeq(s) = h[n]
    BY <1>2 DEF FlattenSeq, FlattenStep
  <2>2. F[1] = s[1]
    <3>1. 1 \in 1 .. n /\ 1 - 1 = 0
      BY <1>0, <1>2
    <3>2. F[1] = <<>> \o s[1] /\ s[1] \in Seq(S)
      BY <1>0, <3>1 DEF RunsTo
    <3> QED BY <3>2, ConcatEmptySeq
  <2>3. h = FlattenStep(s, h)
    <3> DEFINE f == [i \in 1 .. n |-> F[i]]
    <3>1. \A i \in 1 .. n : f[i] = IF i = 1 THEN s[i] ELSE f[i - 1] \o s[i]
      <4> SUFFICES ASSUME NEW i \in 1 .. n PROVE f[i] = IF i = 1 THEN s[i] ELSE f[i - 1] \o s[i]
        OBVIOUS
      <4>1. CASE i = 1
        BY <2>2, <4>1
      <4>2. CASE i # 1
        <5>1. i - 1 \in 1 .. n
          BY <1>0, <4>2
        <5> QED BY <4>2, <5>1 DEF RunsTo
      <4> QED BY <4>1, <4>2
    <3>2. f = FlattenStep(s, f)
      BY <3>1 DEF FlattenStep
    <3> HIDE DEF f
    <3> QED BY <3>2
  <2> HIDE DEF h
  <2> DEFINE T == {i \in 1 .. n : h[i] # F[i]}
  <2>4. T = {}
    <3> SUFFICES ASSUME T # {} PROVE FALSE
      OBVIOUS
    <3>1. PICK i \in T : \A k \in T : i <= k
      <4>1. T \subseteq Nat
        OBVIOUS
      <4> HIDE DEF T
      <4> QED BY <4>1, Least
    <3>2. h[i] = IF i = 1 THEN s[i] ELSE h[i - 1] \o s[i]
      BY <2>3 DEF FlattenStep
    <3>3. CASE i = 1
      BY <2>2, <3>1, <3>2, <3>3
    <3>4. CASE i # 1
      <4>1. i - 1 \in 1 .. n /\ ~ (i <= i - 1)
        BY <1>0, <3>4
      <4>2. h[i - 1] = F[i - 1]
        BY <3>1, <4>1
      <4>3. F[i] = F[i - 1] \o s[i]
        BY DEF RunsTo
      <4> QED BY <3>1, <3>2, <3>4, <4>2, <4>3
    <3> QED BY <3>3, <3>4
  <2>5. n \in 1 .. n
    BY <1>0, <1>2
  <2> QED BY <2>1, <2>4, <2>5
<1> QED BY <1>1, <1>2

LEMMA FlattenedType ==
  ASSUME NEW S, NEW s \in Seq(Seq(S))
  PROVE  FlattenSeq(s) \in Seq(S)
<1>1. PICK F \in [0 .. Len(s) -> Seq(S)] : RunsTo(F, s, Len(s))
  BY RunExists
<1>2. FlattenSeq(s) = F[Len(s)] /\ Len(s) \in 0 .. Len(s)
  BY <1>1, FlattenIsRun
<1> QED BY <1>1, <1>2

Reassociated(x, y, z) == (x \o y) \o z = x \o (y \o z)

LEMMA ConcatIsAssociative ==
  ASSUME NEW S, NEW x \in Seq(S), NEW y \in Seq(S), NEW z \in Seq(S)
  PROVE  Reassociated(x, y, z)
<1>1. (x \o y) \o z = x \o (y \o z)
  BY ONLY x \in Seq(S), y \in Seq(S), z \in Seq(S), ConcatAssociative
<1> QED BY <1>1 DEF Reassociated

\* The members of u are those of s after the first p.
IsPiece(u, s, p) == p + Len(u) <= Len(s) /\ \A k \in 1 .. Len(u) : u[k] = s[p + k]

Advances(F, p, u) == F[p + Len(u)] = F[p] \o FlattenSeq(u)

\* What consecutive members of s concatenate to is a piece of what s does.
LEMMA PieceOfRun ==
  ASSUME NEW S, NEW s \in Seq(Seq(S)), NEW F \in [0 .. Len(s) -> Seq(S)], RunsTo(F, s, Len(s)),
         NEW u \in Seq(Seq(S)), NEW p \in 0 .. Len(s), IsPiece(u, s, p)
  PROVE  Advances(F, p, u)
<1>1. PICK G \in [0 .. Len(u) -> Seq(S)] : RunsTo(G, u, Len(u))
  BY RunExists
<1>2. FlattenSeq(u) = G[Len(u)]
  BY <1>1, FlattenIsRun
<1> DEFINE n == Len(u)
           T == {k \in 0 .. n : F[p + k] # F[p] \o G[k]}
<1>3. /\ n \in Nat /\ Len(s) \in Nat /\ p \in Nat /\ p + n <= Len(s)
      /\ \A k \in 1 .. n : u[k] = s[p + k] /\ u[k] \in Seq(S)
  BY SMTT(30) DEF IsPiece
<1> HIDE DEF n
<1>4. T = {}
  <2> SUFFICES ASSUME T # {} PROVE FALSE
    OBVIOUS
  <2>1. PICK k \in T : \A j \in T : k <= j
    <3>1. T \subseteq Nat
      BY <1>3
    <3> HIDE DEF T
    <3> QED BY <3>1, Least
  <2>2. k \in 0 .. n /\ F[p + k] # F[p] \o G[k]
    BY <2>1
  <2>3. F[p] \in Seq(S)
    OBVIOUS
  <2>4. k # 0
    <3>1. G[0] = <<>> /\ p + 0 = p
      BY <1>1, <1>3 DEF RunsTo
    <3>2. F[p] = F[p] \o <<>>
      BY <2>3, ConcatEmptySeq
    <3> QED BY <2>2, <3>1, <3>2
  <2>5. k - 1 \in 0 .. n /\ ~ (k <= k - 1) /\ k \in 1 .. n /\ p + k \in 1 .. Len(s) /\ (p + k) - 1 = p + (k - 1)
    BY <1>3, <2>2, <2>4
  <2>6. F[p + (k - 1)] = F[p] \o G[k - 1]
    BY <2>1, <2>5
  <2>7. F[p + k] = F[p + (k - 1)] \o u[k]
    <3>1. F[p + k] = F[(p + k) - 1] \o s[p + k]
      BY <2>5 DEF RunsTo
    <3> QED BY <1>3, <2>5, <3>1
  <2>8. G[k] = G[k - 1] \o u[k] /\ G[k - 1] \in Seq(S) /\ u[k] \in Seq(S)
    <3>1. k \in 1 .. Len(u) /\ k - 1 \in 0 .. Len(u)
      BY <2>5 DEF n
    <3>2. G[k] = G[k - 1] \o u[k]
      BY <1>1, <3>1 DEF RunsTo
    <3>3. G[k - 1] \in Seq(S)
      BY <1>1, <3>1
    <3>4. u[k] \in Seq(S)
      BY <1>3, <2>5
    <3> QED BY <3>2, <3>3, <3>4
  <2>9. Reassociated(F[p], G[k - 1], u[k])
    BY <2>3, <2>8, ConcatIsAssociative, Zenon
  <2> QED BY <2>2, <2>6, <2>7, <2>8, <2>9 DEF Reassociated
<1>5. n \in 0 .. n
  BY <1>3
<1>6. F[p + n] = F[p] \o G[n]
  BY <1>4, <1>5
<1> QED BY <1>2, <1>6 DEF n, Advances

Fits(path) == \A k \in DOMAIN path : Max({Abs(path[k].x), Abs(path[k].y)}) <= MaximumCoordinate

LEMMA RangeOfAll ==
  ASSUME NEW paths
  PROVE  InRange(paths) <=> \A i \in DOMAIN paths : Fits(paths[i])
  BY DEF InRange, Fits

LEMMA ConcatInRange ==
  ASSUME NEW S, NEW a \in Seq(S), NEW b \in Seq(S)
  PROVE  InRange(a \o b) <=> InRange(a) /\ InRange(b)
<1>1. /\ Len(a) \in Nat /\ Len(b) \in Nat /\ DOMAIN a = 1 .. Len(a) /\ DOMAIN b = 1 .. Len(b)
      /\ DOMAIN (a \o b) = 1 .. Len(a) + Len(b)
      /\ \A i \in 1 .. Len(a) + Len(b) : (a \o b)[i] = IF i <= Len(a) THEN a[i] ELSE b[i - Len(a)]
  BY ConcatProperties
<1>2. ASSUME \A i \in DOMAIN (a \o b) : Fits((a \o b)[i])
      PROVE  (\A i \in DOMAIN a : Fits(a[i])) /\ \A i \in DOMAIN b : Fits(b[i])
  <2>1. ASSUME NEW i \in DOMAIN a PROVE Fits(a[i])
    <3>1. i \in 1 .. Len(a) + Len(b) /\ i <= Len(a)
      BY <1>1
    <3> QED BY <1>1, <1>2, <3>1
  <2>2. ASSUME NEW i \in DOMAIN b PROVE Fits(b[i])
    <3>1. i + Len(a) \in 1 .. Len(a) + Len(b) /\ ~ (i + Len(a) <= Len(a)) /\ (i + Len(a)) - Len(a) = i
      BY <1>1
    <3> QED BY <1>1, <1>2, <3>1
  <2> QED BY <2>1, <2>2
<1>3. ASSUME \A i \in DOMAIN a : Fits(a[i]), \A i \in DOMAIN b : Fits(b[i]), NEW i \in DOMAIN (a \o b)
      PROVE  Fits((a \o b)[i])
  <2>1. CASE i <= Len(a)
    <3>1. i \in DOMAIN a /\ (a \o b)[i] = a[i]
      BY <1>1, <2>1
    <3> QED BY <1>3, <3>1
  <2>2. CASE ~ (i <= Len(a))
    <3>1. i - Len(a) \in DOMAIN b /\ (a \o b)[i] = b[i - Len(a)]
      BY <1>1, <2>2
    <3> QED BY <1>3, <3>1
  <2> QED BY <2>1, <2>2
<1> QED BY <1>2, <1>3, RangeOfAll

LEMMA FlattenInRange ==
  ASSUME NEW S, NEW s \in Seq(Seq(S))
  PROVE  InRange(FlattenSeq(s)) <=> \A i \in 1 .. Len(s) : InRange(s[i])
<1>1. PICK F \in [0 .. Len(s) -> Seq(S)] : RunsTo(F, s, Len(s))
  BY RunExists
<1>2. FlattenSeq(s) = F[Len(s)]
  BY <1>1, FlattenIsRun
<1> DEFINE n == Len(s)
           All(m) == \A i \in 1 .. m : InRange(s[i])
           T == {m \in 0 .. n : ~ (InRange(F[m]) <=> All(m))}
<1>3. n \in Nat /\ \A i \in 1 .. n : s[i] \in Seq(S)
  OBVIOUS
<1>4. T = {}
  <2> SUFFICES ASSUME T # {} PROVE FALSE
    OBVIOUS
  <2>1. PICK m \in T : \A j \in T : m <= j
    <3>1. T \subseteq Nat
      BY <1>3
    <3> HIDE DEF T
    <3> QED BY <3>1, Least
  <2>2. m \in 0 .. n /\ ~ (InRange(F[m]) <=> All(m))
    BY <2>1
  <2>3. m # 0
    <3>1. F[0] = <<>> /\ DOMAIN F[0] = {}
      BY <1>1 DEF RunsTo
    <3>2. InRange(F[0]) /\ All(0)
      BY <3>1, RangeOfAll
    <3> QED BY <2>2, <3>2
  <2>4. m - 1 \in 0 .. n /\ ~ (m <= m - 1) /\ m \in 1 .. n
    BY <1>3, <2>2, <2>3
  <2>5. InRange(F[m - 1]) <=> All(m - 1)
    BY <2>1, <2>4
  <2>6. F[m] = F[m - 1] \o s[m] /\ F[m - 1] \in Seq(S) /\ s[m] \in Seq(S)
    BY <1>1, <1>3, <2>4 DEF RunsTo
  <2>7. InRange(F[m]) <=> InRange(F[m - 1]) /\ InRange(s[m])
    BY <2>6, ConcatInRange
  <2>8. All(m) <=> All(m - 1) /\ InRange(s[m])
    <3>1. \A i \in 1 .. m : i = m \/ i \in 1 .. m - 1
      BY <2>4
    <3>2. \A i \in 1 .. m - 1 : i \in 1 .. m
      BY <2>4
    <3> QED BY <2>4, <3>1, <3>2
  <2> QED BY <2>2, <2>5, <2>7, <2>8
<1>5. n \in 0 .. n
  BY <1>3
<1> QED BY <1>2, <1>4, <1>5

-----------------------------------------------------------------------------
(* The chunks of a group and what they generate.                           *)

\* A path gives at most two rings.
LEMMA OutputIsSeq ==
  ASSUME NEW i, NEW t, NEW d
  PROVE  PathOutput(i, t, d) \in Seq({PathOutput(i, t, d)[1], PathOutput(i, t, d)[2]})
<1> DEFINE o == PathOutput(i, t, d)
<1>1. o = <<>> \/ (\E a : o = <<a>>) \/ (\E a, b : o = <<a, b>>)
  <2> DEFINE path == group.paths[i]
             rings(e) == CASE e = "Polygon" -> <<offset_polygon(path, assign_normals(path), group.join_type, GroupDelta(d))>>
                           [] e = "Joined" -> offset_open_joined(path, group.join_type, GroupDelta(d))
                           [] OTHER -> <<offset_open_path(path, group.join_type, e, GroupDelta(d))>>
             ends == IF Len(path) = 2 /\ group.end_type = "Joined" THEN "Square" ELSE t
  <2>1. o = IF Len(path) = 1 THEN append_single_point_offset(path[1], GroupDelta(d)) ELSE rings(ends)
    BY DEF PathOutput, build_offset_path_with_end_type
  <2>2. \E a, b : offset_open_joined(path, group.join_type, GroupDelta(d)) = <<a, b>>
    BY DEF offset_open_joined
  <2>3. \A e : (\E a : rings(e) = <<a>>) \/ (\E a, b : rings(e) = <<a, b>>)
    BY <2>2
  <2>4. \/ append_single_point_offset(path[1], GroupDelta(d)) = <<>>
        \/ \E a : append_single_point_offset(path[1], GroupDelta(d)) = <<a>>
    BY DEF append_single_point_offset
  <2> HIDE DEF o, path, rings, ends
  <2> QED BY <2>1, <2>3, <2>4
<1> HIDE DEF o
<1>2. o \in Seq({o[1], o[2]})
  <2>1. CASE o = <<>>
    BY <2>1
  <2>2. ASSUME NEW a, o = <<a>> PROVE o \in Seq({o[1], o[2]})
    <3>1. o[1] = a /\ <<a>> \in Seq({a, o[2]})
      BY <2>2
    <3> QED BY <2>2, <3>1
  <2>3. ASSUME NEW a, NEW b, o = <<a, b>> PROVE o \in Seq({o[1], o[2]})
    <3>1. o[1] = a /\ o[2] = b /\ <<a, b>> \in Seq({a, b})
      BY <2>3
    <3> QED BY <2>3, <3>1
  <2> QED BY <1>1, <2>1, <2>2, <2>3
<1> QED BY <1>2 DEF o

Outputs == [i \in Path |-> PathOutput(i, group.end_type, delta)]

LEMMA OutputsType ==
  ASSUME PathCount \in Nat
  PROVE  \E S : \A i \in Path : PathOutput(i, group.end_type, delta) \in Seq(S)
<1> DEFINE o(i) == PathOutput(i, group.end_type, delta)
           S == UNION {{o(i)[1], o(i)[2]} : i \in Path}
<1>1. ASSUME NEW i \in Path PROVE o(i) \in Seq(S)
  <2>1. o(i) \in Seq({o(i)[1], o(i)[2]}) /\ {o(i)[1], o(i)[2]} \subseteq S
    BY OutputIsSeq
  <2> HIDE DEF o, S
  <2> QED BY <2>1
<1> QED BY <1>1

\* The chunks so far follow on each other from the first path on; none is empty.
ChunksFollow ==
  /\ chunks \in Seq([begin : Nat, end : Nat])
  /\ \A c \in DOMAIN chunks :
       /\ chunks[c].begin = IF c = 1 THEN 0 ELSE chunks[c - 1].end
       /\ chunks[c].begin < chunks[c].end /\ chunks[c].end <= PathCount

\* Chunks that reach the last path generate, one after the other, what a loop
\* over the paths generates.
LEMMA ChunksGiveAll ==
  ASSUME PathCount \in Nat, ChunksFollow, Begin = PathCount
  PROVE  /\ FlattenSeq([c \in DOMAIN chunks |-> ChunkOutput(chunks[c])]) = FlattenSeq(Outputs)
         /\ InRange(FlattenSeq(Outputs)) <=> \A c \in DOMAIN chunks : InRange(ChunkOutput(chunks[c]))
<1> DEFINE n == Len(chunks)
           w == [c \in DOMAIN chunks |-> ChunkOutput(chunks[c])]
<1>1. PICK S : \A i \in Path : PathOutput(i, group.end_type, delta) \in Seq(S)
  BY OutputsType
<1>2. n \in Nat /\ DOMAIN chunks = 1 .. n
  BY DEF ChunksFollow
<1>3. Outputs \in Seq(Seq(S)) /\ Len(Outputs) = PathCount /\ \A i \in Path : Outputs[i] = PathOutput(i, group.end_type, delta)
  BY <1>1 DEF Outputs, Path
<1>4. PICK F \in [0 .. PathCount -> Seq(S)] : RunsTo(F, Outputs, PathCount)
  <2>1. \E F \in [0 .. Len(Outputs) -> Seq(S)] : RunsTo(F, Outputs, Len(Outputs))
    BY <1>3, RunExists
  <2> QED BY <1>3, <2>1
<1>5. FlattenSeq(Outputs) = F[PathCount]
  BY <1>3, <1>4, FlattenIsRun
<1>6. ASSUME NEW c \in DOMAIN chunks
      PROVE  /\ chunks[c].begin \in 0 .. PathCount /\ chunks[c].end \in 0 .. PathCount
             /\ ChunkOutput(chunks[c]) \in Seq(S)
             /\ F[chunks[c].end] = F[chunks[c].begin] \o ChunkOutput(chunks[c])
  <2> DEFINE b == chunks[c].begin
             e == chunks[c].end
             u == [k \in 1 .. e - b |-> PathOutput(b + k, group.end_type, delta)]
  <2>1. b \in Nat /\ e \in Nat /\ b < e /\ e <= PathCount
    <3>1. chunks[c] \in [begin : Nat, end : Nat]
      BY ElementOfSeq, <1>2 DEF ChunksFollow
    <3>2. chunks[c].begin < chunks[c].end /\ chunks[c].end <= PathCount
      BY DEF ChunksFollow
    <3> QED BY <3>1, <3>2
  <2>2. ChunkOutput(chunks[c]) = FlattenSeq(u)
    BY DEF ChunkOutput
  <2> HIDE DEF b, e
  <2>3. \A k \in 1 .. e - b : b + k \in Path
    BY <2>1 DEF Path
  <2>4. u \in Seq(Seq(S)) /\ Len(u) = e - b /\ \A k \in 1 .. e - b : u[k] = Outputs[b + k]
    <3>1. \A k \in 1 .. e - b : PathOutput(b + k, group.end_type, delta) \in Seq(S)
      BY <1>1, <2>3
    <3>2. e - b \in Nat
      BY <2>1
    <3>3. u \in Seq(Seq(S)) /\ Len(u) = e - b
      BY <3>1, <3>2, SMTT(30)
    <3>4. \A k \in 1 .. e - b : u[k] = Outputs[b + k]
      BY <1>3, <2>3
    <3> QED BY <3>3, <3>4
  <2> HIDE DEF u
  <2>5. F[b + Len(u)] = F[b] \o FlattenSeq(u)
    <3>1. b \in 0 .. Len(Outputs) /\ b + Len(u) <= Len(Outputs)
      BY <1>3, <2>1, <2>4, SMTT(30)
    <3>2. \A k \in 1 .. Len(u) : u[k] = Outputs[b + k]
      BY <2>4
    <3> DEFINE s == Outputs
    <3>3. s \in Seq(Seq(S)) /\ Len(s) = PathCount
      BY <1>3
    <3> HIDE DEF s
    <3>4. F \in [0 .. Len(s) -> Seq(S)] /\ RunsTo(F, s, Len(s))
      BY <1>4, <3>3 DEF s
    <3>5. b \in 0 .. Len(s) /\ IsPiece(u, s, b)
      BY <3>1, <3>2 DEF s, IsPiece
    <3>6. u \in Seq(Seq(S))
      BY <2>4
    <3>7. Advances(F, b, u)
      BY <3>3, <3>4, <3>5, <3>6, PieceOfRun, Zenon
    <3> QED BY <3>7 DEF Advances
  <2>6. b + Len(u) = e /\ b \in 0 .. PathCount /\ e \in 0 .. PathCount
    <3>1. Len(u) = e - b
      BY <2>4
    <3> HIDE DEF u
    <3> QED BY <2>1, <3>1
  <2>7. FlattenSeq(u) \in Seq(S)
    BY <2>4, FlattenedType
  <2> QED BY <2>2, <2>5, <2>6, <2>7 DEF b, e
<1>7. w \in Seq(Seq(S)) /\ Len(w) = n /\ DOMAIN w = 1 .. n /\ \A c \in 1 .. n : w[c] = ChunkOutput(chunks[c])
  BY <1>2, <1>6
<1> HIDE DEF w
<1> DEFINE G == [c \in 0 .. n |-> IF c = 0 THEN F[0] ELSE F[chunks[c].end]]
<1>8. G \in [0 .. n -> Seq(S)]
  <2>1. F[0] \in Seq(S) /\ \A c \in 1 .. n : F[chunks[c].end] \in Seq(S)
    BY <1>2, <1>4, <1>6
  <2> HIDE DEF n
  <2> QED BY <2>1
<1>9. RunsTo(G, w, n)
  <2>1. G[0] = <<>>
    BY <1>2, <1>4 DEF RunsTo
  <2>2. ASSUME NEW c \in 1 .. n PROVE G[c] = G[c - 1] \o w[c]
    <3>1. c \in DOMAIN chunks /\ c \in 0 .. n /\ c - 1 \in 0 .. n /\ c # 0
      BY <1>2
    <3>2. G[c] = F[chunks[c].begin] \o w[c]
      BY <1>6, <1>7, <3>1
    <3>3. G[c - 1] = F[chunks[c].begin]
      <4>1. chunks[c].begin = IF c = 1 THEN 0 ELSE chunks[c - 1].end
        BY <3>1 DEF ChunksFollow
      <4> QED BY <3>1, <4>1
    <3> QED BY <3>2, <3>3
  <2> QED BY <2>1, <2>2 DEF RunsTo
<1>10. G[n] = F[PathCount]
  <2>1. CASE n = 0
    <3>1. chunks = <<>>
      BY <2>1 DEF ChunksFollow
    <3>2. PathCount = 0
      BY <3>1 DEF Begin
    <3> QED BY <2>1, <3>2
  <2>2. CASE n # 0
    <3>1. chunks # <<>> /\ n \in 0 .. n
      BY <1>2, <2>2
    <3>2. chunks[n].end = PathCount
      BY <3>1 DEF Begin, Last
    <3> QED BY <2>2, <3>1, <3>2
  <2> QED BY <2>1, <2>2
<1> HIDE DEF G
<1>11. FlattenSeq(w) = G[n]
  BY <1>7, <1>8, <1>9, FlattenIsRun
<1>12. InRange(FlattenSeq(w)) <=> \A c \in 1 .. n : InRange(w[c])
  BY <1>7, FlattenInRange
<1>13. FlattenSeq(w) = FlattenSeq(Outputs)
  BY <1>5, <1>10, <1>11
<1>14. InRange(FlattenSeq(Outputs)) <=> \A c \in DOMAIN chunks : InRange(ChunkOutput(chunks[c]))
  BY <1>2, <1>7, <1>12, <1>13
<1> QED BY <1>13, <1>14 DEF w

-----------------------------------------------------------------------------
(* How many chunks there are and where they end.                           *)

LEMMA QuarterBound ==
  ASSUME NEW n \in Nat, NEW c \in Nat, c < n \div 4 + (IF n % 4 # 0 THEN 1 ELSE 0)
  PROVE  c * 4 <= n
  OBVIOUS

LEMMA ChunkCountBound ==
  ASSUME limit \in Nat, PathCount \in Nat
  PROVE  ChunkCount \in Int /\ ChunkCount <= PathCount
<1> DEFINE c == Min({limit, MaximumConcurrency})
           p == PathCount \div 4 + (IF PathCount % 4 # 0 THEN 1 ELSE 0)
<1>1. c \in Nat
  <2>1. {limit, MaximumConcurrency} \subseteq Nat /\ {limit, MaximumConcurrency} # {}
    BY OffsetAssumption
  <2>2. \E m \in {limit, MaximumConcurrency} : \A k \in {limit, MaximumConcurrency} : m <= k
    BY <2>1, Least
  <2>3. c \in {limit, MaximumConcurrency}
    BY <2>2 DEF Min
  <2> QED BY <2>1, <2>3
<1>2. ChunkCount = IF c >= p THEN PathCount ELSE c * 4
  BY DEF ChunkCount
<1> HIDE DEF c
<1>3. c < p => c * 4 <= PathCount
  BY <1>1, QuarterBound
<1>4. p \in Nat
  OBVIOUS
<1> HIDE DEF p
<1> QED BY <1>1, <1>2, <1>3, <1>4

LEMMA ChunkEndWithin ==
  ASSUME Begin \in Nat, LatestEnd \in Int, Begin + 1 <= LatestEnd, NEW target
  PROVE  ChunkEnd(target) \in Begin + 1 .. LatestEnd
<1> DEFINE T == {e \in Begin + 1 .. LatestEnd : Points(Begin + 1 .. e) >= target} \cup {LatestEnd}
<1>1. T \subseteq Begin + 1 .. LatestEnd /\ T # {}
  OBVIOUS
<1>2. T \subseteq Nat
  BY <1>1
<1>3. ChunkEnd(target) = Min(T)
  BY DEF ChunkEnd
<1> HIDE DEF T
<1>4. \E m \in T : \A k \in T : m <= k
  BY <1>1, <1>2, Least
<1>5. Min(T) \in T
  BY <1>4 DEF Min
<1> QED BY <1>1, <1>3, <1>5

LEMMA BeginType ==
  ASSUME PathCount \in Nat, ChunksFollow
  PROVE  Begin \in 0 .. PathCount
<1>1. CASE chunks = <<>>
  BY <1>1 DEF Begin
<1>2. CASE chunks # <<>>
  <2>1. chunks \in Seq([begin : Nat, end : Nat])
    BY DEF ChunksFollow
  <2>2. Len(chunks) \in 1 .. Len(chunks) /\ DOMAIN chunks = 1 .. Len(chunks)
    BY <1>2, <2>1
  <2>3. chunks[Len(chunks)] \in [begin : Nat, end : Nat]
    BY <2>1, <2>2, ElementOfSeq
  <2>4. chunks[Len(chunks)].end \in Nat /\ chunks[Len(chunks)].end <= PathCount
    BY <2>2, <2>3 DEF ChunksFollow
  <2> QED BY <1>2, <2>4 DEF Begin, Last
<1> QED BY <1>1, <1>2

-----------------------------------------------------------------------------
(* The invariant of a group.                                               *)

RanAsPlanned ==
  DOMAIN results \subseteq DOMAIN chunks /\ \A c \in DOMAIN results : results[c] = ChunkOutput(chunks[c])

GroupInv ==
  /\ PathCount \in Nat /\ limit \in Nat
  /\ ChunksFollow /\ RanAsPlanned
  /\ pc \in {"idle", "called"} => chunks = <<>>
  /\ pc \in {"idle", "called", "chunking"} => results = <<>>
  /\ pc \in {"chunking", "executing"} => UsesExecutor
  /\ pc = "executing" => Begin = PathCount
  /\ ChunksWithinPaths
  /\ ParallelMatchesSerial

\* What the steps of a call leave alone decides what its group gives.
SameGroup ==
  /\ PathCount' = PathCount /\ ChunkCount' = ChunkCount
  /\ UsesExecutor' = UsesExecutor /\ SerialAnswer' = SerialAnswer
  /\ PreparedDelta(delta)' = PreparedDelta(delta)
  /\ \A chunk : ChunkOutput(chunk)' = ChunkOutput(chunk)

LEMMA GroupStays ==
  ASSUME UNCHANGED <<group, limit, delta>>
  PROVE  SameGroup
<1>1. PathCount' = PathCount
  BY DEF PathCount
<1>2. ChunkCount' = ChunkCount
  BY <1>1 DEF ChunkCount
<1>3. UsesExecutor' = UsesExecutor
  BY DEF UsesExecutor, IsEligible, HasJoinedTwoPointPath, Points, Path, PathCount
<1>4. PreparedDelta(delta)' = PreparedDelta(delta)
  BY DEF PreparedDelta
<1>5. SerialAnswer' = SerialAnswer
  BY DEF SerialAnswer, PathOutput, GroupDelta, PreparedDelta, SerialEndType, Path, PathCount
<1>6. \A chunk : ChunkOutput(chunk)' = ChunkOutput(chunk)
  BY DEF ChunkOutput, PathOutput, GroupDelta, PreparedDelta
<1> QED BY <1>1, <1>2, <1>3, <1>4, <1>5, <1>6 DEF SameGroup

\* The invariant after a step that leaves the chunks and their results alone.
LEMMA InvAfter ==
  ASSUME GroupInv, SameGroup, UNCHANGED <<limit, chunks, results>>,
         (pc \in {"idle", "called"} => chunks = <<>>)',
         (pc \in {"idle", "called", "chunking"} => results = <<>>)',
         (pc \in {"chunking", "executing"} => UsesExecutor)',
         (pc = "executing" => Begin = PathCount)',
         ChunksWithinPaths', ParallelMatchesSerial'
  PROVE  GroupInv'
<1>1. PathCount' \in Nat /\ limit' \in Nat
  BY DEF GroupInv, SameGroup
<1>2. ChunksFollow'
  BY DEF GroupInv, SameGroup, ChunksFollow
<1>3. RanAsPlanned'
  BY DEF GroupInv, SameGroup, RanAsPlanned
<1> QED BY <1>1, <1>2, <1>3 DEF GroupInv

LEMMA InvBuildSerially ==
  ASSUME GroupInv, BuildSerially
  PROVE  GroupInv'
<1>1. SameGroup
  BY GroupStays DEF BuildSerially
<1>2. /\ pc = "called" /\ pc' = "done" /\ UNCHANGED <<limit, chunks, results>>
      /\ answer' = SerialAnswer /\ state_delta' = PreparedDelta(delta)
  BY DEF BuildSerially
<1>3. ParallelMatchesSerial'
  BY <1>1, <1>2 DEF ParallelMatchesSerial, SameGroup
<1>4. ChunksWithinPaths'
  BY <1>2 DEF ChunksWithinPaths
<1> QED BY <1>1, <1>2, <1>3, <1>4, InvAfter

LEMMA InvBeginChunks ==
  ASSUME GroupInv, BeginChunks
  PROVE  GroupInv'
<1>1. SameGroup
  BY GroupStays DEF BeginChunks
<1>2. pc = "called" /\ pc' = "chunking" /\ UsesExecutor /\ UNCHANGED <<limit, chunks, results>>
  BY DEF BeginChunks
<1>3. chunks = <<>> /\ results = <<>>
  BY <1>2 DEF GroupInv
<1>4. ChunksWithinPaths'
  <2>1. ChunkCount \in Int /\ ChunkCount <= PathCount /\ PathCount \in Nat
    BY ChunkCountBound DEF GroupInv
  <2>2. RemainingChunks' = ChunkCount - Len(<<>>) /\ Begin' = 0 /\ PathCount' = PathCount
    BY <1>1, <1>2, <1>3 DEF RemainingChunks, Begin, SameGroup
  <2> QED BY <2>1, <2>2 DEF ChunksWithinPaths
<1>5. ParallelMatchesSerial'
  BY <1>2 DEF ParallelMatchesSerial
<1>6. UsesExecutor'
  BY <1>1, <1>2 DEF SameGroup
<1> QED BY <1>1, <1>2, <1>3, <1>4, <1>5, <1>6, InvAfter

\* A chunk that is appended ends after the one before it.
LEMMA InvAppend ==
  ASSUME GroupInv, pc = "chunking", NEW end \in Begin + 1 .. PathCount, AppendChunk(end),
         RemainingChunks - 1 <= PathCount - end
  PROVE  GroupInv'
<1>1. SameGroup
  BY GroupStays DEF AppendChunk
<1>2. pc' = pc /\ limit' = limit /\ results' = results /\ chunks' = Append(chunks, [begin |-> Begin, end |-> end])
  BY DEF AppendChunk
<1>3. PathCount \in Nat /\ limit \in Nat /\ ChunksFollow /\ results = <<>> /\ UsesExecutor
  BY DEF GroupInv
<1>4. Begin \in 0 .. PathCount
  BY <1>3, BeginType
<1>5. Len(chunks) \in Nat /\ DOMAIN chunks = 1 .. Len(chunks) /\ chunks \in Seq([begin : Nat, end : Nat])
  BY <1>3 DEF ChunksFollow
<1> DEFINE new == [begin |-> Begin, end |-> end]
<1>6. new \in [begin : Nat, end : Nat] /\ new.begin = Begin /\ new.end = end
  BY <1>3, <1>4
<1> HIDE DEF new
<1>7. /\ chunks' \in Seq([begin : Nat, end : Nat]) /\ Len(chunks') = Len(chunks) + 1
      /\ DOMAIN chunks' = 1 .. Len(chunks) + 1
      /\ \A c \in 1 .. Len(chunks) : chunks'[c] = chunks[c]
      /\ chunks'[Len(chunks) + 1] = new
  BY <1>2, <1>5, <1>6 DEF new
<1>8. ChunksFollow'
  <2>1. ASSUME NEW c \in 1 .. Len(chunks)
        PROVE  /\ chunks'[c].begin = IF c = 1 THEN 0 ELSE chunks'[c - 1].end
               /\ chunks'[c].begin < chunks'[c].end /\ chunks'[c].end <= PathCount
    <3>1. c # 1 => c - 1 \in 1 .. Len(chunks)
      BY <1>5
    <3>2. /\ chunks[c].begin = IF c = 1 THEN 0 ELSE chunks[c - 1].end
          /\ chunks[c].begin < chunks[c].end /\ chunks[c].end <= PathCount
      BY <1>3, <1>5 DEF ChunksFollow
    <3>3. chunks'[c] = chunks[c] /\ (c # 1 => chunks'[c - 1] = chunks[c - 1])
      BY <1>7, <3>1
    <3> QED BY <3>2, <3>3
  <2> DEFINE k == Len(chunks) + 1
  <2>2. /\ chunks'[k].begin = IF k = 1 THEN 0 ELSE chunks'[k - 1].end
        /\ chunks'[k].begin < chunks'[k].end /\ chunks'[k].end <= PathCount
    <3>1. Begin = IF k = 1 THEN 0 ELSE chunks[k - 1].end
      BY <1>5 DEF Begin, Last
    <3>2. k # 1 => chunks'[k - 1] = chunks[k - 1]
      BY <1>5, <1>7
    <3> QED BY <1>3, <1>4, <1>6, <1>7, <3>1, <3>2
  <2>3. \A c \in 1 .. k : c \in 1 .. Len(chunks) \/ c = k
    BY <1>5
  <2> HIDE DEF k
  <2>4. \A c \in DOMAIN chunks' :
          /\ chunks'[c].begin = IF c = 1 THEN 0 ELSE chunks'[c - 1].end
          /\ chunks'[c].begin < chunks'[c].end /\ chunks'[c].end <= PathCount
    BY <1>7, <2>1, <2>2, <2>3 DEF k
  <2>5. PathCount' = PathCount
    BY <1>1 DEF SameGroup
  <2> QED BY <1>7, <2>4, <2>5 DEF ChunksFollow
<1>9. Begin' = end
  <2>1. chunks' # <<>>
    BY <1>5, <1>7
  <2> QED BY <1>6, <1>7, <2>1 DEF Begin, Last
<1>10. ChunksWithinPaths'
  <2>1. ChunkCount \in Int
    BY <1>3, ChunkCountBound
  <2>2. RemainingChunks' = RemainingChunks - 1
    BY <1>1, <1>5, <1>7, <2>1 DEF RemainingChunks, SameGroup
  <2>3. PathCount' = PathCount
    BY <1>1 DEF SameGroup
  <2> QED BY <1>9, <2>2, <2>3 DEF ChunksWithinPaths
<1>11. RanAsPlanned'
  <2>1. DOMAIN results' = {}
    BY <1>2, <1>3
  <2> QED BY <2>1 DEF RanAsPlanned
<1>12. UsesExecutor' /\ PathCount' \in Nat /\ limit' \in Nat
  BY <1>1, <1>2, <1>3 DEF SameGroup
<1>13. ParallelMatchesSerial'
  BY <1>2 DEF ParallelMatchesSerial
<1> QED BY <1>2, <1>3, <1>8, <1>10, <1>11, <1>12, <1>13 DEF GroupInv

LEMMA InvBuildChunk ==
  ASSUME GroupInv, BuildChunk
  PROVE  GroupInv'
<1> DEFINE end == ChunkEnd((remaining_points + RemainingChunks - 1) \div RemainingChunks)
<1>1. pc = "chunking" /\ RemainingChunks > 0 /\ AppendChunk(end)
  BY DEF BuildChunk
<1> HIDE DEF end
<1>2. /\ PathCount \in Nat /\ Begin \in 0 .. PathCount /\ RemainingChunks <= PathCount - Begin
      /\ RemainingChunks \in Int
  <2>1. PathCount \in Nat /\ limit \in Nat /\ ChunksFollow
    BY DEF GroupInv
  <2>2. ChunkCount \in Int /\ Len(chunks) \in Nat
    BY <2>1, ChunkCountBound DEF ChunksFollow
  <2>3. RemainingChunks <= PathCount - Begin
    BY <1>1 DEF GroupInv, ChunksWithinPaths
  <2> QED BY <2>1, <2>2, <2>3, BeginType DEF RemainingChunks
<1>3. LatestEnd = PathCount - (RemainingChunks - 1)
  BY DEF LatestEnd
<1>4. Begin \in Nat /\ LatestEnd \in Int /\ Begin + 1 <= LatestEnd /\ LatestEnd <= PathCount
  BY <1>1, <1>2, <1>3
<1>5. end \in Begin + 1 .. LatestEnd
  BY <1>4, ChunkEndWithin DEF end
<1>6. end \in Begin + 1 .. PathCount /\ RemainingChunks - 1 <= PathCount - end
  BY <1>2, <1>3, <1>4, <1>5
<1> QED BY <1>1, <1>6, InvAppend

LEMMA InvBuildChunkTooMany ==
  ASSUME GroupInv, BuildChunkTooMany
  PROVE  GroupInv'
<1>1. pc = "chunking" /\ Begin < PathCount /\ RemainingChunks <= 0
  BY DEF BuildChunkTooMany
<1>2. CASE AppendChunk(Begin + 1)
  <2>1. PathCount \in Nat /\ limit \in Nat /\ ChunksFollow
    BY DEF GroupInv
  <2>2. ChunkCount \in Int /\ Len(chunks) \in Nat /\ Begin \in 0 .. PathCount
    BY <2>1, ChunkCountBound, BeginType DEF ChunksFollow
  <2>3. RemainingChunks \in Int
    BY <2>2 DEF RemainingChunks
  <2>4. Begin + 1 \in Begin + 1 .. PathCount /\ RemainingChunks - 1 <= PathCount - (Begin + 1)
    BY <1>1, <2>1, <2>2, <2>3
  <2> QED BY <1>1, <1>2, <2>4, InvAppend
<1>3. CASE pc' = "trapped" /\ UNCHANGED <<group, limit, delta, chunks, remaining_points, results, answer, state_delta>>
  <2>1. SameGroup
    BY <1>3, GroupStays
  <2>2. ChunksWithinPaths' /\ ParallelMatchesSerial'
    BY <1>3 DEF ChunksWithinPaths, ParallelMatchesSerial
  <2> QED BY <1>3, <2>1, <2>2, InvAfter
<1> QED BY <1>2, <1>3 DEF BuildChunkTooMany

LEMMA InvBeginExecution ==
  ASSUME GroupInv, BeginExecution
  PROVE  GroupInv'
<1>1. SameGroup
  BY GroupStays DEF BeginExecution
<1>2. pc = "chunking" /\ Begin = PathCount /\ pc' = "executing" /\ UNCHANGED <<limit, chunks, results>>
  BY DEF BeginExecution
<1>3. UsesExecutor' /\ PathCount' = PathCount
  BY <1>1, <1>2 DEF GroupInv, SameGroup
<1>4. Begin' = Begin
  BY <1>2 DEF Begin
<1>5. ChunksWithinPaths' /\ ParallelMatchesSerial'
  BY <1>2 DEF ChunksWithinPaths, ParallelMatchesSerial
<1> QED BY <1>1, <1>2, <1>3, <1>4, <1>5, InvAfter

\* A thread gives its chunks what they generate.
LEMMA InvRunRange ==
  ASSUME GroupInv, RunRange
  PROVE  GroupInv'
<1>1. SameGroup
  BY GroupStays DEF RunRange
<1>2. pc = "executing" /\ UNCHANGED <<limit, chunks, pc>>
  BY DEF RunRange
<1>3. PICK first \in DOMAIN chunks, last \in DOMAIN chunks :
        results' = [c \in DOMAIN results \cup (first .. last) |->
                      IF c \in DOMAIN results THEN results[c] ELSE ChunkOutput(chunks[c])]
  BY DEF RunRange
<1>4. /\ PathCount \in Nat /\ limit \in Nat /\ ChunksFollow /\ RanAsPlanned
      /\ UsesExecutor /\ Begin = PathCount
  BY <1>2 DEF GroupInv
<1>5. first .. last \subseteq DOMAIN chunks
  <2>1. DOMAIN chunks = 1 .. Len(chunks) /\ Len(chunks) \in Nat
    BY <1>4 DEF ChunksFollow
  <2> QED BY <2>1
<1>6. RanAsPlanned'
  <2>1. DOMAIN results' \subseteq DOMAIN chunks /\ \A c \in DOMAIN results' : results'[c] = ChunkOutput(chunks[c])
    BY <1>3, <1>4, <1>5 DEF RanAsPlanned
  <2>2. \A chunk : ChunkOutput(chunk)' = ChunkOutput(chunk)
    BY <1>1 DEF SameGroup
  <2> QED BY <1>2, <2>1, <2>2 DEF RanAsPlanned
<1>7. ChunksFollow' /\ Begin' = Begin /\ PathCount' = PathCount /\ UsesExecutor' /\ limit' \in Nat
  BY <1>1, <1>2, <1>4 DEF ChunksFollow, Begin, SameGroup
<1>8. ChunksWithinPaths' /\ ParallelMatchesSerial'
  BY <1>2 DEF ChunksWithinPaths, ParallelMatchesSerial
<1> QED BY <1>2, <1>4, <1>6, <1>7, <1>8 DEF GroupInv

\* A group that is given to an executor has no path whose end type another
\* path decides, and a path that decides its direction.
LEMMA AdmittedGroup ==
  ASSUME UsesExecutor
  PROVE  SerialAnswer = RingsOrRaised(FlattenSeq(Outputs)) /\ PreparedDelta(delta) = delta
<1>1. IsEligible
  BY DEF UsesExecutor
<1>2. \A i \in Path : SerialEndType(i) = group.end_type
  BY <1>1 DEF IsEligible, HasJoinedTwoPointPath, SerialEndType
<1>3. [i \in Path |-> PathOutput(i, SerialEndType(i), delta)] = Outputs
  BY <1>2 DEF Outputs
<1>4. PreparedDelta(delta) = delta
  BY <1>1 DEF IsEligible, PreparedDelta
<1> QED BY <1>3, <1>4 DEF SerialAnswer

LEMMA InvExecutorReturns ==
  ASSUME GroupInv, ExecutorReturns
  PROVE  GroupInv'
<1>1. SameGroup
  BY GroupStays DEF ExecutorReturns
<1>2. pc = "executing" /\ pc' = "done" /\ UNCHANGED <<limit, chunks, results>> /\ state_delta' = delta
  BY DEF ExecutorReturns
<1>3. PICK failed \in BOOLEAN :
        (~ failed => DOMAIN results = DOMAIN chunks) /\ answer' = GroupAnswer(failed)
  BY DEF ExecutorReturns
<1>4. PathCount \in Nat /\ ChunksFollow /\ RanAsPlanned /\ UsesExecutor /\ Begin = PathCount
  BY <1>2 DEF GroupInv
<1>5. SerialAnswer = RingsOrRaised(FlattenSeq(Outputs)) /\ PreparedDelta(delta) = delta
  BY <1>4, AdmittedGroup
<1>6. /\ FlattenSeq([c \in DOMAIN chunks |-> ChunkOutput(chunks[c])]) = FlattenSeq(Outputs)
      /\ InRange(FlattenSeq(Outputs)) <=> \A c \in DOMAIN chunks : InRange(ChunkOutput(chunks[c]))
  BY <1>4, ChunksGiveAll
<1>7. answer'.kind # "executor_failure" => answer' = SerialAnswer
  <2>1. CASE Failed
    <3>1. PICK c \in DOMAIN results : ~ InRange(results[c])
      BY <2>1 DEF Failed
    <3>2. c \in DOMAIN chunks /\ ~ InRange(ChunkOutput(chunks[c]))
      BY <1>4, <3>1 DEF RanAsPlanned
    <3>3. ~ InRange(FlattenSeq(Outputs))
      BY <1>6, <3>2
    <3>4. SerialAnswer = Raised
      BY <1>5, <3>3 DEF RingsOrRaised
    <3> QED BY <1>3, <2>1, <3>4 DEF GroupAnswer
  <2>2. CASE ~ Failed /\ failed
    <3>1. answer' = [kind |-> "executor_failure"]
      BY <1>3, <2>2 DEF GroupAnswer
    <3> QED BY <3>1
  <2>3. CASE ~ Failed /\ ~ failed
    <3>1. DOMAIN results = DOMAIN chunks /\ \A c \in DOMAIN chunks : results[c] = ChunkOutput(chunks[c])
      BY <1>3, <1>4, <2>3 DEF RanAsPlanned
    <3>2. \A c \in DOMAIN chunks : InRange(ChunkOutput(chunks[c]))
      BY <2>3, <3>1 DEF Failed
    <3>3. SerialAnswer = [kind |-> "rings", of |-> FlattenSeq(Outputs)]
      BY <1>5, <1>6, <3>2 DEF RingsOrRaised
    <3>4. [c \in DOMAIN chunks |-> results[c]] = [c \in DOMAIN chunks |-> ChunkOutput(chunks[c])]
      BY <3>1
    <3>5. answer' = [kind |-> "rings", of |-> FlattenSeq([c \in DOMAIN chunks |-> results[c]])]
      BY <1>3, <2>3 DEF GroupAnswer
    <3> QED BY <1>6, <3>3, <3>4, <3>5
  <2> QED BY <1>3, <2>1, <2>2, <2>3
<1>8. ParallelMatchesSerial'
  <2>1. SerialAnswer' = SerialAnswer /\ PreparedDelta(delta)' = delta
    BY <1>1, <1>5 DEF SameGroup
  <2> QED BY <1>2, <1>7, <2>1 DEF ParallelMatchesSerial
<1>9. ChunksWithinPaths'
  BY <1>2 DEF ChunksWithinPaths
<1> QED BY <1>1, <1>2, <1>8, <1>9, InvAfter

LEMMA InvGroupStep ==
  ASSUME GroupInv, GroupStep
  PROVE  GroupInv'
BY InvBuildSerially, InvBeginChunks, InvBuildChunk, InvBuildChunkTooMany, InvBeginExecution,
   InvRunRange, InvExecutorReturns DEF GroupStep

LEMMA InvCallGroup ==
  ASSUME GroupInv, NEW g, Len(g.paths) \in Nat, CallGroup(g)
  PROVE  GroupInv'
<1>1. pc = "idle" /\ pc' = "called" /\ group' = g /\ UNCHANGED <<limit, chunks, results>>
  BY DEF CallGroup
<1>2. PathCount' \in Nat /\ limit' \in Nat
  BY <1>1 DEF PathCount, GroupInv
<1>3. chunks = <<>> /\ results = <<>>
  BY <1>1 DEF GroupInv
<1>4. ChunksFollow' /\ RanAsPlanned'
  BY <1>1, <1>3 DEF ChunksFollow, RanAsPlanned
<1>5. ChunksWithinPaths' /\ ParallelMatchesSerial'
  BY <1>1 DEF ChunksWithinPaths, ParallelMatchesSerial
<1> QED BY <1>1, <1>2, <1>3, <1>4, <1>5 DEF GroupInv

LEMMA NoGroupInv ==
  ASSUME group = NoGroup, limit \in Nat, pc = "idle", chunks = <<>>, results = <<>>
  PROVE  GroupInv
<1>1. PathCount \in Nat
  BY DEF PathCount, NoGroup
<1>2. ChunksFollow /\ RanAsPlanned
  BY DEF ChunksFollow, RanAsPlanned
<1>3. ChunksWithinPaths /\ ParallelMatchesSerial
  BY DEF ChunksWithinPaths, ParallelMatchesSerial
<1> QED BY <1>1, <1>2, <1>3 DEF GroupInv

\* The distance of the state is read when a group is called, not before.
LEMMA InvBetweenGroups ==
  ASSUME GroupInv, pc = "idle", UNCHANGED <<group, limit, delta, pc, chunks, remaining_points, results, answer>>
  PROVE  GroupInv'
<1>1. SameGroup
  BY GroupStays
<1>2. ChunksWithinPaths' /\ ParallelMatchesSerial'
  BY DEF ChunksWithinPaths, ParallelMatchesSerial
<1>3. pc' = "idle" /\ chunks' = <<>> /\ results' = <<>> /\ UNCHANGED <<limit, chunks, results>>
  BY DEF GroupInv
<1> QED BY <1>1, <1>2, <1>3, InvAfter

LEMMA InvUnchanged ==
  ASSUME GroupInv, UNCHANGED group_vars
  PROVE  GroupInv'
<1> USE DEF group_vars
<1>1. SameGroup
  BY GroupStays
<1>2. Begin' = Begin /\ RemainingChunks' = RemainingChunks
  BY <1>1 DEF Begin, RemainingChunks, SameGroup
<1>3. ChunksWithinPaths'
  BY <1>1, <1>2 DEF GroupInv, ChunksWithinPaths, SameGroup
<1>4. ParallelMatchesSerial'
  BY <1>1 DEF GroupInv, ParallelMatchesSerial, SameGroup
<1>5. UsesExecutor' = UsesExecutor /\ PathCount' = PathCount
  BY <1>1 DEF SameGroup
<1> QED BY <1>1, <1>2, <1>3, <1>4, <1>5, InvAfter DEF GroupInv

-----------------------------------------------------------------------------
(* The calls.                                                              *)

\* What the call has of the caller's groups.
MadeGroups == {Collected(g, paths) : g \in ShownGroup, paths \in Paths}

CallInv ==
  /\ request \in Requests /\ read \in Nat /\ next \in Nat \ {0}
  /\ groups \in Seq(MadeGroups)
  /\ pc # "idle" => at = "generating"
  /\ GroupInv

LEMMA MadeGroupHasPaths ==
  ASSUME NEW g \in MadeGroups
  PROVE  Len(g.paths) \in Nat
<1>1. PICK s \in ShownGroup, paths \in Paths : g = Collected(s, paths)
  BY DEF MadeGroups
<1>2. g.paths = [i \in DOMAIN paths |-> CleanPath(paths[i], is_closed_path(s.end_type))]
  BY <1>1 DEF Collected
<1>3. DOMAIN paths = 1 .. Len(paths) /\ Len(paths) \in Nat
  BY DEF Paths
<1> DEFINE clean(i) == CleanPath(paths[i], is_closed_path(s.end_type))
           S == {clean(i) : i \in 1 .. Len(paths)}
<1>4. [i \in 1 .. Len(paths) |-> clean(i)] \in Seq(S)
  <2> HIDE DEF clean
  <2> QED BY <1>3
<1> HIDE DEF S
<1>5. g.paths \in Seq(S)
  BY <1>2, <1>3, <1>4
<1> QED BY <1>5

LEMMA RequestGroups ==
  ASSUME NEW q \in Requests
  PROVE  q.groups \in Seq(ShownGroup) /\ q.limit \in Nat
BY OffsetCallsAssumption

LEMMA CallInvInit ==
  ASSUME Init
  PROVE  CallInv
<1>1. request \in Requests /\ limit = request.limit /\ read = 0 /\ next = 1 /\ groups = <<>> /\ GroupInit
  BY DEF Init
<1>2. limit \in Nat
  BY <1>1, RequestGroups
<1>3. GroupInv
  BY <1>1, <1>2, NoGroupInv DEF GroupInit
<1>4. groups \in Seq(MadeGroups)
  BY <1>1
<1> QED BY <1>1, <1>3, <1>4 DEF CallInv, GroupInit

\* A step that is over for the groups it does not touch.
LEMMA CallInvKept ==
  ASSUME CallInv, GroupInv', request' = request, read' \in Nat, next' \in Nat \ {0},
         groups' \in Seq(MadeGroups), pc' # "idle" => at' = "generating"
  PROVE  CallInv'
BY DEF CallInv

LEMMA NotGenerating ==
  ASSUME CallInv, at = "collecting"
  PROVE  pc = "idle"
BY DEF CallInv

LEMMA InvCollectGroup ==
  ASSUME CallInv, CollectGroup
  PROVE  CallInv'
<1>1. /\ at = "collecting" /\ read < Len(request.groups)
      /\ request' = request /\ next' = next /\ UNCHANGED group_vars
  BY DEF CollectGroup
<1> DEFINE g == request.groups[read + 1]
<1>2. \/ UNCHANGED <<read, groups>>
      \/ read' = read + 1 /\ groups' = groups \o (IF g.again = <<>> THEN <<>> ELSE <<Collected(g, g.again)>>)
  BY DEF CollectGroup
<1>3. request \in Requests /\ read \in Nat /\ next \in Nat \ {0} /\ groups \in Seq(MadeGroups) /\ GroupInv
  BY DEF CallInv
<1>4. g \in ShownGroup
  <2>1. request.groups \in Seq(ShownGroup)
    BY <1>3, RequestGroups
  <2>2. read + 1 \in 1 .. Len(request.groups)
    BY <1>1, <1>3, <2>1
  <2> QED BY <2>1, <2>2, ElementOfSeq
<1> HIDE DEF g
<1>5. Collected(g, g.again) \in MadeGroups
  BY <1>4 DEF MadeGroups, ShownGroup
<1>6. groups' \in Seq(MadeGroups) /\ read' \in Nat
  <2> DEFINE new == Collected(g, g.again)
  <2>1. new \in MadeGroups
    BY <1>5
  <2> HIDE DEF new
  <2>2. groups \o <<>> \in Seq(MadeGroups) /\ groups \o <<new>> \in Seq(MadeGroups)
    BY <1>3, <2>1
  <2> QED BY <1>2, <1>3, <2>2, SMTT(30) DEF new
<1>7. pc' = "idle"
  BY <1>1, NotGenerating DEF group_vars
<1> QED BY <1>1, <1>3, <1>6, <1>7, InvUnchanged, CallInvKept

LEMMA InvMakeGroups ==
  ASSUME CallInv, MakeGroups
  PROVE  CallInv'
<1> DEFINE made(n) == IF request.groups[n].paths = <<>> THEN <<>>
                      ELSE <<Collected(request.groups[n], request.groups[n].paths)>>
           all == [n \in DOMAIN request.groups |-> made(n)]
<1>1. at = "collecting" /\ request' = request /\ next' = next /\ UNCHANGED group_vars
  BY DEF MakeGroups
<1>2. \/ UNCHANGED <<read, groups>>
      \/ read' = Len(request.groups) /\ groups' = FlattenSeq(all)
  BY DEF MakeGroups
<1>3. request \in Requests /\ read \in Nat /\ next \in Nat \ {0} /\ groups \in Seq(MadeGroups) /\ GroupInv
  BY DEF CallInv
<1>4. request.groups \in Seq(ShownGroup)
  BY <1>3, RequestGroups
<1>5. Len(request.groups) \in Nat /\ DOMAIN request.groups = 1 .. Len(request.groups)
  BY <1>4
<1>6. ASSUME NEW n \in 1 .. Len(request.groups) PROVE made(n) \in Seq(MadeGroups)
  <2> DEFINE g == request.groups[n]
             new == Collected(g, g.paths)
  <2>1. g \in ShownGroup
    BY <1>4, ElementOfSeq
  <2>2. new \in MadeGroups
    BY <2>1 DEF MadeGroups, ShownGroup
  <2> HIDE DEF new
  <2>3. <<>> \in Seq(MadeGroups) /\ <<new>> \in Seq(MadeGroups)
    BY <2>2
  <2> QED BY <2>3 DEF new
<1>7. all \in Seq(Seq(MadeGroups))
  <2> HIDE DEF made
  <2> QED BY <1>5, <1>6
<1> HIDE DEF all
<1>8. FlattenSeq(all) \in Seq(MadeGroups)
  BY <1>7, FlattenedType
<1>9. groups' \in Seq(MadeGroups) /\ read' \in Nat
  BY <1>2, <1>3, <1>5, <1>8
<1>10. pc' = "idle"
  BY <1>1, NotGenerating DEF group_vars
<1> QED BY <1>1, <1>3, <1>9, <1>10, InvUnchanged, CallInvKept

LEMMA InvStartGeneration ==
  ASSUME CallInv, StartGeneration
  PROVE  CallInv'
<1>1. /\ at = "collecting"
      /\ UNCHANGED <<request, read, groups, group, limit, delta, pc, chunks, remaining_points, results, answer>>
  BY DEF StartGeneration
<1>2. next' = next \/ next' = Len(groups) + 1
  BY DEF StartGeneration
<1>3. read \in Nat /\ next \in Nat \ {0} /\ groups \in Seq(MadeGroups) /\ GroupInv
  BY DEF CallInv
<1>4. next' \in Nat \ {0}
  BY <1>2, <1>3
<1>5. pc = "idle" /\ pc' = "idle"
  BY <1>1, NotGenerating
<1>6. GroupInv'
  BY <1>1, <1>3, <1>5, InvBetweenGroups
<1> QED BY <1>1, <1>3, <1>4, <1>5, <1>6, CallInvKept

LEMMA InvLoadGroup ==
  ASSUME CallInv, LoadGroup
  PROVE  CallInv'
<1>1. /\ at = "generating" /\ next <= Len(groups) /\ CallGroup(groups[next])
      /\ UNCHANGED <<request, at, read, groups, next>>
  BY DEF LoadGroup, call_vars
<1>2. read \in Nat /\ next \in Nat \ {0} /\ groups \in Seq(MadeGroups) /\ GroupInv
  BY DEF CallInv
<1>3. next \in 1 .. Len(groups)
  BY <1>1, <1>2
<1>4. groups[next] \in MadeGroups
  BY <1>2, <1>3, ElementOfSeq
<1>5. GroupInv'
  BY <1>1, <1>2, <1>4, MadeGroupHasPaths, InvCallGroup
<1> QED BY <1>1, <1>2, <1>5, CallInvKept

LEMMA InvTakeRings ==
  ASSUME CallInv, TakeRings
  PROVE  CallInv'
<1>1. GroupIsDone /\ UNCHANGED <<request, read, groups>>
  BY DEF TakeRings
<1>2. next' = next \/ next' = next + 1
  BY DEF TakeRings
<1>3. read \in Nat /\ next \in Nat \ {0} /\ groups \in Seq(MadeGroups) /\ GroupInv
  BY DEF CallInv
<1>4. group' = NoGroup /\ pc' = "idle" /\ chunks' = <<>> /\ results' = <<>> /\ limit' = limit
  BY <1>1 DEF GroupIsDone
<1>5. limit' \in Nat
  BY <1>3, <1>4 DEF GroupInv
<1>6. GroupInv'
  <2>1. PathCount' \in Nat
    BY <1>4 DEF PathCount, NoGroup
  <2>2. ChunksFollow' /\ RanAsPlanned'
    BY <1>4 DEF ChunksFollow, RanAsPlanned
  <2>3. ChunksWithinPaths' /\ ParallelMatchesSerial'
    BY <1>4 DEF ChunksWithinPaths, ParallelMatchesSerial
  <2> QED BY <1>4, <1>5, <2>1, <2>2, <2>3 DEF GroupInv
<1> QED BY <1>1, <1>2, <1>3, <1>4, <1>6, CallInvKept

LEMMA InvFinish ==
  ASSUME CallInv, Finish
  PROVE  CallInv'
<1>1. pc = "idle" /\ UNCHANGED <<request, read, groups, next, group_vars>>
  BY DEF Finish
<1>2. read \in Nat /\ next \in Nat \ {0} /\ groups \in Seq(MadeGroups) /\ GroupInv
  BY DEF CallInv
<1>3. pc' = "idle"
  BY <1>1 DEF group_vars
<1> QED BY <1>1, <1>2, <1>3, InvUnchanged, CallInvKept

LEMMA InvStepOfGroup ==
  ASSUME CallInv, GroupStep, UNCHANGED call_vars
  PROVE  CallInv'
<1>1. UNCHANGED <<request, at, read, groups, next>>
  BY DEF call_vars
<1>2. read \in Nat /\ next \in Nat \ {0} /\ groups \in Seq(MadeGroups) /\ GroupInv /\ (pc # "idle" => at = "generating")
  BY DEF CallInv
<1>3. pc # "idle"
  BY DEF GroupStep, BuildSerially, BeginChunks, BuildChunk, BuildChunkTooMany, BeginExecution, RunRange,
         ExecutorReturns
<1>4. GroupInv'
  BY <1>2, InvGroupStep
<1> QED BY <1>1, <1>2, <1>3, <1>4, CallInvKept

LEMMA CallInvNext ==
  ASSUME CallInv, [Next]_vars
  PROVE  CallInv'
<1>1. CASE Next
  BY <1>1, InvCollectGroup, InvMakeGroups, InvStartGeneration, InvLoadGroup, InvStepOfGroup, InvTakeRings,
     InvFinish DEF Next
<1>2. CASE UNCHANGED vars
  <2>1. UNCHANGED group_vars /\ UNCHANGED <<request, at, read, groups, next>>
    BY <1>2 DEF vars, call_vars
  <2>2. read \in Nat /\ next \in Nat \ {0} /\ groups \in Seq(MadeGroups) /\ GroupInv /\ (pc # "idle" => at = "generating")
    BY DEF CallInv
  <2>3. pc' # "idle" => at' = "generating"
    BY <2>1, <2>2 DEF group_vars
  <2> QED BY <2>1, <2>2, <2>3, InvUnchanged, CallInvKept
<1> QED BY <1>1, <1>2

LEMMA CallInvHolds == Spec => []CallInv
<1>1. Init => CallInv
  BY CallInvInit
<1>2. CallInv /\ [Next]_vars => CallInv'
  BY CallInvNext
<1> QED BY <1>1, <1>2, PTL DEF Spec

\* Whatever the groups of a call and the limit of its executor, while the chunks
\* of a group are built (build_offset_chunks) a path is left for each of those to
\* come: the latest end is one of the group's, and no chunk is empty.
THEOREM EveryChunkHasAPath == Spec => []ChunksWithinPaths
<1>1. CallInv => ChunksWithinPaths
  BY DEF CallInv, GroupInv
<1> QED BY <1>1, CallInvHolds, PTL

\* Whatever the groups of a call, the chunks and the order and the threads they
\* run in (build_offset_group_paths_with_executor), a group answers what the
\* loop over its paths answers, and hands on the same distance.
THEOREM ExecutorChangesNothing == Spec => []ParallelMatchesSerial
<1>1. CallInv => ParallelMatchesSerial
  BY DEF CallInv, GroupInv
<1> QED BY <1>1, CallInvHolds, PTL
==============================================================================
