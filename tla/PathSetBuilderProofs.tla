------------------------ MODULE PathSetBuilderProofs ------------------------
(***************************************************************************)
(* Proofs about PathSetBuilder.                                            *)
(***************************************************************************)
EXTENDS PathSetBuilder, TLAPS

\* What the builder knows of the set: a candidate's points are those begin made
\* and its paths end at the cursor; without a candidate no point is left over.
BuilderKnowsTheSet ==
  /\ builder.active => /\ alive
                       /\ builder.point_count = points
                       /\ builder.cursor = PathsEnd
  /\ NothingIncompletePublished

Inv == TypeOK /\ PathsAreDisjoint /\ BuilderKnowsTheSet

LEMMA LastElement ==
  ASSUME NEW S, NEW q \in Seq(S), q # <<>>
  PROVE  q[Len(q)] \in S
  OBVIOUS

LEMMA PathsEndType ==
  ASSUME TypeOK, BuilderAssumption
  PROVE  PathsEnd \in Nat
<1>1. CASE paths = <<>>
  BY <1>1 DEF PathsEnd
<1>2. CASE paths # <<>>
  <2>2. paths[Len(paths)] \in [offset : Count, count : Count]
    BY <1>2, LastElement DEF TypeOK
  <2>3. paths[Len(paths)].offset \in Nat /\ paths[Len(paths)].count \in Nat
    BY <2>2 DEF Count, BuilderAssumption
  <2> QED BY <1>2, <2>3 DEF PathsEnd
<1> QED BY <1>1, <1>2

\* An empty set is in order.
LEMMA EmptySet ==
  ASSUME BuilderAssumption, paths' = <<>>, points' \in Count
  PROVE  PathsEnd' = 0 /\ PathsAreDisjoint'
  BY DEF PathsEnd, PathsAreDisjoint, Count, BuilderAssumption

\* A path that starts where the last one ended and fits keeps the set in order.
LEMMA AppendedPath ==
  ASSUME BuilderAssumption, TypeOK, PathsAreDisjoint, NEW count \in Count,
         AppendPath(PathsEnd, count), PathsEnd + count <= points', points' \in Count
  PROVE  /\ paths' \in Seq([offset : Count, count : Count])
         /\ PathsEnd' = PathsEnd + count
         /\ PathsAreDisjoint'
<1> DEFINE path == [offset |-> PathsEnd, count |-> count]
<1>1. PathsEnd \in Count /\ PathsEnd + count \in Count
  BY PathsEndType DEF Count, BuilderAssumption
<1>2. paths \in Seq([offset : Count, count : Count]) /\ paths' = Append(paths, path)
  BY DEF TypeOK, AppendPath
<1>3. path \in [offset : Count, count : Count]
  BY <1>1
<1>4. /\ Len(paths) \in Nat
      /\ paths' \in Seq([offset : Count, count : Count])
      /\ Len(paths') = Len(paths) + 1
      /\ paths'[Len(paths')] = path
      /\ \A k \in 1 .. Len(paths) : paths'[k] = paths[k]
      /\ paths' # <<>>
  BY <1>2, <1>3
<1>5. PathsEnd' = PathsEnd + count
  BY <1>4 DEF PathsEnd
<1>6. ASSUME NEW k \in DOMAIN paths'
      PROVE  paths'[k].offset = IF k = 1 THEN 0 ELSE paths'[k - 1].offset + paths'[k - 1].count
  <2>1. CASE k \in DOMAIN paths
    <3>1. k \in 1 .. Len(paths) /\ (k # 1 => k - 1 \in 1 .. Len(paths))
      BY <2>1, <1>2, <1>4
    <3>2. paths'[k] = paths[k] /\ (k # 1 => paths'[k - 1] = paths[k - 1])
      BY <3>1, <1>4
    <3> QED BY <2>1, <3>2 DEF PathsAreDisjoint
  <2>2. CASE k = Len(paths) + 1
    <3>1. paths'[k] = path
      BY <2>2, <1>4
    <3>2. CASE Len(paths) = 0
      BY <2>2, <3>1, <3>2, <1>2 DEF PathsEnd
    <3>3. CASE Len(paths) # 0
      <4>1. paths # <<>> /\ k # 1 /\ k - 1 \in 1 .. Len(paths) /\ k - 1 = Len(paths)
        BY <2>2, <3>3, <1>4
      <4>2. paths'[k - 1] = paths[Len(paths)]
        BY <4>1, <1>4
      <4> QED BY <3>1, <4>1, <4>2 DEF PathsEnd
    <3> QED BY <3>2, <3>3
  <2>3. k \in 1 .. Len(paths) \/ k = Len(paths) + 1
    BY <1>4
  <2> QED BY <2>1, <2>2, <2>3, <1>2
<1> QED BY <1>4, <1>5, <1>6 DEF PathsAreDisjoint

LEMMA InitInv ==
  ASSUME BuilderAssumption, Init
  PROVE  Inv
<1>1. PathsEnd = 0 /\ PathsAreDisjoint
  BY DEF Init, PathsEnd, PathsAreDisjoint
<1>2. TypeOK
  <2>1. 0 \in Count /\ 0 \in 0 .. MaxPaths
    BY DEF Count, BuilderAssumption
  <2>2. builder \in [path_count : 0 .. MaxPaths, point_count : Count, cursor : Count,
                     active : BOOLEAN]
    BY <2>1 DEF Init, Inactive
  <2>3. \A S : <<>> \in Seq(S)
    OBVIOUS
  <2>4. paths \in Seq([offset : Count, count : Count])
    BY <2>3 DEF Init
  <2> QED BY <2>1, <2>2, <2>4 DEF Init, TypeOK
<1> QED BY <1>1, <1>2 DEF Init, Inactive, Inv, BuilderKnowsTheSet, NothingIncompletePublished

LEMMA StepInv ==
  ASSUME BuilderAssumption, Inv, [Next]_vars
  PROVE  Inv'
<1> USE DEF Count
<1>0. PathsEnd \in Nat /\ points \in Nat /\ MaxPoints \in Nat
  BY PathsEndType DEF Inv, TypeOK, BuilderAssumption
<1>1. ASSUME paths' = <<>>, points' = 0, builder' = Inactive, alive' \in BOOLEAN
      PROVE  Inv'
  <2>1. PathsEnd' = 0 /\ PathsAreDisjoint'
    BY <1>1, <1>0, EmptySet
  <2> QED BY <1>1, <1>0, <2>1 DEF Inv, TypeOK, BuilderKnowsTheSet, NothingIncompletePublished,
                                  Inactive, BuilderAssumption
<1>2. CASE AppendToSet
  <2>1. PICK count \in 0 .. Room : AppendPath(points, count) /\ points' = points + count
    BY <1>2 DEF AppendToSet
  <2>2. /\ ~builder.active /\ PathsEnd = points
        /\ count \in Count /\ points' \in Count /\ UNCHANGED <<builder, alive>>
        /\ AppendPath(PathsEnd, count) /\ PathsEnd + count <= points'
    BY <1>2, <1>0, <2>1 DEF AppendToSet, Room, Inv, BuilderKnowsTheSet,
                            NothingIncompletePublished
  <2>3. /\ paths' \in Seq([offset : Count, count : Count])
        /\ PathsEnd' = PathsEnd + count /\ PathsAreDisjoint'
    BY <2>1, <2>2, <1>0, AppendedPath DEF Inv
  <2> QED BY <2>1, <2>2, <2>3 DEF Inv, TypeOK, BuilderKnowsTheSet, NothingIncompletePublished
<1>3. CASE Construct
  <2>1. ~builder.active /\ PathsEnd' = PathsEnd
    BY <1>3 DEF Construct, Inv, BuilderKnowsTheSet, PathsEnd
  <2> QED BY <1>3, <1>0, <2>1 DEF Construct, Inactive, Inv, TypeOK, PathsAreDisjoint,
                            BuilderKnowsTheSet, NothingIncompletePublished, BuilderAssumption
<1>4. CASE Cancel
  BY <1>1, <1>4 DEF Cancel, Cancelled, Inv, TypeOK
<1>5. CASE Begin
  <2>1. PICK path_count \in 0 .. MaxPaths, point_count \in 0 .. MaxPoints :
          /\ points' = point_count
          /\ builder' = [path_count |-> path_count, point_count |-> point_count, cursor |-> 0,
                         active |-> TRUE]
    BY <1>5 DEF Begin, Cancelled, Inactive
  <2>2. PathsEnd' = 0 /\ PathsAreDisjoint' /\ paths' = <<>> /\ alive' = alive /\ alive
    BY <1>5, <2>1, EmptySet DEF Begin
  <2> QED BY <2>1, <2>2, <1>0 DEF Inv, TypeOK, BuilderKnowsTheSet, NothingIncompletePublished
<1>6. CASE Acquire
  <2>1. PICK count \in 0 .. MaxPoints :
          /\ count <= Left /\ AppendPath(builder.cursor, count)
          /\ builder' = [builder EXCEPT !.cursor = @ + count]
    BY <1>6 DEF Acquire
  <2>2. /\ builder.active /\ builder.cursor = PathsEnd /\ builder.point_count = points
        /\ PathsEnd + count <= points /\ UNCHANGED <<points, alive>>
        /\ AppendPath(PathsEnd, count) /\ PathsEnd + count \in Count
    BY <1>6, <1>0, <2>1 DEF Acquire, Left, Inv, TypeOK, BuilderKnowsTheSet
  <2>3. /\ paths' \in Seq([offset : Count, count : Count])
        /\ PathsEnd' = PathsEnd + count /\ PathsAreDisjoint'
    BY <2>1, <2>2, <1>0, AppendedPath DEF Inv, TypeOK
  <2>4. /\ builder' \in [path_count : 0 .. MaxPaths, point_count : Count, cursor : Count,
                          active : BOOLEAN]
        /\ builder'.active /\ builder'.point_count = points' /\ builder'.cursor = PathsEnd'
    BY <2>1, <2>2, <2>3 DEF Inv, TypeOK
  <2> QED BY <2>2, <2>3, <2>4 DEF Acquire, Inv, TypeOK, BuilderKnowsTheSet,
                                  NothingIncompletePublished
<1>7. CASE Finish
  <2>1. PathsEnd' = PathsEnd /\ PathsEnd = points
    BY <1>7 DEF Finish, Inv, BuilderKnowsTheSet, PathsEnd
  <2> QED BY <1>7, <2>1 DEF Finish, Inv, TypeOK, PathsAreDisjoint, BuilderKnowsTheSet,
                            NothingIncompletePublished
<1>8. CASE Destroy
  <2>1. CASE builder.active
    BY <1>1, <1>8, <2>1 DEF Destroy, Cancelled
  <2>2. CASE ~builder.active
    <3>1. PathsEnd' = PathsEnd
      BY <1>8, <2>2 DEF Destroy, PathsEnd
    <3> QED BY <1>8, <2>2, <3>1 DEF Destroy, Inv, TypeOK, PathsAreDisjoint, BuilderKnowsTheSet,
                                    NothingIncompletePublished
  <2> QED BY <2>1, <2>2
<1>9. CASE UNCHANGED vars
  <2>1. PathsEnd' = PathsEnd
    BY <1>9 DEF vars, PathsEnd
  <2> QED BY <1>9, <2>1 DEF vars, Inv, TypeOK, PathsAreDisjoint, BuilderKnowsTheSet,
                            NothingIncompletePublished
<1> QED BY <1>2, <1>3, <1>4, <1>5, <1>6, <1>7, <1>8, <1>9 DEF Next

\* For every number of paths and points: the paths of a set are consecutive and
\* within its points, and a set that nobody writes is complete.
THEOREM SetsAreComplete == Spec => [](PathsAreDisjoint /\ NothingIncompletePublished)
<1>1. Init => Inv
  BY InitInv, BuilderAssumption
<1>2. Inv /\ [Next]_vars => Inv'
  BY StepInv, BuilderAssumption
<1>3. Inv => PathsAreDisjoint /\ NothingIncompletePublished
  BY DEF Inv, BuilderKnowsTheSet
<1> QED BY <1>1, <1>2, <1>3, PTL DEF Spec
=============================================================================
