---------------------------- MODULE PathSetBuilder ----------------------------
(***************************************************************************)
(* A path set, its points and one descriptor per path, and the builder     *)
(* that writes a candidate into it: begin sizes the set, acquire hands out *)
(* the span of the next path, finish commits and cancel empties the set.   *)
(* The caller may call them in any order, and begin may fail half way.     *)
(* Points are counted; their coordinates are left out.                     *)
(***************************************************************************)
EXTENDS Integers, Sequences

CONSTANTS
  MaxPaths,   \* bound: paths of a set
  MaxPoints   \* maximumDescriptorValue, the points a descriptor can address

ASSUME BuilderAssumption == MaxPaths \in Nat /\ MaxPoints \in Nat

VARIABLES
  paths,    \* the descriptors of the set
  points,   \* the number of points of the set
  builder,  \* the members of the builder
  alive     \* the builder exists

vars == <<paths, points, builder, alive>>

Inactive == [path_count |-> 0, point_count |-> 0, cursor |-> 0, active |-> FALSE]

Init ==
  /\ paths = <<>> /\ points = 0
  /\ builder = Inactive
  /\ alive = FALSE

AppendPath(offset, count) == paths' = Append(paths, [offset |-> offset, count |-> count])

\* The points a path may still add.
Room == MaxPoints - points

\* path_set::append, by the owner while no candidate is written.
AppendToSet ==
  /\ ~builder.active /\ Len(paths) < MaxPaths
  /\ \E count \in 0 .. Room :
       AppendPath(points, count) /\ points' = points + count
  /\ UNCHANGED <<builder, alive>>

Construct ==
  /\ ~alive
  /\ alive' = TRUE /\ builder' = Inactive
  /\ UNCHANGED <<paths, points>>

\* Variant: the cursor stays where the candidate ended.
CancelledAtCursor == [Inactive EXCEPT !.cursor = builder.cursor]

\* The builder after cancel.
Cancelled == Inactive

\* cancel; begin too ends so when the counts cannot be represented or the
\* memory cannot be had.
Cancel ==
  /\ alive
  /\ paths' = <<>> /\ points' = 0 /\ builder' = Cancelled
  /\ UNCHANGED alive

\* begin cancels first: a set it sizes has no path yet.
Begin ==
  /\ alive
  /\ paths' = <<>>
  /\ \E path_count \in 0 .. MaxPaths, point_count \in 0 .. MaxPoints :
       /\ points' = point_count
       /\ builder' = [Cancelled EXCEPT !.path_count = path_count, !.point_count = point_count,
                                       !.active = TRUE]
  /\ UNCHANGED alive

\* The points no path was acquired for.
Left == builder.point_count - builder.cursor

\* An acquire that is not allowed throws and changes nothing.
Acquire ==
  /\ alive /\ builder.active
  /\ Len(paths) < builder.path_count
  /\ \E count \in 0 .. MaxPoints :
       /\ count <= Left
       /\ AppendPath(builder.cursor, count)
       /\ builder' = [builder EXCEPT !.cursor = @ + count]
  /\ UNCHANGED <<points, alive>>

\* A finish before all paths and points are written throws and changes nothing.
Finish ==
  /\ alive /\ builder.active
  /\ Len(paths) = builder.path_count /\ builder.cursor = builder.point_count
  /\ builder' = [builder EXCEPT !.active = FALSE]
  /\ UNCHANGED <<paths, points, alive>>

\* The destructor cancels a candidate and leaves a committed set alone.
Destroy ==
  /\ alive
  /\ alive' = FALSE
  /\ IF builder.active THEN paths' = <<>> /\ points' = 0 /\ builder' = Cancelled
     ELSE UNCHANGED <<paths, points, builder>>

Next == AppendToSet \/ Construct \/ Cancel \/ Begin \/ Acquire \/ Finish \/ Destroy

Spec == Init /\ [][Next]_vars

-----------------------------------------------------------------------------
(* Properties.                                                             *)

Count == 0 .. MaxPoints

TypeOK ==
  /\ paths \in Seq([offset : Count, count : Count])
  /\ points \in Count
  /\ builder \in [path_count : 0 .. MaxPaths, point_count : Count, cursor : Count,
                  active : BOOLEAN]
  /\ alive \in BOOLEAN

\* Where the descriptors end.
PathsEnd == IF paths = <<>> THEN 0 ELSE paths[Len(paths)].offset + paths[Len(paths)].count

\* Every path starts where the one before it ends and stays within the points,
\* while a candidate is written too: the spans acquire handed out are disjoint,
\* and a reader of the set never leaves its points.
PathsAreDisjoint ==
  /\ \A k \in DOMAIN paths :
       paths[k].offset = IF k = 1 THEN 0 ELSE paths[k - 1].offset + paths[k - 1].count
  /\ PathsEnd <= points

\* A set that no builder is writing has a path for each of its points: whatever
\* was begun, acquired, failed or cancelled, nothing incomplete is left behind.
NothingIncompletePublished == ~builder.active => PathsEnd = points
=============================================================================
