----------------------------- MODULE OffsetGroup -----------------------------
(***************************************************************************)
(* One offset group, with an executor or without one: the admission to the *)
(* executor, the chunks of consecutive paths, the execution of the chunks  *)
(* in any order and the concatenation of what they built.                  *)
(*                                                                         *)
(* The rings of a path are those of OffsetGeometry; they depend on the     *)
(* signed distance in force when the path is reached.  bulk_failure_state  *)
(* is in BulkExecution; here only whether a path failed matters.           *)
(***************************************************************************)
EXTENDS OffsetGeometry

CONSTANTS
  MinimumPathCount,    \* offset_parallel_minimum_path_count
  MinimumPointCount,   \* offset_parallel_minimum_point_count
  MinimumConcurrency,  \* offset_parallel_minimum_concurrency
  MaximumConcurrency,  \* offset_parallel_maximum_concurrency
  MaximumCoordinate    \* MAX_COORD, and -MIN_COORD

ASSUME OffsetAssumption ==
  /\ MinimumPathCount \in Nat /\ MinimumPointCount \in Nat /\ MaximumCoordinate \in Nat
  /\ MinimumConcurrency \in Nat \ {0} /\ MaximumConcurrency \in Nat \ {0}

VARIABLES
  group,             \* the offset_group: its paths, join type and end type
  limit,             \* concurrency_limit() of the executor
  delta,             \* the distance the caller passes, its sign included
  pc,                \* where the call is
  chunks,            \* offset_path_chunk, ends exclusive
  remaining_points,  \* of build_offset_chunks
  results,           \* what the chunks built, once they ran
  answer,            \* the rings, or that the call raised
  state_delta        \* offset_state::delta after the call, read by the next group

group_vars == <<group, limit, delta, pc, chunks, remaining_points, results, answer, state_delta>>

PathCount == Len(group.paths)
Path == 1 .. PathCount

Points(paths) == SumFunctionOnSet([i \in Path |-> Len(group.paths[i])], paths)

InRange(paths) ==
  \A i \in DOMAIN paths : \A k \in DOMAIN paths[i] :
    Max({Abs(paths[i][k].x), Abs(paths[i][k].y)}) <= MaximumCoordinate

-----------------------------------------------------------------------------
(* What is generated for a path.                                           *)

\* prepare_offset_group_state: the distance it leaves in the state ...
PreparedDelta(d) == IF group.end_type = "Polygon" /\ ~ has_lowest_path(group) THEN Abs(d) ELSE d

\* ... and the one it generates with.
GroupDelta(d) ==
  IF group.end_type # "Polygon" THEN Abs(d)
  ELSE IF is_reversed(group) THEN - PreparedDelta(d) ELSE PreparedDelta(d)

PathOutput(i, end_type, d) ==
  build_offset_path_with_end_type(group.paths[i], group.join_type, group.end_type, end_type, GroupDelta(d))

\* The end type of build_offset_group_paths_impl: a joined path of two points
\* changes it for the paths that follow.
SerialEndType(i) ==
  IF group.end_type = "Joined" /\ (\E j \in Path : j < i /\ Len(group.paths[j]) = 2)
  THEN "Square" ELSE group.end_type

Raised == [kind |-> "raised"]

\* A point out of range raises when it is generated.
RingsOrRaised(rings) == IF InRange(rings) THEN [kind |-> "rings", of |-> rings] ELSE Raised

\* build_offset_group_paths: what the group gives without an executor.
SerialAnswer == RingsOrRaised(FlattenSeq([i \in Path |-> PathOutput(i, SerialEndType(i), delta)]))

\* build_offset_chunk_range appends path by path and starts each of them anew.
ChunkOutput(chunk) ==
  FlattenSeq([k \in 1 .. chunk.end - chunk.begin |->
                PathOutput(chunk.begin + k, group.end_type, delta)])

-----------------------------------------------------------------------------
(* Admission and chunks.                                                   *)

HasJoinedTwoPointPath ==
  group.end_type = "Joined" /\ \E i \in Path : Len(group.paths[i]) = 2

\* Mutant: joined paths of two points are admitted.
EligibleWithTwoPointPaths ==
  /\ PathCount > 0
  /\ group.end_type = "Polygon" => has_lowest_path(group)
  /\ PathCount >= MinimumPathCount
  /\ Points(Path) >= MinimumPointCount

IsEligible ==
  /\ PathCount > 0 /\ ~HasJoinedTwoPointPath
  /\ group.end_type = "Polygon" => has_lowest_path(group)
  /\ PathCount >= MinimumPathCount
  /\ Points(Path) >= MinimumPointCount

UsesExecutor == limit > 1 /\ limit >= MinimumConcurrency /\ IsEligible

ChunkCount ==
  LET concurrency == Min({limit, MaximumConcurrency})
      paths_per_full_chunk_set == PathCount \div 4 + (IF PathCount % 4 # 0 THEN 1 ELSE 0)
  IN  IF concurrency >= paths_per_full_chunk_set THEN PathCount ELSE concurrency * 4

Begin == IF chunks = <<>> THEN 0 ELSE Last(chunks).end
RemainingChunks == ChunkCount - Len(chunks)

\* Mutant: no path is kept back for the chunks to come.
LatestEndOfGroup == PathCount

\* A chunk leaves at least one path to every later chunk.
LatestEnd == PathCount - (RemainingChunks - 1)

\* The first end at which the points reach the target; a chunk has a path.
ChunkEnd(target) ==
  Min({e \in Begin + 1 .. LatestEnd : Points(Begin + 1 .. e) >= target} \cup {LatestEnd})

-----------------------------------------------------------------------------
(* The call.                                                               *)

NoGroup == [paths |-> <<>>, join_type |-> "Miter", end_type |-> "Polygon"]

GroupInit ==
  /\ group = NoGroup /\ delta = 0 /\ state_delta = 0
  /\ pc = "idle"
  /\ chunks = <<>> /\ remaining_points = 0 /\ results = <<>>
  /\ answer = [kind |-> "none"]

\* The call for group g, with the distance that is in the state.
CallGroup(g) ==
  /\ pc = "idle"
  /\ group' = g /\ delta' = state_delta
  /\ pc' = "called"
  /\ UNCHANGED <<limit, chunks, remaining_points, results, answer, state_delta>>

BuildSerially ==
  /\ pc = "called" /\ ~UsesExecutor
  /\ answer' = SerialAnswer
  /\ state_delta' = PreparedDelta(delta)
  /\ pc' = "done"
  /\ UNCHANGED <<group, limit, delta, chunks, remaining_points, results>>

BeginChunks ==
  /\ pc = "called" /\ UsesExecutor
  /\ remaining_points' = Points(Path)
  /\ pc' = "chunking"
  /\ UNCHANGED <<group, limit, delta, chunks, results, answer, state_delta>>

\* The chunk from Begin to end and the points that are left after it.
AppendChunk(end) ==
  /\ chunks' = Append(chunks, [begin |-> Begin, end |-> end])
  /\ remaining_points' = remaining_points - Points(Begin + 1 .. end)
  /\ UNCHANGED <<group, limit, delta, pc, results, answer, state_delta>>

\* One iteration of the loop of build_offset_chunks.
BuildChunk ==
  /\ pc = "chunking" /\ Begin < PathCount /\ RemainingChunks > 0
  /\ AppendChunk(ChunkEnd((remaining_points + RemainingChunks - 1) \div RemainingChunks))

\* No chunk is left: the target is a division by zero.  It traps on x86; where
\* the quotient is 0 this and, the difference wrapping, every later chunk has
\* one path.
BuildChunkTooMany ==
  /\ pc = "chunking" /\ Begin < PathCount /\ RemainingChunks <= 0
  /\ \/ /\ RemainingChunks = 0
        /\ pc' = "trapped"
        /\ UNCHANGED <<group, limit, delta, chunks, remaining_points, results, answer, state_delta>>
     \/ AppendChunk(Begin + 1)

BeginExecution ==
  /\ pc = "chunking" /\ Begin = PathCount
  /\ pc' = "executing"
  /\ UNCHANGED <<group, limit, delta, chunks, remaining_points, results, answer, state_delta>>

\* A thread of the executor runs a range of chunks: every chunk has a result of
\* its own and its distance is set anew, so ranges do not see each other.
RunRange ==
  /\ pc = "executing"
  /\ \E first, last \in DOMAIN chunks :
       /\ first <= last /\ (first .. last) \cap DOMAIN results = {}
       /\ results' = [c \in DOMAIN results \cup (first .. last) |->
                        IF c \in DOMAIN results THEN results[c] ELSE ChunkOutput(chunks[c])]
  /\ UNCHANGED <<group, limit, delta, pc, chunks, remaining_points, answer, state_delta>>

\* bulk_failure_state holds an error.
Failed == \E c \in DOMAIN results : ~ InRange(results[c])

\* The tail of build_offset_group_paths_with_executor.
GroupAnswer(executor_failed) ==
  IF Failed THEN Raised
  ELSE IF executor_failed THEN [kind |-> "executor_failure"]
  ELSE [kind |-> "rings", of |-> FlattenSeq([c \in DOMAIN chunks |-> results[c]])]

\* execute returns an error whatever ran, or none once every chunk ran.
ExecutorReturns ==
  /\ pc = "executing"
  /\ \E executor_failed \in BOOLEAN :
       /\ ~executor_failed => DOMAIN results = DOMAIN chunks
       /\ answer' = GroupAnswer(executor_failed)
  /\ state_delta' = delta
  /\ pc' = "done"
  /\ UNCHANGED <<group, limit, delta, chunks, remaining_points, results>>

\* The call is over; what it used is given back.
GroupIsDone ==
  /\ pc = "done"
  /\ pc' = "idle"
  /\ group' = NoGroup /\ delta' = 0
  /\ chunks' = <<>> /\ remaining_points' = 0 /\ results' = <<>> /\ answer' = [kind |-> "none"]
  /\ UNCHANGED <<limit, state_delta>>

GroupStep ==
  \/ BuildSerially \/ BeginChunks \/ BuildChunk \/ BuildChunkTooMany
  \/ BeginExecution \/ RunRange \/ ExecutorReturns

-----------------------------------------------------------------------------
(* Properties.                                                             *)

\* The executor decides when rings are built, never which: the answer, its
\* order and the distance the next group starts from are those of the serial
\* loop, with its end type that changes on the way.
ParallelMatchesSerial ==
  pc = "done" /\ answer.kind # "executor_failure" =>
    /\ answer = SerialAnswer
    /\ answer # Raised => state_delta = PreparedDelta(delta)

\* What the README and a test of the repository say: a group offset with an
\* executor succeeds as it does without, so the chunk builder never traps.
ParallelAnswersAsSerial == pc # "trapped"

\* While chunks are built there is a path left for each of them, so the size_t
\* differences of build_offset_chunks do not wrap and no chunk is empty.
ChunksWithinPaths ==
  pc = "chunking" => RemainingChunks <= PathCount - Begin
=============================================================================
