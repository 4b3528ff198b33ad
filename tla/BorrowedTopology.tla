-------------------------- MODULE BorrowedTopology --------------------------
(***************************************************************************)
(* clip_topology_checked on one thread: a clip whose input is read from    *)
(* the caller in two passes and whose output goes to the caller's writer.  *)
(*                                                                         *)
(* Every access to the caller is a callback, and a callback may call       *)
(* clip_topology_checked or release_thread_caches again.  calls is the     *)
(* stack of such calls; the frame's "at" names the callback that is        *)
(* running, and an action is the return of a callback with all the code up *)
(* to the next one.  A path is the size the caller's range claims, the     *)
(* points a pass meets once consecutive duplicates are dropped, and        *)
(* whether the last of them repeats the first; the caller may give another *)
(* path in each pass.  The sweep is in ActiveEdges: here it gives some     *)
(* number of rings.  The byte limits of the staging are, like the limits   *)
(* kept here, bounds on paths and points.                                  *)
(***************************************************************************)
EXTENDS Naturals, Sequences, SequencesExt, FiniteSetsExt, Functions

CONSTANTS
  MaxCalls,          \* bound: calls of a behaviour
  MaxDepth,          \* bound: calls nested in callbacks
  MaxPaths,          \* bound: paths of a source
  Shapes,            \* bound: paths a caller gives, [size, points, closes]
  MaxRings,          \* bound: rings of a topology
  InputPathLimit,    \* limits.maximum_input_path_count
  InputPointLimit,   \* limits.maximum_input_point_count
  EnginePointLimit   \* the points whose plan is within the engine limits

ASSUME TopologyAssumption ==
  /\ MaxCalls \in Nat /\ MaxDepth \in Nat /\ MaxPaths \in Nat /\ MaxRings \in Nat
  /\ InputPathLimit \in Nat /\ InputPointLimit \in Nat /\ EnginePointLimit \in Nat
  /\ \A s \in Shapes : /\ s.size \in Nat /\ s.points \in Nat /\ s.closes \in BOOLEAN
                       /\ s.closes => s.points > 1

VARIABLES
  calls,        \* the calls in progress, innermost last
  slot,         \* the thread's borrowed_topology_engine_state_slot
  workspaces,   \* the slot's workspace, and the local one of every depth
  call_count,   \* calls made so far
  last          \* the writer and the success of the call that returned last

vars == <<calls, slot, workspaces, call_count, last>>

Sources == 1 .. 2   \* the subjects, then the clips
Places == 0 .. MaxDepth
SlotPlace == 0
NoCall == 0

Depth == Len(calls)
Top == Last(calls)
Normalized(s) == s.points - (IF s.closes THEN 1 ELSE 0)

\* An empty measured_paths64: the paths and their source_point_count.
Unmeasured == [paths |-> <<>>, points |-> 0]

\* borrowed_topology_workspace::clear, by the call at a depth or by nobody.
Cleared(depth) == [of |-> depth, measured |-> [s \in Sources |-> Unmeasured], rings |-> 0]

Workspace == workspaces[Top.place]
MeasuredPaths(source) == Workspace.measured[source].paths
SourcePoints(source) == Workspace.measured[source].points

Init ==
  /\ calls = <<>>
  /\ slot = [in_use |-> FALSE, release_requested |-> FALSE, held |-> FALSE]
  /\ workspaces = [p \in Places |-> Cleared(NoCall)]
  /\ call_count = 0
  /\ last = [writer |-> [state |-> "untouched", left |-> 0], ok |-> FALSE]

-----------------------------------------------------------------------------
(* The lease of the thread's engine state.                                 *)

\* The caller's code runs: outside every call, or in a callback of one.
CallerRuns == calls # <<>> => Top.at \notin {"sweep", "unwind"}

\* Variant: the lease does not look whether the slot is in use.
LeasedAlways == SlotPlace

\* Where borrowed_topology_engine_state_lease puts the new call.
Leased == IF slot.in_use THEN Depth + 1 ELSE SlotPlace

\* Variant: a new lease starts with a fresh slot record.
LeasedSlotFresh == [slot EXCEPT !.in_use = TRUE, !.release_requested = FALSE]

\* A nested lease leaves the slot as it is; the first one takes it.
LeasedSlot == [slot EXCEPT !.in_use = TRUE]

Call ==
  /\ CallerRuns /\ call_count < MaxCalls /\ Depth < MaxDepth
  /\ slot' = LeasedSlot
  /\ workspaces' = [workspaces EXCEPT ![Leased] = Cleared(Depth + 1)]
  /\ calls' = Append(calls,
       [at |-> "count", place |-> Leased, source |-> 1, left |-> 0,
        path_count |-> 0, point_count |-> 0,
        block |-> 0, next_vertex |-> 0, written |-> 0, loaded |-> 0,
        transaction |-> FALSE, writer |-> [state |-> "untouched", left |-> 0],
        ok |-> FALSE])
  /\ call_count' = call_count + 1
  /\ last' = last

\* release_slot_storage.
ReleaseSlot ==
  /\ slot' = [in_use |-> FALSE, release_requested |-> FALSE, held |-> FALSE]
  /\ workspaces' = [workspaces EXCEPT ![SlotPlace] = Cleared(NoCall)]

\* release_borrowed_topology_thread_state.
ReleaseThreadState ==
  /\ CallerRuns
  /\ \/ /\ slot.in_use
        /\ slot' = [slot EXCEPT !.release_requested = TRUE]
        /\ UNCHANGED workspaces
     \/ ~slot.in_use /\ ReleaseSlot
  /\ UNCHANGED <<calls, call_count, last>>

\* Variant: the request is not looked at when the lease ends.
DestroyLeaseOnly ==
  /\ slot' = [slot EXCEPT !.in_use = Top.place # SlotPlace]
  /\ workspaces' = [workspaces EXCEPT ![Top.place] = Cleared(NoCall)]

\* ~borrowed_topology_engine_state_lease.
DestroyLease ==
  IF Top.place = SlotPlace /\ slot.release_requested THEN ReleaseSlot
  ELSE /\ slot' = [slot EXCEPT !.in_use = Top.place # SlotPlace]
       /\ workspaces' = [workspaces EXCEPT ![Top.place] = Cleared(NoCall)]

\* The call returns: the lease goes last.
Unwind ==
  /\ calls # <<>> /\ Top.at = "unwind"
  /\ DestroyLease
  /\ calls' = Front(calls)
  /\ last' = [writer |-> Top.writer, ok |-> Top.ok]
  /\ call_count' = call_count

-----------------------------------------------------------------------------
(* A call.                                                                 *)

At(callback) == calls # <<>> /\ Top.at = callback

\* Every early return, and every exception: the destructor of the transaction
\* cancels it while it is active.
Failed(frame) ==
  [frame EXCEPT !.at = IF frame.transaction THEN "cancel" ELSE "unwind", !.ok = FALSE]

Continue(frame) ==
  /\ calls' = Append(Front(calls), frame)
  /\ UNCHANGED <<call_count, last>>

\* The callback reports an error, or an allocation after it throws.
CallbackFails ==
  /\ \E c \in {"count", "measure", "recount", "copy", "begin", "acquire", "finish"} : At(c)
  /\ Continue(Failed(Top))
  /\ UNCHANGED <<slot, workspaces>>

\* The engine's plan for the measured points is compared with its limits.
Planned(frame) ==
  IF frame.point_count > EnginePointLimit THEN Failed(frame)
  ELSE [frame EXCEPT !.at = "recount", !.source = 1]

\* A source is measured: measure_input goes on to the clips, then to the plan.
Measured(frame) ==
  IF frame.source = 1 THEN [frame EXCEPT !.at = "count", !.source = 2] ELSE Planned(frame)

\* The head of measure_paths.
CountReturns ==
  /\ At("count")
  /\ \E n \in 0 .. MaxPaths :
       LET counted == [Top EXCEPT !.path_count = @ + n, !.left = n]
       IN  \/ Top.path_count + n > InputPathLimit /\ Continue(Failed(Top)) /\ UNCHANGED slot
           \/ /\ Top.path_count + n <= InputPathLimit
              /\ Continue(IF n = 0 THEN Measured(counted) ELSE [counted EXCEPT !.at = "measure"])
              /\ slot' = [slot EXCEPT !.held = @ \/ (n > 0 /\ Top.place = SlotPlace)]
  /\ UNCHANGED workspaces

\* The measurement of a source with one more path.
WithPath(measured, s) ==
  [paths |-> Append(measured.paths, [size |-> s.size, normalized |-> Normalized(s)]),
   points |-> measured.points + s.size]

AdmitsPoints(points) == Top.point_count + points <= InputPointLimit

\* One iteration of the loop of measure_paths.
MeasureReturns ==
  /\ At("measure")
  /\ \E s \in Shapes :
       \/ ~AdmitsPoints(s.size) /\ Continue(Failed(Top)) /\ UNCHANGED workspaces
       \/ LET measured == [Top EXCEPT !.left = @ - 1, !.point_count = @ + s.size]
          IN  /\ AdmitsPoints(s.size)
              /\ Continue(IF measured.left = 0 THEN Measured(measured) ELSE measured)
              /\ workspaces' = [workspaces EXCEPT ![Top.place].measured[Top.source] =
                                  WithPath(@, s)]
  /\ UNCHANGED slot

\* A source is loaded: load_input goes on to the clips, then the engine runs.
Loaded(frame) ==
  IF frame.source = 1 THEN [frame EXCEPT !.at = "recount", !.source = 2]
  ELSE [frame EXCEPT !.at = "sweep"]

\* The head of load_paths.
RecountReturns ==
  /\ At("recount")
  /\ \E n \in 0 .. MaxPaths :
       Continue(
         IF n # Len(MeasuredPaths(Top.source)) THEN Failed(Top)
         ELSE IF SourcePoints(Top.source) = 0 THEN Loaded(Top)
         ELSE [Top EXCEPT !.at = "copy", !.left = n, !.block = SourcePoints(Top.source),
                          !.next_vertex = 0, !.written = 0])
  /\ UNCHANGED <<slot, workspaces>>

Expected == LET paths == MeasuredPaths(Top.source) IN paths[Len(paths) - Top.left + 1]

\* Variant: the copy trusts the range to end at its size.
PointsWrittenUnchecked(s) == IF s.size # Expected.size THEN 0 ELSE s.points

\* The points copy_borrowed_path writes before it returns.
PointsWritten(s) == IF s.size # Expected.size THEN 0 ELSE Min({s.points, Expected.size})

\* Variant: the copy takes the path as it is now.
MatchesAlways(s) == TRUE

\* The path is still the one that was measured, as far as copy_borrowed_path sees.
Matches(s) ==
  /\ s.size = Expected.size
  /\ s.points <= Expected.size
  /\ Normalized(s) = Expected.normalized

\* One iteration of the loop of load_paths; a coordinate out of range fails too.
CopyReturns ==
  /\ At("copy")
  /\ \E s \in Shapes :
       LET touched == [Top EXCEPT !.written = Max({@, Top.next_vertex + PointsWritten(s)})]
           copied == [touched EXCEPT !.left = @ - 1, !.next_vertex = @ + Normalized(s),
                                     !.loaded = @ + Normalized(s)]
       IN  Continue(IF ~Matches(s) THEN Failed(touched)
                    ELSE IF copied.left = 0 THEN Loaded(copied) ELSE copied)
  /\ UNCHANGED <<slot, workspaces>>

\* run_engine and build_topology_descriptors, both of which may fail, and the
\* head of write_topology, which activates the transaction before begin.
RunEngine ==
  /\ At("sweep")
  /\ \/ Continue(Failed(Top)) /\ UNCHANGED workspaces
     \/ \E n \in 0 .. MaxRings :
          /\ Top.loaded = 0 => n = 0
          /\ Continue([Top EXCEPT !.at = "begin", !.transaction = TRUE,
                                  !.writer = [state |-> "open", left |-> n]])
          /\ workspaces' = [workspaces EXCEPT ![Top.place].rings = n]
  /\ UNCHANGED slot

\* The loop over the rings is at its end or asks for a place for the next.
NextRing(frame) == [frame EXCEPT !.at = IF frame.left = 0 THEN "finish" ELSE "acquire"]

BeginReturns ==
  /\ At("begin")
  /\ Continue(NextRing([Top EXCEPT !.left = Workspace.rings]))
  /\ UNCHANGED <<slot, workspaces>>

\* The place has the size of the ring and the ring is written; otherwise the
\* call fails, as when the callback does.
AcquireReturns ==
  /\ At("acquire")
  /\ Continue(NextRing([Top EXCEPT !.left = @ - 1, !.writer.left = @ - 1]))
  /\ UNCHANGED <<slot, workspaces>>

\* Variant: the transaction is not committed.
FinishWithoutCommit ==
  /\ At("finish")
  /\ Continue([Top EXCEPT !.at = "cancel", !.ok = TRUE])
  /\ UNCHANGED <<slot, workspaces>>

FinishReturns ==
  /\ At("finish")
  /\ Continue([Top EXCEPT !.at = "unwind", !.ok = TRUE, !.transaction = FALSE,
                          !.writer.state = "finished"])
  /\ UNCHANGED <<slot, workspaces>>

CancelReturns ==
  /\ At("cancel")
  /\ Continue([Top EXCEPT !.at = "unwind", !.writer.state = "cancelled"])
  /\ UNCHANGED <<slot, workspaces>>

Next ==
  \/ Call \/ ReleaseThreadState \/ Unwind \/ CallbackFails
  \/ CountReturns \/ MeasureReturns \/ RecountReturns \/ CopyReturns
  \/ RunEngine \/ BeginReturns \/ AcquireReturns \/ FinishReturns \/ CancelReturns

Spec == Init /\ [][Next]_vars

-----------------------------------------------------------------------------
(* Properties.                                                             *)

Callbacks == {"count", "measure", "recount", "copy", "begin", "acquire", "finish", "cancel"}

TypeOK ==
  /\ Depth <= MaxDepth
  /\ \A d \in DOMAIN calls :
       /\ calls[d].at \in Callbacks \cup {"sweep", "unwind"}
       /\ calls[d].place \in Places /\ calls[d].source \in Sources
       /\ calls[d].left \in 0 .. (IF MaxPaths > MaxRings THEN MaxPaths ELSE MaxRings)
       /\ calls[d].path_count \in 0 .. InputPathLimit
       /\ calls[d].point_count \in 0 .. InputPointLimit
       /\ calls[d].ok \in BOOLEAN /\ calls[d].transaction \in BOOLEAN
  /\ slot \in [in_use : BOOLEAN, release_requested : BOOLEAN, held : BOOLEAN]
  /\ call_count \in 0 .. MaxCalls

\* As long as a call runs, the engine state and workspace it leased are its own:
\* no call nested in its callbacks and no release of the thread's caches clears
\* what it measured or the rings it is writing.
WorkspaceIsOwn == \A d \in DOMAIN calls : workspaces[calls[d].place].of = d

\* Whatever the caller does between and during the passes, the points of a
\* source are written inside the block of vertices acquired for it.
WritesStayInBlock == \A d \in DOMAIN calls : calls[d].written <= calls[d].block

\* The engine never runs on more points than were measured, planned for and
\* found within the limits before the second pass.
EngineWithinPlan ==
  \A d \in DOMAIN calls :
    calls[d].at \in {"sweep", "begin", "acquire", "finish"} =>
      calls[d].loaded <= calls[d].point_count /\ calls[d].point_count <= EnginePointLimit

\* A request to release the caches made while calls run is neither lost nor
\* served early: it ends with the outermost call, and the storage with it.
ReleaseIsDeferred ==
  [][slot.release_requested /\ ~slot'.release_requested => calls' = <<>> /\ ~slot'.held]_vars

\* No call leaves a request behind for one that comes much later.
NoStaleRequest == calls = <<>> => ~slot.in_use /\ ~slot.release_requested

Promise == INSTANCE TopologyWriter WITH sinks <- [d \in DOMAIN calls |-> calls[d].writer]

\* Every writer sees the protocol of TopologyWriter, at every depth.
WriterPromiseKept == Promise!Spec
=============================================================================
