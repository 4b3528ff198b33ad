------------------------------ MODULE ThreadCalls ------------------------------
(***************************************************************************)
(* One thread that calls the clipping interface and the rectangle clip in  *)
(* turn, and has its caches released in between.  The engine state and the *)
(* context of the rectangle clip live as long as the thread; a call leaves *)
(* in them what it leaves.                                                 *)
(***************************************************************************)
EXTENDS ClipRequests

CONSTANTS
  RectRequests,  \* the requests of the rectangle clip
  RectRepeated   \* bound: those that are made in sequences

ASSUME RectRequestsAssumption == RectRepeated \subseteq RectRequests

VARIABLES
  context, rect_pc, rect_request, path_index, walk, tidy, rect_answer,  \* those of RectClip
  tick       \* history: the parity of its steps, by which one that changes nothing is seen

rect_vars == <<context, rect_pc, rect_request, path_index, walk, tidy, rect_answer, tick>>

Rectangles == INSTANCE RectClip WITH pc <- rect_pc, request <- rect_request, answer <- rect_answer

ThreadInit == Init /\ Rectangles!Init /\ tick = 0

ClipCall == rect_pc = "idle" /\ Calls /\ UNCHANGED rect_vars

BeginRectCall(q) ==
  /\ pc = "idle" /\ calls < MaxCalls /\ Rectangles!Begin(q)
  /\ calls' = IF q \in RectRepeated THEN calls + 1 ELSE MaxCalls
  /\ UNCHANGED <<engine, prepared, pc, request, todo, answer, tick>>

RectStep ==
  /\ Rectangles!Step
  /\ tick' = IF rect_pc' = "idle" THEN 0 ELSE 1 - tick
  /\ UNCHANGED vars

RectAllocationFails == Rectangles!AllocationFails /\ tick' = 0 /\ UNCHANGED vars

release_thread_caches ==
  release_clip_thread_state /\ Rectangles!release_rectclip_thread_state /\ UNCHANGED tick

ThreadNext ==
  \/ ClipCall
  \/ \E q \in (IF calls = 0 THEN RectRequests ELSE RectRepeated) : BeginRectCall(q)
  \/ RectStep \/ RectAllocationFails \/ release_thread_caches

\* The thread goes on with a call it has begun.  This is weak fairness of
\* RectStep, written without ENABLED: that some step is possible until the
\* call ends is what the check for deadlock shows, and every step ticks.
RectCallsGoOn == []<>(rect_pc = "idle") \/ []<><<TRUE>>_rect_vars

ThreadSpec == ThreadInit /\ [][ThreadNext]_<<vars, rect_vars>> /\ RectCallsGoOn

-----------------------------------------------------------------------------
\* AnswerIsTheInside of RectClip: a call of the rectangle clip answers what
\* lies in the rectangle, whatever the thread has called before.
RectAnswerIsTheInside == Rectangles!AnswerIsTheInside

\* Every call of the rectangle clip comes to an end.  Its loops do not count:
\* the walk round the rectangle may look at a point twice, and the lists of a
\* side are gone through again from the start while edges are put back to
\* them, until no two overlap.
RectCallsEnd == rect_pc # "idle" ~> rect_pc = "idle"
=============================================================================
