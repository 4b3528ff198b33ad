----------------------- MODULE BorrowedTopologyProofs -----------------------
(***************************************************************************)
(* The lease of the thread's engine state, the two passes over the input   *)
(* and the writer's transaction are sound for every caller, every nesting  *)
(* of calls and every bound of BorrowedTopology.                           *)
(*                                                                         *)
(* WorkspaceIsOwn is not inductive: what a call may clear depends on which *)
(* places the calls below it hold.  OutermostLeases says that the slot is  *)
(* the outermost call's and every nested call has the local place of its   *)
(* depth; SlotFollowsCalls ties the flags of the slot to the stack.  On    *)
(* that rests FrameOK, which says what every call in progress holds of its *)
(* workspace: a call below the top keeps it because nobody else touches    *)
(* its workspace.  The sums of the measured sizes are a function that      *)
(* grows with the paths, so no recursive definition is needed.             *)
(***************************************************************************)
EXTENDS BorrowedTopology, SequenceTheorems, TLAPS

\* Frames are records; only the place of a lease matters here.
StackOK ==
  /\ \E S : calls \in Seq(S)
  /\ Len(calls) <= MaxDepth
  /\ \A d \in 1 .. Len(calls) : "place" \in DOMAIN calls[d]

OutermostLeases == \A d \in 1 .. Len(calls) : calls[d].place = IF d = 1 THEN 0 ELSE d

SlotFollowsCalls ==
  /\ slot \in [in_use : BOOLEAN, release_requested : BOOLEAN, held : BOOLEAN]
  /\ slot.in_use <=> Len(calls) > 0
  /\ slot.release_requested => slot.in_use

WorkspacesOK ==
  /\ workspaces = [p \in Places |-> workspaces[p]]
  /\ \A p \in Places : "of" \in DOMAIN workspaces[p]

OwnWorkspaces == \A d \in 1 .. Len(calls) : workspaces[calls[d].place].of = d

LeaseInv == StackOK /\ OutermostLeases /\ SlotFollowsCalls /\ WorkspacesOK /\ OwnWorkspaces

LEMMA DepthType == TopologyAssumption => MaxDepth \in Nat
  BY DEF TopologyAssumption

-----------------------------------------------------------------------------
(* What the operations on the stack do to it.                              *)

LEMMA PushedCall ==
  ASSUME NEW S, NEW s \in Seq(S), NEW f
  PROVE  /\ \E T : Append(s, f) \in Seq(T)
         /\ Len(Append(s, f)) = Len(s) + 1
         /\ \A d \in 1 .. Len(s) : Append(s, f)[d] = s[d]
         /\ Append(s, f)[Len(s) + 1] = f
<1>1. s \in Seq(S \cup {f})
  OBVIOUS
<1> QED
  BY <1>1, AppendProperties

LEMMA PoppedCall ==
  ASSUME NEW S, NEW s \in Seq(S), Len(s) > 0
  PROVE  /\ Front(s) \in Seq(S)
         /\ Len(Front(s)) = Len(s) - 1
         /\ \A d \in 1 .. Len(s) - 1 : Front(s)[d] = s[d]
<1>1. Front(s) = SubSeq(s, 1, Len(s) - 1)
  BY DEF Front
<1>2. Len(s) \in Nat
  OBVIOUS
<1>3. \A i \in 1 .. Len(s) - 1 : s[i] \in S
  OBVIOUS
<1>4. /\ SubSeq(s, 1, Len(s) - 1) \in Seq(S)
      /\ Len(SubSeq(s, 1, Len(s) - 1)) = IF 1 <= Len(s) - 1 THEN Len(s) - 1 - 1 + 1 ELSE 0
      /\ \A i \in 1 .. Len(s) - 1 - 1 + 1 : SubSeq(s, 1, Len(s) - 1)[i] = s[1 + i - 1]
  BY <1>2, <1>3, SubSeqProperties
<1>5. Len(SubSeq(s, 1, Len(s) - 1)) = Len(s) - 1
  <2> DEFINE length == Len(s)
             shorter == Len(SubSeq(s, 1, length - 1))
  <2>1. length \in Nat /\ length > 0
    BY <1>2
  <2>2. shorter = IF 1 <= length - 1 THEN length - 1 - 1 + 1 ELSE 0
    BY <1>4
  <2> HIDE DEF length, shorter
  <2>3. shorter = length - 1
    BY <2>1, <2>2
  <2> QED
    BY <2>3 DEF shorter, length
<1>6. \A d \in 1 .. Len(s) - 1 : SubSeq(s, 1, Len(s) - 1)[d] = s[d]
  <2> SUFFICES ASSUME NEW d \in 1 .. Len(s) - 1
               PROVE  SubSeq(s, 1, Len(s) - 1)[d] = s[d]
    OBVIOUS
  <2>1. d \in 1 .. Len(s) - 1 - 1 + 1 /\ 1 + d - 1 = d
    BY <1>2
  <2> QED
    BY <1>4, <2>1
<1> QED
  BY <1>1, <1>4, <1>5, <1>6

LEMMA ReplacedTop ==
  ASSUME NEW S, NEW s \in Seq(S), Len(s) > 0, NEW f
  PROVE  /\ \E T : Append(Front(s), f) \in Seq(T)
         /\ Len(Append(Front(s), f)) = Len(s)
         /\ \A d \in 1 .. Len(s) : Append(Front(s), f)[d] = IF d = Len(s) THEN f ELSE s[d]
<1>1. /\ Front(s) \in Seq(S) /\ Len(Front(s)) = Len(s) - 1 /\ Len(s) \in Nat
      /\ \A d \in 1 .. Len(s) - 1 : Front(s)[d] = s[d]
  BY PoppedCall
<1>2. /\ \E T : Append(Front(s), f) \in Seq(T)
      /\ Len(Append(Front(s), f)) = Len(Front(s)) + 1
      /\ \A d \in 1 .. Len(Front(s)) : Append(Front(s), f)[d] = Front(s)[d]
      /\ Append(Front(s), f)[Len(Front(s)) + 1] = f
  BY <1>1, PushedCall
<1> QED
  BY <1>1, <1>2

-----------------------------------------------------------------------------
(* The steps of a call: it keeps its lease and the slot stays in use.      *)

\* What the return of a callback changes as far as leases are concerned.
KeepsLease ==
  /\ Len(calls) > 0
  /\ \E f : /\ calls' = Append(Front(calls), f)
            /\ "place" \in DOMAIN f /\ f.place = Top.place
  /\ \/ slot' = slot
     \/ \E held \in BOOLEAN : slot' = [slot EXCEPT !.held = held]
  /\ \/ workspaces' = workspaces
     \/ \E w : /\ workspaces' = [workspaces EXCEPT ![Top.place] = w]
               /\ "of" \in DOMAIN w /\ w.of = Workspace.of

LEMMA TopLease ==
  ASSUME LeaseInv, Len(calls) > 0, MaxDepth \in Nat
  PROVE  /\ "place" \in DOMAIN Top /\ Len(calls) \in Nat
         /\ Top.place = (IF Len(calls) = 1 THEN 0 ELSE Len(calls))
         /\ Top.place \in Places
         /\ "of" \in DOMAIN Workspace
         /\ workspaces[Top.place].of = Len(calls)
<1>1. PICK S : calls \in Seq(S)
  BY DEF LeaseInv, StackOK
<1>2. Len(calls) \in Nat /\ Len(calls) \in 1 .. Len(calls)
  BY <1>1
<1>3. "place" \in DOMAIN Top /\ Top.place = (IF Len(calls) = 1 THEN 0 ELSE Len(calls))
  BY <1>2 DEF LeaseInv, StackOK, OutermostLeases, Top, Last
<1>4. Top.place \in Places
  BY <1>2, <1>3 DEF LeaseInv, StackOK, Places
<1> QED
  BY <1>2, <1>3, <1>4 DEF LeaseInv, WorkspacesOK, OwnWorkspaces, Workspace, Top, Last

LEMMA LeaseKept ==
  ASSUME LeaseInv, MaxDepth \in Nat, KeepsLease
  PROVE  LeaseInv'
<1>1. PICK S : calls \in Seq(S)
  BY DEF LeaseInv, StackOK
<1>2. PICK f : /\ calls' = Append(Front(calls), f)
               /\ "place" \in DOMAIN f /\ f.place = Top.place
  BY DEF KeepsLease
<1>3. Len(calls) > 0 /\ Len(calls) \in Nat
  BY <1>1 DEF KeepsLease
<1>4. /\ \E T : calls' \in Seq(T)
      /\ Len(calls') = Len(calls)
      /\ \A d \in 1 .. Len(calls) : calls'[d] = IF d = Len(calls) THEN f ELSE calls[d]
  BY <1>1, <1>2, <1>3, ReplacedTop
<1>5. \A d \in 1 .. Len(calls) : "place" \in DOMAIN calls'[d] /\ calls'[d].place = calls[d].place
  BY <1>2, <1>4 DEF LeaseInv, StackOK, Top, Last
<1>6. /\ "place" \in DOMAIN Top /\ Top.place \in Places
      /\ workspaces[Top.place].of = Len(calls)
      /\ Top.place = (IF Len(calls) = 1 THEN 0 ELSE Len(calls))
  BY <1>3, TopLease
<1>7. StackOK'
  BY <1>4, <1>5 DEF LeaseInv, StackOK
<1>8. OutermostLeases'
  BY <1>4, <1>5 DEF LeaseInv, OutermostLeases
<1>9. SlotFollowsCalls'
  BY <1>3, <1>4 DEF LeaseInv, SlotFollowsCalls, KeepsLease
<1>10. /\ workspaces' = [p \in Places |-> workspaces'[p]]
       /\ \A p \in Places : "of" \in DOMAIN workspaces'[p] /\ workspaces'[p].of = workspaces[p].of
  <2>1. CASE workspaces' = workspaces
    BY <2>1 DEF LeaseInv, WorkspacesOK
  <2>2. CASE workspaces' # workspaces
    <3>1. PICK w : /\ workspaces' = [workspaces EXCEPT ![Top.place] = w]
                   /\ "of" \in DOMAIN w /\ w.of = Workspace.of
      BY <2>2 DEF KeepsLease
    <3>2. DOMAIN workspaces = Places
      BY DEF LeaseInv, WorkspacesOK
    <3>3. \A p \in Places : workspaces'[p] = IF p = Top.place THEN w ELSE workspaces[p]
      BY <3>1, <3>2
    <3>4. workspaces' = [p \in Places |-> workspaces'[p]]
      BY <3>1, <3>2
    <3> QED
      BY <3>1, <3>3, <3>4, <1>6 DEF LeaseInv, WorkspacesOK, Workspace
  <2> QED
    BY <2>1, <2>2
<1>11. WorkspacesOK'
  BY <1>10 DEF WorkspacesOK
<1>12. OwnWorkspaces'
  <2> SUFFICES ASSUME NEW d \in 1 .. Len(calls)
               PROVE  workspaces'[calls'[d].place].of = d
    BY <1>4 DEF OwnWorkspaces
  <2>1. calls[d].place \in Places
    BY <1>3 DEF LeaseInv, StackOK, OutermostLeases, Places
  <2> QED
    BY <1>5, <1>10, <2>1 DEF LeaseInv, OwnWorkspaces
<1> QED
  BY <1>7, <1>8, <1>9, <1>11, <1>12 DEF LeaseInv

LEMMA FailedKeepsLease ==
  ASSUME NEW f, "place" \in DOMAIN f
  PROVE  "place" \in DOMAIN Failed(f) /\ Failed(f).place = f.place
  BY DEF Failed

LEMMA MeasuredKeepsLease ==
  ASSUME NEW f, "place" \in DOMAIN f
  PROVE  "place" \in DOMAIN Measured(f) /\ Measured(f).place = f.place
  BY FailedKeepsLease DEF Measured, Planned

LEMMA LoadedKeepsLease ==
  ASSUME NEW f, "place" \in DOMAIN f
  PROVE  "place" \in DOMAIN Loaded(f) /\ Loaded(f).place = f.place
  BY DEF Loaded

LEMMA NextRingKeepsLease ==
  ASSUME NEW f, "place" \in DOMAIN f
  PROVE  "place" \in DOMAIN NextRing(f) /\ NextRing(f).place = f.place
  BY DEF NextRing

\* Every return of a callback, and the sweep, keep the lease.
CallbackStep ==
  \/ CallbackFails \/ CountReturns \/ MeasureReturns \/ RecountReturns \/ CopyReturns
  \/ RunEngine \/ BeginReturns \/ AcquireReturns \/ FinishReturns \/ CancelReturns

LEMMA CallbackKeepsLease ==
  ASSUME LeaseInv, MaxDepth \in Nat, CallbackStep
  PROVE  KeepsLease
<1>1. PICK S : calls \in Seq(S)
  BY DEF LeaseInv, StackOK
<1>2. calls # <<>>
  BY DEF CallbackStep, CallbackFails, CountReturns, MeasureReturns, RecountReturns,
         CopyReturns, RunEngine, BeginReturns, AcquireReturns, FinishReturns, CancelReturns, At
<1>3. Len(calls) > 0
  BY <1>1, <1>2
<1>4. "place" \in DOMAIN Top /\ "of" \in DOMAIN Workspace
  BY <1>3, TopLease
<1>5. SlotFollowsCalls /\ Top.place \in Places /\ DOMAIN workspaces = Places
  BY <1>3, TopLease DEF LeaseInv, WorkspacesOK
<1>6. CASE CallbackFails
  <2>1. calls' = Append(Front(calls), Failed(Top)) /\ slot' = slot /\ workspaces' = workspaces
    BY <1>6 DEF CallbackFails, Continue
  <2> QED
    BY <1>3, <1>4, <2>1, FailedKeepsLease DEF KeepsLease
<1>7. CASE CountReturns
  <2>1. PICK n \in 0 .. MaxPaths :
          LET counted == [Top EXCEPT !.path_count = @ + n, !.left = n]
          IN  \/ Top.path_count + n > InputPathLimit /\ Continue(Failed(Top)) /\ UNCHANGED slot
              \/ /\ Top.path_count + n <= InputPathLimit
                 /\ Continue(IF n = 0 THEN Measured(counted) ELSE [counted EXCEPT !.at = "measure"])
                 /\ slot' = [slot EXCEPT !.held = @ \/ (n > 0 /\ Top.place = SlotPlace)]
    BY <1>7 DEF CountReturns
  <2> DEFINE counted == [Top EXCEPT !.path_count = @ + n, !.left = n]
             next == IF n = 0 THEN Measured(counted) ELSE [counted EXCEPT !.at = "measure"]
             held == slot.held \/ (n > 0 /\ Top.place = SlotPlace)
  <2>2. "place" \in DOMAIN counted /\ counted.place = Top.place
    BY <1>4
  <2>3. "place" \in DOMAIN next /\ next.place = Top.place
    BY <2>2, MeasuredKeepsLease
  <2>4. workspaces' = workspaces
    BY <1>7 DEF CountReturns
  <2>5. CASE Continue(Failed(Top)) /\ slot' = slot
    BY <1>3, <1>4, <2>4, <2>5, FailedKeepsLease DEF KeepsLease, Continue
  <2>6. CASE Continue(next) /\ slot' = [slot EXCEPT !.held = held]
    <3>1. held \in BOOLEAN
      BY <1>5 DEF SlotFollowsCalls
    <3>2. calls' = Append(Front(calls), next)
      BY <2>6 DEF Continue
    <3> HIDE DEF next, held, counted
    <3> QED
      BY <1>3, <2>3, <2>4, <2>6, <3>1, <3>2 DEF KeepsLease
  <2> QED
    BY <2>1, <2>5, <2>6
<1>8. CASE MeasureReturns
  <2>1. PICK s \in Shapes :
          \/ Continue(Failed(Top)) /\ UNCHANGED workspaces
          \/ LET measured == [Top EXCEPT !.left = @ - 1, !.point_count = @ + s.size]
             IN  /\ Continue(IF measured.left = 0 THEN Measured(measured) ELSE measured)
                 /\ workspaces' = [workspaces EXCEPT ![Top.place].measured[Top.source] =
                                     WithPath(@, s)]
    BY <1>8 DEF MeasureReturns
  <2> DEFINE measured == [Top EXCEPT !.left = @ - 1, !.point_count = @ + s.size]
             next == IF measured.left = 0 THEN Measured(measured) ELSE measured
             paths == [Workspace.measured EXCEPT ![Top.source] = WithPath(@, s)]
             own == [Workspace EXCEPT !.measured = paths]
  <2>2. "place" \in DOMAIN measured /\ measured.place = Top.place
    BY <1>4
  <2>3. "place" \in DOMAIN next /\ next.place = Top.place
    BY <2>2, MeasuredKeepsLease
  <2>4. slot' = slot
    BY <1>8 DEF MeasureReturns
  <2>5. CASE Continue(Failed(Top)) /\ workspaces' = workspaces
    BY <1>3, <1>4, <2>4, <2>5, FailedKeepsLease DEF KeepsLease, Continue
  <2>6. CASE /\ Continue(next)
             /\ workspaces' = [workspaces EXCEPT ![Top.place].measured[Top.source] =
                                 WithPath(@, s)]
    <3>1. "of" \in DOMAIN own /\ own.of = Workspace.of
      BY <1>4
    <3>2. workspaces' = [workspaces EXCEPT ![Top.place] = own]
      BY <2>6, Zenon DEF Workspace
    <3>3. calls' = Append(Front(calls), next)
      BY <2>6 DEF Continue
    <3> HIDE DEF next, measured, own, paths
    <3> QED
      BY <1>3, <2>3, <2>4, <3>1, <3>2, <3>3 DEF KeepsLease
  <2> QED
    BY <2>1, <2>5, <2>6
<1>9. CASE RecountReturns
  <2>1. slot' = slot /\ workspaces' = workspaces
    BY <1>9 DEF RecountReturns
  <2>2. PICK n \in 0 .. MaxPaths :
          Continue(IF n # Len(MeasuredPaths(Top.source)) THEN Failed(Top)
                   ELSE IF SourcePoints(Top.source) = 0 THEN Loaded(Top)
                   ELSE [Top EXCEPT !.at = "copy", !.left = n, !.block = SourcePoints(Top.source),
                                    !.next_vertex = 0, !.written = 0])
    BY <1>9 DEF RecountReturns
  <2> DEFINE copying == [Top EXCEPT !.at = "copy", !.left = n, !.block = SourcePoints(Top.source),
                                    !.next_vertex = 0, !.written = 0]
             next == IF n # Len(MeasuredPaths(Top.source)) THEN Failed(Top)
                     ELSE IF SourcePoints(Top.source) = 0 THEN Loaded(Top) ELSE copying
  <2>3. "place" \in DOMAIN copying /\ copying.place = Top.place
    BY <1>4
  <2>4. "place" \in DOMAIN next /\ next.place = Top.place
    <3> HIDE DEF copying
    <3> QED
      BY <1>4, <2>3, FailedKeepsLease, LoadedKeepsLease
  <2>5. calls' = Append(Front(calls), next)
    BY <2>2 DEF Continue
  <2> HIDE DEF next, copying
  <2> QED
    BY <1>3, <2>1, <2>4, <2>5 DEF KeepsLease
<1>10. CASE CopyReturns
  <2>1. PICK s \in Shapes :
          LET touched == [Top EXCEPT !.written = Max({@, Top.next_vertex + PointsWritten(s)})]
              copied == [touched EXCEPT !.left = @ - 1, !.next_vertex = @ + Normalized(s),
                                        !.loaded = @ + Normalized(s)]
          IN  Continue(IF ~Matches(s) THEN Failed(touched)
                       ELSE IF copied.left = 0 THEN Loaded(copied) ELSE copied)
    BY <1>10 DEF CopyReturns
  <2> DEFINE touched == [Top EXCEPT !.written = Max({@, Top.next_vertex + PointsWritten(s)})]
             copied == [touched EXCEPT !.left = @ - 1, !.next_vertex = @ + Normalized(s),
                                       !.loaded = @ + Normalized(s)]
             next == IF ~Matches(s) THEN Failed(touched)
                     ELSE IF copied.left = 0 THEN Loaded(copied) ELSE copied
  <2>2. "place" \in DOMAIN touched /\ touched.place = Top.place
    BY <1>4
  <2>3. "place" \in DOMAIN copied /\ copied.place = Top.place
    <3> HIDE DEF touched
    <3> QED
      BY <2>2
  <2>4. "place" \in DOMAIN next /\ next.place = Top.place
    <3> HIDE DEF touched, copied
    <3> QED
      BY <2>2, <2>3, FailedKeepsLease, LoadedKeepsLease
  <2>5. calls' = Append(Front(calls), next)
    BY <2>1 DEF Continue
  <2>6. slot' = slot /\ workspaces' = workspaces
    BY <1>10 DEF CopyReturns
  <2> HIDE DEF next, touched, copied
  <2> QED
    BY <1>3, <2>4, <2>5, <2>6 DEF KeepsLease
<1>11. CASE RunEngine
  <2>1. slot' = slot
    BY <1>11 DEF RunEngine
  <2>2. CASE Continue(Failed(Top)) /\ workspaces' = workspaces
    BY <1>3, <1>4, <2>1, <2>2, FailedKeepsLease DEF KeepsLease, Continue
  <2>3. CASE \E n \in 0 .. MaxRings :
               /\ Continue([Top EXCEPT !.at = "begin", !.transaction = TRUE,
                                       !.writer = [state |-> "open", left |-> n]])
               /\ workspaces' = [workspaces EXCEPT ![Top.place].rings = n]
    <3>1. PICK n \in 0 .. MaxRings :
               /\ Continue([Top EXCEPT !.at = "begin", !.transaction = TRUE,
                                       !.writer = [state |-> "open", left |-> n]])
               /\ workspaces' = [workspaces EXCEPT ![Top.place].rings = n]
      BY <2>3
    <3> DEFINE next == [Top EXCEPT !.at = "begin", !.transaction = TRUE,
                                   !.writer = [state |-> "open", left |-> n]]
               own == [Workspace EXCEPT !.rings = n]
    <3>2. "place" \in DOMAIN next /\ next.place = Top.place
      BY <1>4
    <3>3. "of" \in DOMAIN own /\ own.of = Workspace.of
      BY <1>4
    <3>4. workspaces' = [workspaces EXCEPT ![Top.place] = own]
      BY <3>1, Zenon DEF Workspace
    <3>5. calls' = Append(Front(calls), next)
      BY <3>1 DEF Continue
    <3> HIDE DEF next, own
    <3> QED
      BY <1>3, <2>1, <3>2, <3>3, <3>4, <3>5 DEF KeepsLease
  <2> QED
    BY <1>11, <2>2, <2>3 DEF RunEngine
<1>12. CASE BeginReturns
  <2> DEFINE begun == [Top EXCEPT !.left = Workspace.rings]
  <2>1. "place" \in DOMAIN begun /\ begun.place = Top.place
    BY <1>4
  <2>2. calls' = Append(Front(calls), NextRing(begun)) /\ slot' = slot /\ workspaces' = workspaces
    BY <1>12 DEF BeginReturns, Continue
  <2> HIDE DEF begun
  <2> QED
    BY <1>3, <2>1, <2>2, NextRingKeepsLease DEF KeepsLease
<1>13. CASE AcquireReturns
  <2> DEFINE acquired == [Top EXCEPT !.left = @ - 1, !.writer.left = @ - 1]
  <2>1. "place" \in DOMAIN acquired /\ acquired.place = Top.place
    BY <1>4
  <2>2. /\ calls' = Append(Front(calls), NextRing(acquired))
        /\ slot' = slot /\ workspaces' = workspaces
    BY <1>13 DEF AcquireReturns, Continue
  <2> HIDE DEF acquired
  <2> QED
    BY <1>3, <2>1, <2>2, NextRingKeepsLease DEF KeepsLease
<1>14. CASE FinishReturns
  <2> DEFINE finished == [Top EXCEPT !.at = "unwind", !.ok = TRUE, !.transaction = FALSE,
                                     !.writer.state = "finished"]
  <2>1. "place" \in DOMAIN finished /\ finished.place = Top.place
    BY <1>4
  <2>2. calls' = Append(Front(calls), finished) /\ slot' = slot /\ workspaces' = workspaces
    BY <1>14 DEF FinishReturns, Continue
  <2> HIDE DEF finished
  <2> QED
    BY <1>3, <2>1, <2>2 DEF KeepsLease
<1>15. CASE CancelReturns
  <2> DEFINE cancelled == [Top EXCEPT !.at = "unwind", !.writer.state = "cancelled"]
  <2>1. "place" \in DOMAIN cancelled /\ cancelled.place = Top.place
    BY <1>4
  <2>2. calls' = Append(Front(calls), cancelled) /\ slot' = slot /\ workspaces' = workspaces
    BY <1>15 DEF CancelReturns, Continue
  <2> HIDE DEF cancelled
  <2> QED
    BY <1>3, <2>1, <2>2 DEF KeepsLease
<1> QED
  BY <1>6, <1>7, <1>8, <1>9, <1>10, <1>11, <1>12, <1>13, <1>14, <1>15 DEF CallbackStep

-----------------------------------------------------------------------------
(* Calls and releases.                                                     *)

\* The slot's flags after it is taken or left.
LEMMA SlotTaken ==
  ASSUME NEW t \in [in_use : BOOLEAN, release_requested : BOOLEAN, held : BOOLEAN],
         NEW used \in BOOLEAN
  PROVE  /\ [t EXCEPT !.in_use = used] \in
              [in_use : BOOLEAN, release_requested : BOOLEAN, held : BOOLEAN]
         /\ [t EXCEPT !.in_use = used].in_use = used
         /\ [t EXCEPT !.in_use = used].release_requested = t.release_requested
  OBVIOUS

LEMMA CallKeepsLeases ==
  ASSUME LeaseInv, MaxDepth \in Nat, Call
  PROVE  LeaseInv'
<1>1. PICK S : calls \in Seq(S)
  BY DEF LeaseInv, StackOK
<1>2. PICK f : calls' = Append(calls, f) /\ "place" \in DOMAIN f /\ f.place = Leased
  BY DEF Call
<1>3. Len(calls) \in Nat /\ Len(calls) < MaxDepth
  BY <1>1 DEF Call, Depth
<1>4. /\ \E T : calls' \in Seq(T)
      /\ Len(calls') = Len(calls) + 1
      /\ \A d \in 1 .. Len(calls) : calls'[d] = calls[d]
      /\ calls'[Len(calls) + 1] = f
  <2>1. /\ \E T : Append(calls, f) \in Seq(T)
        /\ Len(Append(calls, f)) = Len(calls) + 1
        /\ \A d \in 1 .. Len(calls) : Append(calls, f)[d] = calls[d]
        /\ Append(calls, f)[Len(calls) + 1] = f
    BY <1>1, PushedCall
  <2>2. calls' = Append(calls, f)
    BY <1>2
  <2> QED
    BY <2>1, <2>2, Zenon
<1>5. Leased = (IF Len(calls) = 0 THEN 0 ELSE Len(calls) + 1) /\ Leased \in Places
  BY <1>3 DEF LeaseInv, SlotFollowsCalls, Leased, SlotPlace, Depth, Places
<1>6. StackOK'
  BY <1>2, <1>3, <1>4 DEF LeaseInv, StackOK
<1>7. OutermostLeases'
  BY <1>2, <1>3, <1>4, <1>5 DEF LeaseInv, OutermostLeases
<1>8. SlotFollowsCalls'
  <2>1. slot' = [slot EXCEPT !.in_use = TRUE]
    BY DEF Call, LeasedSlot
  <2>2. Len(calls') > 0
    BY <1>3, <1>4
  <2> QED
    BY <2>1, <2>2, SlotTaken DEF LeaseInv, SlotFollowsCalls
<1>9. /\ workspaces' = [p \in Places |-> workspaces'[p]]
      /\ \A p \in Places : workspaces'[p] = IF p = Leased THEN Cleared(Len(calls) + 1)
                                           ELSE workspaces[p]
  BY <1>5 DEF LeaseInv, WorkspacesOK, Call, Depth
<1>10. \A n : "of" \in DOMAIN Cleared(n) /\ Cleared(n).of = n
  BY DEF Cleared
<1>11. WorkspacesOK'
  BY <1>9, <1>10 DEF LeaseInv, WorkspacesOK
<1>12. OwnWorkspaces'
  <2> SUFFICES ASSUME NEW d \in 1 .. Len(calls) + 1
               PROVE  workspaces'[calls'[d].place].of = d
    BY <1>4 DEF OwnWorkspaces
  <2>1. CASE d = Len(calls) + 1
    BY <1>2, <1>4, <1>5, <1>9, <1>10, <2>1
  <2>2. CASE d \in 1 .. Len(calls)
    <3>1. calls[d].place \in Places /\ calls[d].place # Leased
      BY <1>3, <1>5, <2>2 DEF LeaseInv, OutermostLeases, Places
    <3> QED
      BY <1>4, <1>9, <2>2, <3>1 DEF LeaseInv, OwnWorkspaces
  <2> QED
    BY <1>3, <2>1, <2>2
<1> QED
  BY <1>6, <1>7, <1>8, <1>11, <1>12 DEF LeaseInv

LEMMA ReleaseKeepsLeases ==
  ASSUME LeaseInv, MaxDepth \in Nat, ReleaseThreadState
  PROVE  LeaseInv'
<1>1. PICK S : calls \in Seq(S)
  BY DEF LeaseInv, StackOK
<1>2. calls' = calls /\ Len(calls) \in Nat
  BY <1>1 DEF ReleaseThreadState
<1>3. StackOK' /\ OutermostLeases'
  BY <1>2 DEF LeaseInv, StackOK, OutermostLeases
<1>4. CASE slot.in_use /\ workspaces' = workspaces /\ slot' = [slot EXCEPT !.release_requested = TRUE]
  BY <1>2, <1>3, <1>4 DEF LeaseInv, SlotFollowsCalls, WorkspacesOK, OwnWorkspaces
<1>5. CASE ~slot.in_use /\ ReleaseSlot
  <2>1. Len(calls) = 0
    BY <1>2, <1>5 DEF LeaseInv, SlotFollowsCalls
  <2>2. SlotFollowsCalls'
    BY <1>2, <1>5, <2>1 DEF SlotFollowsCalls, ReleaseSlot
  <2>3. /\ workspaces' = [p \in Places |-> workspaces'[p]]
        /\ \A p \in Places : workspaces'[p] = IF p = SlotPlace THEN Cleared(NoCall)
                                             ELSE workspaces[p]
    BY <1>5 DEF LeaseInv, WorkspacesOK, ReleaseSlot
  <2>4. "of" \in DOMAIN Cleared(NoCall)
    BY DEF Cleared
  <2>5. WorkspacesOK'
    BY <2>3, <2>4 DEF LeaseInv, WorkspacesOK
  <2>6. OwnWorkspaces'
    BY <1>2, <2>1 DEF OwnWorkspaces
  <2> QED
    BY <1>3, <2>2, <2>5, <2>6 DEF LeaseInv
<1> QED
  BY <1>4, <1>5 DEF ReleaseThreadState

LEMMA UnwindKeepsLeases ==
  ASSUME LeaseInv, MaxDepth \in Nat, Unwind
  PROVE  /\ LeaseInv'
         /\ slot.release_requested /\ ~slot'.release_requested => calls' = <<>> /\ ~slot'.held
<1>1. PICK S : calls \in Seq(S)
  BY DEF LeaseInv, StackOK
<1>2. Len(calls) \in Nat /\ Len(calls) > 0 /\ calls' = Front(calls)
  BY <1>1 DEF Unwind
<1>3. /\ calls' \in Seq(S) /\ Len(calls') = Len(calls) - 1
      /\ \A d \in 1 .. Len(calls) - 1 : calls'[d] = calls[d]
  BY <1>1, <1>2, PoppedCall
<1>4. Top.place = (IF Len(calls) = 1 THEN 0 ELSE Len(calls)) /\ Top.place \in Places
  BY <1>2, TopLease
<1>5. StackOK'
  BY <1>2, <1>3 DEF LeaseInv, StackOK
<1>6. OutermostLeases'
  BY <1>2, <1>3 DEF LeaseInv, OutermostLeases
<1>7. /\ workspaces' = [p \in Places |-> workspaces'[p]]
      /\ \A p \in Places : workspaces'[p] = IF p = Top.place THEN Cleared(NoCall)
                                           ELSE workspaces[p]
  BY <1>4 DEF LeaseInv, WorkspacesOK, Unwind, DestroyLease, ReleaseSlot
<1>8. "of" \in DOMAIN Cleared(NoCall)
  BY DEF Cleared
<1>9. WorkspacesOK'
  BY <1>7, <1>8 DEF LeaseInv, WorkspacesOK
<1>10. OwnWorkspaces'
  <2> SUFFICES ASSUME NEW d \in 1 .. Len(calls) - 1
               PROVE  workspaces'[calls'[d].place].of = d
    BY <1>3 DEF OwnWorkspaces
  <2>1. d \in 1 .. Len(calls) /\ d < Len(calls)
    BY <1>2
  <2>2. calls[d].place \in Places /\ calls[d].place # Top.place
    BY <1>2, <1>4, <2>1 DEF LeaseInv, StackOK, OutermostLeases, Places
  <2> QED
    BY <1>3, <1>7, <2>1, <2>2 DEF LeaseInv, OwnWorkspaces
<1>11. CASE Top.place = SlotPlace
  <2>1. Len(calls) = 1
    BY <1>2, <1>4, <1>11 DEF SlotPlace
  <2>2. Len(calls') = 0
    BY <1>3, <2>1
  <2>3. calls' = <<>>
    BY <1>3, <2>2
  <2>4. CASE slot.release_requested
    <3>1. slot' = [in_use |-> FALSE, release_requested |-> FALSE, held |-> FALSE]
      BY <1>11, <2>4 DEF Unwind, DestroyLease, ReleaseSlot
    <3>2. SlotFollowsCalls'
      BY <2>2, <3>1 DEF SlotFollowsCalls
    <3> QED
      BY <1>5, <1>6, <1>9, <1>10, <2>3, <3>1, <3>2 DEF LeaseInv
  <2>5. CASE ~slot.release_requested
    <3>1. slot' = [slot EXCEPT !.in_use = FALSE]
      BY <1>11, <2>5 DEF Unwind, DestroyLease
    <3>2. /\ slot' \in [in_use : BOOLEAN, release_requested : BOOLEAN, held : BOOLEAN]
          /\ ~slot'.in_use /\ slot'.release_requested = slot.release_requested
      BY <3>1, SlotTaken DEF LeaseInv, SlotFollowsCalls
    <3>3. SlotFollowsCalls'
      BY <2>2, <2>5, <3>2 DEF SlotFollowsCalls
    <3> QED
      BY <1>5, <1>6, <1>9, <1>10, <2>5, <3>3 DEF LeaseInv
  <2> QED
    BY <2>4, <2>5
<1>12. CASE Top.place # SlotPlace
  <2>1. Len(calls') > 0
    BY <1>2, <1>3, <1>4, <1>12 DEF SlotPlace
  <2>2. slot' = [slot EXCEPT !.in_use = TRUE]
    BY <1>12 DEF Unwind, DestroyLease
  <2>3. SlotFollowsCalls' /\ slot'.release_requested = slot.release_requested
    BY <2>1, <2>2 DEF LeaseInv, SlotFollowsCalls
  <2> QED
    BY <1>5, <1>6, <1>9, <1>10, <2>3 DEF LeaseInv
<1> QED
  BY <1>11, <1>12

-----------------------------------------------------------------------------
(* The theorems.                                                           *)

LEMMA InitLeases ==
  ASSUME TopologyAssumption, Init
  PROVE  LeaseInv
<1>1. calls = <<>> /\ calls \in Seq({}) /\ Len(calls) = 0
  BY DEF Init
<1>2. StackOK /\ OutermostLeases /\ OwnWorkspaces
  BY <1>1, DepthType DEF StackOK, OutermostLeases, OwnWorkspaces
<1>3. SlotFollowsCalls
  BY <1>1 DEF Init, SlotFollowsCalls
<1>4. \A p \in Places : workspaces[p] = Cleared(NoCall)
  BY DEF Init
<1>5. WorkspacesOK
  BY <1>4 DEF Init, WorkspacesOK, Cleared
<1> QED
  BY <1>2, <1>3, <1>5 DEF LeaseInv

LEMMA StepKeepsLeases ==
  ASSUME TopologyAssumption, LeaseInv, [Next]_vars
  PROVE  /\ LeaseInv'
         /\ slot.release_requested /\ ~slot'.release_requested => calls' = <<>> /\ ~slot'.held
<1>1. MaxDepth \in Nat
  BY DepthType
<1>2. CASE Call
  <2>1. slot'.release_requested = slot.release_requested
    BY <1>2 DEF LeaseInv, SlotFollowsCalls, Call, LeasedSlot
  <2> QED
    BY <1>1, <1>2, <2>1, CallKeepsLeases
<1>3. CASE ReleaseThreadState
  <2>1. slot.release_requested => slot'.release_requested
    BY <1>3 DEF LeaseInv, SlotFollowsCalls, ReleaseThreadState, ReleaseSlot
  <2> QED
    BY <1>1, <1>3, <2>1, ReleaseKeepsLeases
<1>4. CASE Unwind
  BY <1>1, <1>4, UnwindKeepsLeases
<1>5. CASE CallbackStep
  <2>1. KeepsLease
    BY <1>1, <1>5, CallbackKeepsLease
  <2>2. slot'.release_requested = slot.release_requested
    BY <2>1 DEF KeepsLease, LeaseInv, SlotFollowsCalls
  <2> QED
    BY <1>1, <2>1, <2>2, LeaseKept
<1>6. CASE UNCHANGED vars
  BY <1>6 DEF vars, LeaseInv, StackOK, OutermostLeases, SlotFollowsCalls, WorkspacesOK,
              OwnWorkspaces
<1> QED
  BY <1>2, <1>3, <1>4, <1>5, <1>6 DEF Next, CallbackStep

\* For every caller, nesting and bound: no call nested in a callback and no
\* release of the thread's caches clears the engine state or the workspace a
\* running call leased, and no request stays behind in a free slot
\* (requests_topology_state.cpp).
THEOREM LeasesAreSound == Spec => [](WorkspaceIsOwn /\ NoStaleRequest)
<1>1. TopologyAssumption
  BY TopologyAssumption
<1>2. Init => LeaseInv
  BY <1>1, InitLeases
<1>3. LeaseInv /\ [Next]_vars => LeaseInv'
  BY <1>1, StepKeepsLeases
<1>4. LeaseInv => WorkspaceIsOwn /\ NoStaleRequest
  <2> SUFFICES ASSUME LeaseInv
               PROVE  WorkspaceIsOwn /\ NoStaleRequest
    OBVIOUS
  <2>1. PICK S : calls \in Seq(S)
    BY DEF LeaseInv, StackOK
  <2>2. DOMAIN calls = 1 .. Len(calls)
    BY <2>1
  <2>3. WorkspaceIsOwn
    BY <2>2 DEF LeaseInv, OwnWorkspaces, WorkspaceIsOwn
  <2>4. NoStaleRequest
    BY DEF LeaseInv, SlotFollowsCalls, NoStaleRequest
  <2> QED
    BY <2>3, <2>4
<1> QED
  BY <1>2, <1>3, <1>4, PTL DEF Spec

\* A release of the caches requested under running calls is served when the
\* outermost of them ends, with the storage, and not before.
THEOREM ReleaseServed == Spec => ReleaseIsDeferred
<1>1. TopologyAssumption
  BY TopologyAssumption
<1>2. Init => LeaseInv
  BY <1>1, InitLeases
<1>3. LeaseInv /\ [Next]_vars => LeaseInv'
  BY <1>1, StepKeepsLeases
<1>4. LeaseInv /\ [Next]_vars =>
        [slot.release_requested /\ ~slot'.release_requested => calls' = <<>> /\ ~slot'.held]_vars
  BY <1>1, StepKeepsLeases
<1> QED
  BY <1>2, <1>3, <1>4, PTL DEF Spec, ReleaseIsDeferred

-----------------------------------------------------------------------------
(* What a call and its workspace hold, from callback to callback.          *)

Measurement == [size : Nat, normalized : Nat]
WriterType == [state : {"untouched", "open", "finished", "cancelled"}, left : 0 .. MaxRings]

FrameType ==
  [at : Callbacks \cup {"sweep", "unwind"}, place : Places, source : Sources, left : Nat,
   path_count : Nat, point_count : Nat, block : Nat, next_vertex : Nat, written : Nat,
   loaded : Nat, transaction : BOOLEAN, writer : WriterType, ok : BOOLEAN]

WorkspaceType ==
  [of : Nat, measured : [Sources -> [paths : Seq(Measurement), points : Nat]], rings : Nat]

\* sums[i] is the size of the first i paths of m together; no induction is
\* needed, since the function grows with the paths.
IsSums(sums, m) ==
  /\ sums \in [0 .. Len(m.paths) -> Nat]
  /\ sums[0] = 0 /\ sums[Len(m.paths)] = m.points
  /\ \A i \in 1 .. Len(m.paths) : sums[i] = sums[i - 1] + m.paths[i].size
  /\ \A i \in 0 .. Len(m.paths) : sums[i] <= m.points

\* The first pass: the points counted so far are those of the workspace.
FirstPass(f, w) ==
  /\ \A s \in Sources : \E sums : IsSums(sums, w.measured[s])
  /\ f.point_count = w.measured[1].points + w.measured[2].points
  /\ f.at = "measure" => f.left > 0
  /\ f.at \in {"count", "measure"} => f.loaded = 0
  /\ f.at \in {"recount", "copy", "sweep", "begin", "acquire", "finish"} =>
       f.point_count <= EnginePointLimit

\* The points of the sources loaded before the one being loaded.
LoadedBefore(f, w) == IF f.source = 2 THEN w.measured[1].points ELSE 0

\* The second pass: what is left of the source fits in what is left of its block.
SecondPass(f, w) ==
  /\ f.written <= f.block
  /\ f.at = "recount" => f.loaded <= LoadedBefore(f, w)
  /\ f.at = "copy" =>
       /\ f.left \in 1 .. Len(w.measured[f.source].paths)
       /\ f.block = w.measured[f.source].points
       /\ f.loaded <= LoadedBefore(f, w) + f.next_vertex
       /\ \E sums : /\ IsSums(sums, w.measured[f.source])
                    /\ f.next_vertex <= sums[Len(w.measured[f.source].paths) - f.left]
  /\ f.at \in {"sweep", "begin", "acquire", "finish"} =>
       f.loaded <= w.measured[1].points + w.measured[2].points

\* The writer's transaction, as far as the place in the code tells.
Transaction(f, w) ==
  /\ f.at \in {"count", "measure", "recount", "copy", "sweep"} =>
       f.writer = [state |-> "untouched", left |-> 0] /\ ~f.transaction /\ ~f.ok
  /\ f.at \in {"begin", "acquire", "finish", "cancel"} =>
       f.writer.state = "open" /\ f.transaction /\ ~f.ok
  /\ f.at = "begin" => w.rings = f.writer.left
  /\ f.at \in {"acquire", "finish"} => f.left = f.writer.left
  /\ f.at = "acquire" => f.left > 0
  /\ f.at = "finish" => f.left = 0
  /\ f.at = "unwind" => /\ f.writer.state \in {"untouched", "finished", "cancelled"}
                        /\ f.ok <=> f.writer.state = "finished"

FrameOK(f, w) ==
  /\ f \in FrameType /\ w \in WorkspaceType
  /\ FirstPass(f, w) /\ SecondPass(f, w) /\ Transaction(f, w)

CallsInv ==
  /\ LeaseInv
  /\ \A d \in 1 .. Len(calls) : FrameOK(calls[d], workspaces[calls[d].place])

\* What holds of a frame wherever the call is.
Settled(f, w) ==
  /\ f \in FrameType /\ w \in WorkspaceType
  /\ \A s \in Sources : \E sums : IsSums(sums, w.measured[s])
  /\ f.point_count = w.measured[1].points + w.measured[2].points
  /\ f.written <= f.block

\* The writer was not touched yet.
NotOpened(f) == /\ f.writer = [state |-> "untouched", left |-> 0]
                /\ ~f.transaction /\ ~f.ok

LEMMA SettledFrame ==
  ASSUME NEW f, NEW w, FrameOK(f, w)
  PROVE  Settled(f, w)
  BY DEF FrameOK, FirstPass, SecondPass, Settled

LEMMA Limits ==
  ASSUME TopologyAssumption
  PROVE  /\ MaxRings \in Nat /\ EnginePointLimit \in Nat /\ MaxPaths \in Nat
         /\ InputPathLimit \in Nat /\ InputPointLimit \in Nat
  BY DEF TopologyAssumption

\* The totals of a workspace are numbers.
LEMMA WorkspaceFields ==
  ASSUME NEW w \in WorkspaceType
  PROVE  /\ \A s \in Sources : /\ w.measured[s].points \in Nat
                               /\ w.measured[s].paths \in Seq(Measurement)
         /\ w.measured[1].points \in Nat /\ w.measured[2].points \in Nat
         /\ w.rings \in Nat
<1>1. 1 \in Sources /\ 2 \in Sources
  BY DEF Sources
<1>2. w.measured \in [Sources -> [paths : Seq(Measurement), points : Nat]] /\ w.rings \in Nat
  BY DEF WorkspaceType
<1>3. \A s \in Sources : w.measured[s] \in [paths : Seq(Measurement), points : Nat]
  BY <1>2
<1>4. \A s \in Sources : /\ w.measured[s].points \in Nat
                         /\ w.measured[s].paths \in Seq(Measurement)
  BY <1>3
<1> QED
  BY <1>1, <1>2, <1>4

\* The frame that fails keeps its writer; its transaction is cancelled if it is active.
LEMMA FailedFrame ==
  ASSUME NEW f, NEW w, Settled(f, w),
         \/ NotOpened(f)
         \/ f.writer.state = "open" /\ f.transaction
  PROVE  FrameOK(Failed(f), w) /\ Failed(f).writer = f.writer
<1> DEFINE end == IF f.transaction THEN "cancel" ELSE "unwind"
           g == Failed(f)
<1>1. f \in FrameType
  BY DEF Settled
<1>2. /\ g \in FrameType /\ g.at = end /\ g.ok = FALSE
      /\ g.writer = f.writer /\ g.transaction = f.transaction /\ g.point_count = f.point_count
      /\ g.written = f.written /\ g.block = f.block
  <2>1. end \in Callbacks \cup {"sweep", "unwind"}
    BY DEF Callbacks
  <2>2. g = [f EXCEPT !.at = end, !.ok = FALSE]
    BY DEF Failed
  <2> HIDE DEF end, g
  <2>3. g \in FrameType
    BY <1>1, <2>1, <2>2 DEF FrameType
  <2>4. /\ g.at = end /\ g.ok = FALSE
        /\ g.writer = f.writer /\ g.transaction = f.transaction /\ g.point_count = f.point_count
        /\ g.written = f.written /\ g.block = f.block
    BY <1>1, <2>2 DEF FrameType
  <2> QED
    BY <2>3, <2>4
<1>3. end \in {"cancel", "unwind"}
  OBVIOUS
<1>4. FirstPass(g, w)
  BY <1>2, <1>3 DEF Settled, FirstPass
<1>5. SecondPass(g, w)
  BY <1>2, <1>3 DEF Settled, SecondPass
<1>6. Transaction(g, w)
  BY <1>2, <1>3 DEF NotOpened, Transaction
<1> QED
  BY <1>2, <1>4, <1>5, <1>6 DEF FrameOK, Settled

\* The source is measured: the next one, or the second pass if the plan allows it.
LEMMA MeasuredFrame ==
  ASSUME NEW f, NEW w, Settled(f, w), NotOpened(f), f.loaded = 0, EnginePointLimit \in Nat
  PROVE  FrameOK(Measured(f), w) /\ Measured(f).writer = f.writer
<1>1. f \in FrameType /\ w \in WorkspaceType /\ f.point_count \in Nat
  BY DEF Settled, FrameType
<1>2. CASE f.source = 1
  <2> DEFINE g == [f EXCEPT !.at = "count", !.source = 2]
  <2>1. Measured(f) = g
    BY <1>2 DEF Measured
  <2>2. g \in FrameType
    <3>1. {"count", "recount"} \subseteq Callbacks \cup {"sweep", "unwind"} /\ {1, 2} \subseteq Sources
      BY DEF Callbacks, Sources
    <3> QED
      BY <1>1, <3>1 DEF FrameType
  <2>3. /\ g.at = "count" /\ g.writer = f.writer /\ g.transaction = f.transaction /\ g.ok = f.ok
        /\ g.point_count = f.point_count /\ g.loaded = f.loaded
        /\ g.written = f.written /\ g.block = f.block
    BY <1>1 DEF FrameType
  <2> HIDE DEF g
  <2>4. FirstPass(g, w) /\ SecondPass(g, w)
    BY <2>3 DEF Settled, FirstPass, SecondPass
  <2>5. Transaction(g, w)
    BY <2>3 DEF NotOpened, Transaction
  <2> QED
    BY <1>1, <2>1, <2>2, <2>3, <2>4, <2>5 DEF FrameOK
<1>3. CASE f.source # 1 /\ f.point_count > EnginePointLimit
  BY <1>3, FailedFrame DEF Measured, Planned
<1>4. CASE f.source # 1 /\ ~(f.point_count > EnginePointLimit)
  <2> DEFINE g == [f EXCEPT !.at = "recount", !.source = 1]
  <2>1. Measured(f) = g
    BY <1>4 DEF Measured, Planned
  <2>2. g \in FrameType
    <3>1. {"count", "recount"} \subseteq Callbacks \cup {"sweep", "unwind"} /\ {1, 2} \subseteq Sources
      BY DEF Callbacks, Sources
    <3> QED
      BY <1>1, <3>1 DEF FrameType
  <2>3. /\ g.at = "recount" /\ g.writer = f.writer /\ g.transaction = f.transaction /\ g.ok = f.ok
        /\ g.point_count = f.point_count /\ g.loaded = f.loaded /\ g.source = 1
        /\ g.written = f.written /\ g.block = f.block
    BY <1>1 DEF FrameType
  <2>4. f.point_count <= EnginePointLimit
    BY <1>1, <1>4
  <2> HIDE DEF g
  <2>5. FirstPass(g, w) /\ SecondPass(g, w)
    BY <2>3, <2>4 DEF Settled, FirstPass, SecondPass, LoadedBefore
  <2>6. Transaction(g, w)
    BY <2>3 DEF NotOpened, Transaction
  <2> QED
    BY <1>1, <2>1, <2>2, <2>3, <2>5, <2>6 DEF FrameOK
<1> QED
  BY <1>2, <1>3, <1>4

\* The source is loaded: the next one, or the sweep.
LEMMA LoadedFrame ==
  ASSUME NEW f, NEW w, Settled(f, w), NotOpened(f), f.point_count <= EnginePointLimit,
         f.loaded <= LoadedBefore(f, w) + w.measured[f.source].points
  PROVE  FrameOK(Loaded(f), w) /\ Loaded(f).writer = f.writer
<1>1. f \in FrameType /\ w \in WorkspaceType
  BY DEF Settled
<1>2. /\ w.measured[1].points \in Nat /\ w.measured[2].points \in Nat /\ f.loaded \in Nat
      /\ f.source \in {1, 2}
  BY <1>1, WorkspaceFields DEF FrameType, Sources
<1>3. CASE f.source = 1
  <2> DEFINE g == [f EXCEPT !.at = "recount", !.source = 2]
  <2>1. Loaded(f) = g
    BY <1>3 DEF Loaded
  <2>2. g \in FrameType
    <3>1. {"count", "recount"} \subseteq Callbacks \cup {"sweep", "unwind"} /\ {1, 2} \subseteq Sources
      BY DEF Callbacks, Sources
    <3> QED
      BY <1>1, <3>1 DEF FrameType
  <2>3. /\ g.at = "recount" /\ g.writer = f.writer /\ g.transaction = f.transaction /\ g.ok = f.ok
        /\ g.point_count = f.point_count /\ g.loaded = f.loaded /\ g.source = 2
        /\ g.written = f.written /\ g.block = f.block
    BY <1>1 DEF FrameType
  <2>4. f.loaded <= w.measured[1].points
    BY <1>2, <1>3 DEF LoadedBefore
  <2> HIDE DEF g
  <2>5. FirstPass(g, w) /\ SecondPass(g, w)
    BY <2>3, <2>4 DEF Settled, FirstPass, SecondPass, LoadedBefore
  <2>6. Transaction(g, w)
    BY <2>3 DEF NotOpened, Transaction
  <2> QED
    BY <1>1, <2>1, <2>2, <2>3, <2>5, <2>6 DEF FrameOK
<1>4. CASE f.source = 2
  <2> DEFINE g == [f EXCEPT !.at = "sweep"]
  <2>1. Loaded(f) = g
    BY <1>4 DEF Loaded
  <2>2. g \in FrameType
    BY <1>1 DEF FrameType
  <2>3. /\ g.at = "sweep" /\ g.writer = f.writer /\ g.transaction = f.transaction /\ g.ok = f.ok
        /\ g.point_count = f.point_count /\ g.loaded = f.loaded
        /\ g.written = f.written /\ g.block = f.block
    BY <1>1 DEF FrameType
  <2>4. f.loaded <= w.measured[1].points + w.measured[2].points
    BY <1>2, <1>4 DEF LoadedBefore
  <2> HIDE DEF g
  <2>5. FirstPass(g, w) /\ SecondPass(g, w)
    BY <2>3, <2>4 DEF Settled, FirstPass, SecondPass
  <2>6. Transaction(g, w)
    BY <2>3 DEF NotOpened, Transaction
  <2> QED
    BY <1>1, <2>1, <2>2, <2>3, <2>5, <2>6 DEF FrameOK
<1> QED
  BY <1>2, <1>3, <1>4

\* The rings are written one by one; the writer counts with the loop.
LEMMA NextRingFrame ==
  ASSUME NEW f, NEW w, Settled(f, w), f.point_count <= EnginePointLimit,
         f.loaded <= w.measured[1].points + w.measured[2].points,
         f.writer.state = "open", f.transaction, ~f.ok, f.left = f.writer.left
  PROVE  FrameOK(NextRing(f), w) /\ NextRing(f).writer = f.writer
<1> DEFINE to == IF f.left = 0 THEN "finish" ELSE "acquire"
           g == NextRing(f)
<1>1. f \in FrameType /\ w \in WorkspaceType /\ f.left \in Nat
  BY DEF Settled, FrameType
<1>2. to \in Callbacks
  BY DEF Callbacks
<1>3. (to = "finish" => f.left = 0) /\ (to = "acquire" => f.left > 0) /\ to \in {"finish", "acquire"}
  BY <1>1
<1>4. g = [f EXCEPT !.at = to]
  BY DEF NextRing
<1> HIDE DEF to, g
<1>5. g \in FrameType
  BY <1>1, <1>2, <1>4 DEF FrameType
<1>6. /\ g.at = to /\ g.writer = f.writer /\ g.transaction = f.transaction /\ g.ok = f.ok
      /\ g.point_count = f.point_count /\ g.loaded = f.loaded /\ g.left = f.left
      /\ g.written = f.written /\ g.block = f.block
  BY <1>1, <1>4 DEF FrameType
<1>7. FirstPass(g, w) /\ SecondPass(g, w)
  BY <1>3, <1>6 DEF Settled, FirstPass, SecondPass
<1>8. Transaction(g, w)
  BY <1>3, <1>6 DEF Transaction
<1> QED
  BY <1>1, <1>5, <1>6, <1>7, <1>8 DEF FrameOK, g

LEMMA ShapeFields ==
  ASSUME TopologyAssumption, NEW s \in Shapes
  PROVE  /\ s.size \in Nat /\ s.points \in Nat
         /\ Normalized(s) \in Nat /\ Normalized(s) <= s.points
<1>1. s.size \in Nat /\ s.points \in Nat /\ (s.closes => s.points > 1)
  BY DEF TopologyAssumption
<1> QED
  BY <1>1 DEF Normalized

\* One more path: the sums go on from the total.
LEMMA SumsGrow ==
  ASSUME NEW m \in [paths : Seq(Measurement), points : Nat], NEW sums, IsSums(sums, m),
         NEW s, s.size \in Nat, Normalized(s) \in Nat
  PROVE  /\ WithPath(m, s) \in [paths : Seq(Measurement), points : Nat]
         /\ WithPath(m, s).points = m.points + s.size
         /\ \E more : IsSums(more, WithPath(m, s))
<1> DEFINE path == [size |-> s.size, normalized |-> Normalized(s)]
           count == Len(m.paths)
           grown == WithPath(m, s)
           more == [i \in 0 .. count + 1 |-> IF i = count + 1 THEN m.points + s.size ELSE sums[i]]
<1>1. m.paths \in Seq(Measurement) /\ m.points \in Nat /\ count \in Nat
  OBVIOUS
<1>2. path \in Measurement /\ path.size = s.size
  BY DEF Measurement
<1>3. grown.paths = Append(m.paths, path) /\ grown.points = m.points + s.size
  BY DEF WithPath
<1>4. /\ Append(m.paths, path) \in Seq(Measurement)
      /\ Len(Append(m.paths, path)) = count + 1
      /\ \A i \in 1 .. count : Append(m.paths, path)[i] = m.paths[i]
      /\ Append(m.paths, path)[count + 1] = path
  <2> HIDE DEF path
  <2> QED
    BY <1>1, <1>2, AppendProperties
<1>5. grown \in [paths : Seq(Measurement), points : Nat]
  <2>1. grown = [paths |-> Append(m.paths, path), points |-> m.points + s.size]
    BY DEF WithPath
  <2> HIDE DEF path, grown
  <2> QED
    BY <1>1, <1>4, <2>1
<1>6. /\ sums \in [0 .. count -> Nat] /\ sums[0] = 0 /\ sums[count] = m.points
      /\ \A i \in 1 .. count : sums[i] = sums[i - 1] + m.paths[i].size
      /\ \A i \in 0 .. count : sums[i] <= m.points
  BY DEF IsSums
<1> HIDE DEF path, grown, count
<1>7. more \in [0 .. count + 1 -> Nat] /\ more[0] = 0 /\ more[count + 1] = m.points + s.size
  BY <1>1, <1>6
<1>8. \A i \in 1 .. count + 1 : more[i] = more[i - 1] + Append(m.paths, path)[i].size
  <2> SUFFICES ASSUME NEW i \in 1 .. count + 1
               PROVE  more[i] = more[i - 1] + Append(m.paths, path)[i].size
    OBVIOUS
  <2>1. CASE i = count + 1
    <3>1. more[i] = m.points + s.size /\ more[i - 1] = sums[count]
      BY <1>1, <2>1
    <3> QED
      BY <1>2, <1>4, <1>6, <2>1, <3>1
  <2>2. CASE i \in 1 .. count
    <3>1. more[i] = sums[i] /\ more[i - 1] = sums[i - 1]
      BY <1>1, <2>2
    <3> QED
      BY <1>4, <1>6, <2>2, <3>1
  <2>3. i = count + 1 \/ i \in 1 .. count
    BY <1>1
  <2> HIDE DEF more
  <2> QED
    BY <2>1, <2>2, <2>3
<1>9. \A i \in 0 .. count + 1 : more[i] <= m.points + s.size
  <2> SUFFICES ASSUME NEW i \in 0 .. count + 1
               PROVE  more[i] <= m.points + s.size
    OBVIOUS
  <2>1. CASE i = count + 1
    BY <1>1, <2>1
  <2>2. CASE i \in 0 .. count
    <3>1. more[i] = sums[i] /\ sums[i] \in Nat /\ sums[i] <= m.points
      BY <1>1, <1>6, <2>2
    <3> QED
      BY <1>1, <3>1
  <2> QED
    BY <1>1, <2>1, <2>2
<1> HIDE DEF more
<1>10. IsSums(more, grown)
  BY <1>3, <1>4, <1>7, <1>8, <1>9 DEF IsSums, count
<1> QED
  BY <1>3, <1>5, <1>10 DEF grown

-----------------------------------------------------------------------------
(* Every step of a call keeps its frame in order.                          *)

\* What the writer of the promise may see from one callback to the next.
WriterMoves(from, to) ==
  \/ to = from
  \/ \E n \in 0 .. MaxRings : /\ from = [state |-> "untouched", left |-> 0]
                              /\ to = [state |-> "open", left |-> n]
  \/ \E n \in 1 .. MaxRings : /\ from = [state |-> "open", left |-> n]
                              /\ to = [state |-> "open", left |-> n - 1]
  \/ from = [state |-> "open", left |-> 0] /\ to = [state |-> "finished", left |-> 0]
  \/ \E n \in 0 .. MaxRings : /\ from = [state |-> "open", left |-> n]
                              /\ to = [state |-> "cancelled", left |-> n]

\* The innermost call goes on as f with the workspace w.
FrameStep(f, w) ==
  /\ calls' = Append(Front(calls), f) /\ last' = last
  /\ \A p \in Places : workspaces'[p] = IF p = Top.place THEN w ELSE workspaces[p]
  /\ FrameOK(f, w)
  /\ WriterMoves(Top.writer, f.writer)

LEMMA TopFrame ==
  ASSUME CallsInv, MaxDepth \in Nat, calls # <<>>
  PROVE  /\ Len(calls) > 0 /\ Len(calls) \in Nat
         /\ Top.place \in Places
         /\ FrameOK(Top, Workspace) /\ Settled(Top, Workspace)
         /\ Top \in FrameType /\ Workspace \in WorkspaceType
<1>1. PICK S : calls \in Seq(S)
  BY DEF CallsInv, LeaseInv, StackOK
<1>2. Len(calls) > 0 /\ Len(calls) \in Nat
  BY <1>1
<1>3. FrameOK(Top, Workspace)
  BY <1>2 DEF CallsInv, Top, Last, Workspace
<1> QED
  BY <1>2, <1>3, TopLease, SettledFrame DEF CallsInv, Settled

LEMMA StepTakesFrame ==
  ASSUME CallsInv, MaxDepth \in Nat, KeepsLease, NEW f, NEW w, FrameStep(f, w)
  PROVE  CallsInv'
<1>1. PICK S : calls \in Seq(S)
  BY DEF CallsInv, LeaseInv, StackOK
<1>2. Len(calls) > 0 /\ Len(calls) \in Nat
  BY <1>1 DEF KeepsLease
<1>3. LeaseInv'
  BY LeaseKept DEF CallsInv
<1>4. /\ Len(calls') = Len(calls)
      /\ \A d \in 1 .. Len(calls) : calls'[d] = IF d = Len(calls) THEN f ELSE calls[d]
  BY <1>1, <1>2, ReplacedTop DEF FrameStep
<1>5. \A d \in 1 .. Len(calls) : /\ calls'[d].place = IF d = 1 THEN 0 ELSE d
                                 /\ calls[d].place = IF d = 1 THEN 0 ELSE d
                                 /\ calls[d].place \in Places
  BY <1>2, <1>3, <1>4 DEF CallsInv, LeaseInv, StackOK, OutermostLeases, Places
<1>6. \A d \in 1 .. Len(calls) : FrameOK(calls'[d], workspaces'[calls'[d].place])
  <2> SUFFICES ASSUME NEW d \in 1 .. Len(calls)
               PROVE  FrameOK(calls'[d], workspaces'[calls'[d].place])
    OBVIOUS
  <2>1. Top.place = calls[Len(calls)].place
    BY DEF Top, Last
  <2>2. CASE d = Len(calls)
    <3>1. calls'[d].place = Top.place /\ Top.place \in Places /\ calls'[d] = f
      BY <1>2, <1>4, <1>5, <2>1, <2>2
    <3> QED
      BY <3>1 DEF FrameStep
  <2>3. CASE d # Len(calls)
    <3>1. /\ calls'[d] = calls[d] /\ calls[d].place # Top.place
      BY <1>2, <1>4, <1>5, <2>1, <2>3
    <3>2. workspaces'[calls[d].place] = workspaces[calls[d].place]
      BY <1>5, <3>1 DEF FrameStep
    <3> QED
      BY <3>1, <3>2 DEF CallsInv
  <2> QED
    BY <2>2, <2>3
<1> QED
  BY <1>3, <1>4, <1>6 DEF CallsInv

\* The workspaces do not change.
LEMMA SameWorkspaces ==
  ASSUME workspaces' = workspaces
  PROVE  \A p \in Places : workspaces'[p] = IF p = Top.place THEN Workspace ELSE workspaces[p]
  BY DEF Workspace

\* A callback may fail as long as the transaction is not over.
LEMMA FailureStep ==
  ASSUME FrameOK(Top, Workspace), Continue(Failed(Top)), workspaces' = workspaces,
         Top.at \in {"count", "measure", "recount", "copy", "sweep", "begin", "acquire", "finish"}
  PROVE  \E f, w : FrameStep(f, w)
<1>1. NotOpened(Top) \/ (Top.writer.state = "open" /\ Top.transaction)
  BY DEF FrameOK, Transaction, NotOpened
<1>2. FrameOK(Failed(Top), Workspace) /\ Failed(Top).writer = Top.writer
  BY <1>1, SettledFrame, FailedFrame
<1>3. FrameStep(Failed(Top), Workspace)
  BY <1>2, SameWorkspaces DEF FrameStep, Continue, WriterMoves
<1> QED
  BY <1>3

LEMMA CallbackFailsStep ==
  ASSUME CallsInv, MaxDepth \in Nat, CallbackFails
  PROVE  \E f, w : FrameStep(f, w)
<1>1. /\ calls # <<>> /\ Continue(Failed(Top)) /\ workspaces' = workspaces
      /\ Top.at \in {"count", "measure", "recount", "copy", "sweep", "begin", "acquire", "finish"}
  BY DEF CallbackFails, At
<1> QED
  BY <1>1, TopFrame, FailureStep

LEMMA CountStep ==
  ASSUME TopologyAssumption, CallsInv, MaxDepth \in Nat, CountReturns
  PROVE  \E f, w : FrameStep(f, w)
<1>1. calls # <<>> /\ Top.at = "count" /\ workspaces' = workspaces
  BY DEF CountReturns, At
<1>2. FrameOK(Top, Workspace) /\ Settled(Top, Workspace) /\ Top \in FrameType
  BY <1>1, TopFrame
<1>3. PICK n \in 0 .. MaxPaths :
        LET counted == [Top EXCEPT !.path_count = @ + n, !.left = n]
        IN  \/ Continue(Failed(Top))
            \/ Continue(IF n = 0 THEN Measured(counted) ELSE [counted EXCEPT !.at = "measure"])
  BY DEF CountReturns
<1> DEFINE counted == [Top EXCEPT !.path_count = @ + n, !.left = n]
           measuring == [counted EXCEPT !.at = "measure"]
<1>4. CASE Continue(Failed(Top))
  BY <1>1, <1>2, <1>4, FailureStep
<1>5. CASE Continue(IF n = 0 THEN Measured(counted) ELSE measuring)
  <2>1. n \in Nat
    BY Limits
  <2>2. counted \in FrameType
    <3> DEFINE total == Top.path_count + n
    <3>1. total \in Nat
      BY <1>2, <2>1 DEF FrameType
    <3>2. counted = [Top EXCEPT !.path_count = total, !.left = n]
      OBVIOUS
    <3> HIDE DEF total, counted
    <3> QED
      BY <1>2, <2>1, <3>1, <3>2 DEF FrameType
  <2>3. /\ counted.at = "count" /\ counted.left = n /\ counted.writer = Top.writer
        /\ counted.transaction = Top.transaction /\ counted.ok = Top.ok
        /\ counted.point_count = Top.point_count /\ counted.loaded = Top.loaded
        /\ counted.written = Top.written /\ counted.block = Top.block
    BY <1>1, <1>2 DEF FrameType
  <2> HIDE DEF counted
  <2>4. Settled(counted, Workspace)
    BY <1>2, <2>2, <2>3 DEF Settled
  <2>5. NotOpened(counted) /\ counted.loaded = 0
    BY <1>1, <1>2, <2>3 DEF FrameOK, Transaction, FirstPass, NotOpened
  <2>6. CASE n = 0
    <3>1. FrameOK(Measured(counted), Workspace) /\ Measured(counted).writer = Top.writer
      BY <2>3, <2>4, <2>5, Limits, MeasuredFrame
    <3>2. FrameStep(Measured(counted), Workspace)
      BY <1>1, <1>5, <2>6, <3>1, SameWorkspaces DEF FrameStep, Continue, WriterMoves
    <3> QED
      BY <3>2
  <2>7. CASE n # 0
    <3>1. measuring \in FrameType
      <4>1. "measure" \in Callbacks \cup {"sweep", "unwind"}
        BY DEF Callbacks
      <4> QED
        BY <2>2, <4>1 DEF FrameType
    <3>2. /\ measuring.at = "measure" /\ measuring.left = n /\ measuring.writer = Top.writer
          /\ measuring.transaction = Top.transaction /\ measuring.ok = Top.ok
          /\ measuring.point_count = Top.point_count /\ measuring.loaded = Top.loaded
          /\ measuring.written = Top.written /\ measuring.block = Top.block
      BY <2>2, <2>3 DEF FrameType
    <3>3. n > 0
      BY <2>1, <2>7
    <3> HIDE DEF measuring
    <3>4. FirstPass(measuring, Workspace) /\ SecondPass(measuring, Workspace)
      BY <1>2, <2>3, <2>5, <3>2, <3>3 DEF Settled, FirstPass, SecondPass
    <3>5. Transaction(measuring, Workspace)
      BY <1>1, <1>2, <3>2 DEF FrameOK, Transaction
    <3>6. FrameStep(measuring, Workspace)
      BY <1>1, <1>2, <1>5, <2>7, <3>1, <3>2, <3>4, <3>5, SameWorkspaces
         DEF FrameStep, FrameOK, Settled, Continue, WriterMoves
    <3> QED
      BY <3>6
  <2> QED
    BY <2>6, <2>7
<1> QED
  BY <1>3, <1>4, <1>5

LEMMA MeasureStep ==
  ASSUME TopologyAssumption, CallsInv, MaxDepth \in Nat, MeasureReturns
  PROVE  \E f, w : FrameStep(f, w)
<1>1. calls # <<>> /\ Top.at = "measure"
  BY DEF MeasureReturns, At
<1>2. /\ FrameOK(Top, Workspace) /\ Settled(Top, Workspace) /\ Top \in FrameType
      /\ Workspace \in WorkspaceType /\ Top.place \in Places
  BY <1>1, TopFrame
<1>3. PICK s \in Shapes :
        \/ Continue(Failed(Top)) /\ UNCHANGED workspaces
        \/ LET measured == [Top EXCEPT !.left = @ - 1, !.point_count = @ + s.size]
           IN  /\ Continue(IF measured.left = 0 THEN Measured(measured) ELSE measured)
               /\ workspaces' = [workspaces EXCEPT ![Top.place].measured[Top.source] =
                                   WithPath(@, s)]
  BY DEF MeasureReturns
<1> DEFINE measured == [Top EXCEPT !.left = @ - 1, !.point_count = @ + s.size]
           own == [Workspace EXCEPT !.measured =
                     [Workspace.measured EXCEPT ![Top.source] = WithPath(@, s)]]
<1>4. CASE Continue(Failed(Top)) /\ workspaces' = workspaces
  BY <1>1, <1>2, <1>4, FailureStep
<1>5. CASE /\ Continue(IF measured.left = 0 THEN Measured(measured) ELSE measured)
           /\ workspaces' = [workspaces EXCEPT ![Top.place].measured[Top.source] = WithPath(@, s)]
  <2>1. /\ s.size \in Nat /\ Normalized(s) \in Nat
        /\ Top.left \in Nat /\ Top.left > 0 /\ Top.point_count \in Nat /\ Top.source \in Sources
    BY <1>1, <1>2, ShapeFields DEF FrameOK, FirstPass, FrameType
  <2>2. \A p \in Places : workspaces'[p] = IF p = Top.place THEN own ELSE workspaces[p]
    <3>1. workspaces' = [workspaces EXCEPT ![Top.place] = own]
      BY <1>5, Zenon DEF Workspace
    <3>2. DOMAIN workspaces = Places
      BY DEF CallsInv, LeaseInv, WorkspacesOK
    <3> HIDE DEF own
    <3> QED
      BY <1>2, <3>1, <3>2
  <2>3. /\ own \in WorkspaceType
        /\ own.measured[Top.source] = WithPath(Workspace.measured[Top.source], s)
        /\ \A t \in Sources \ {Top.source} : own.measured[t] = Workspace.measured[t]
        /\ \E more : IsSums(more, own.measured[Top.source])
        /\ own.measured[Top.source].points = Workspace.measured[Top.source].points + s.size
    <3> DEFINE before == Workspace.measured[Top.source]
               after == WithPath(before, s)
               paths == [Workspace.measured EXCEPT ![Top.source] = after]
    <3>1. /\ before \in [paths : Seq(Measurement), points : Nat]
          /\ Workspace.measured \in [Sources -> [paths : Seq(Measurement), points : Nat]]
      BY <1>2, <2>1 DEF WorkspaceType
    <3>2. PICK sums : IsSums(sums, before)
      BY <1>2, <2>1 DEF Settled
    <3>3. /\ after \in [paths : Seq(Measurement), points : Nat]
          /\ after.points = before.points + s.size
          /\ \E more : IsSums(more, after)
      <4> HIDE DEF before
      <4> QED
        BY <2>1, <3>1, <3>2, SumsGrow
    <3> HIDE DEF after, before
    <3>4. /\ paths \in [Sources -> [paths : Seq(Measurement), points : Nat]]
          /\ paths[Top.source] = after
          /\ \A t \in Sources \ {Top.source} : paths[t] = Workspace.measured[t]
      BY <2>1, <3>1, <3>3
    <3>5. own = [Workspace EXCEPT !.measured = paths]
      BY DEF after, before
    <3> HIDE DEF own, paths
    <3>6. own \in WorkspaceType /\ own.measured = paths
      BY <1>2, <3>4, <3>5 DEF WorkspaceType
    <3> QED
      BY <3>3, <3>4, <3>6 DEF after, before
  <2>4. measured \in FrameType
    <3> DEFINE fewer == Top.left - 1
               more == Top.point_count + s.size
    <3>1. fewer \in Nat /\ more \in Nat
      BY <2>1
    <3>2. measured = [Top EXCEPT !.left = fewer, !.point_count = more]
      OBVIOUS
    <3> HIDE DEF fewer, more, measured
    <3> QED
      BY <1>2, <3>1, <3>2 DEF FrameType
  <2>5. /\ measured.at = "measure" /\ measured.writer = Top.writer
        /\ measured.transaction = Top.transaction /\ measured.ok = Top.ok
        /\ measured.point_count = Top.point_count + s.size /\ measured.loaded = Top.loaded
        /\ measured.written = Top.written /\ measured.block = Top.block /\ measured.left \in Nat
    BY <1>1, <1>2, <2>1, SMTT(30) DEF FrameType
  <2> HIDE DEF measured, own
  <2>6. measured.point_count = own.measured[1].points + own.measured[2].points
    <3>1. /\ Workspace.measured[1].points \in Nat /\ Workspace.measured[2].points \in Nat
          /\ Top.source = 1 \/ Top.source = 2
          /\ 1 \in Sources /\ 2 \in Sources
      BY <1>2, <2>1, WorkspaceFields DEF Sources
    <3>2. Top.point_count = Workspace.measured[1].points + Workspace.measured[2].points
      BY <1>2 DEF Settled
    <3>3. CASE Top.source = 1
      <4>1. /\ own.measured[1].points = Workspace.measured[1].points + s.size
            /\ own.measured[2].points = Workspace.measured[2].points
        BY <2>3, <3>1, <3>3
      <4> QED
        BY <2>1, <2>5, <3>1, <3>2, <4>1
    <3>4. CASE Top.source = 2
      <4>1. /\ own.measured[2].points = Workspace.measured[2].points + s.size
            /\ own.measured[1].points = Workspace.measured[1].points
        BY <2>3, <3>1, <3>4
      <4> QED
        BY <2>1, <2>5, <3>1, <3>2, <4>1
    <3> QED
      BY <3>1, <3>3, <3>4
  <2>7. \A t \in Sources : \E sums : IsSums(sums, own.measured[t])
    BY <1>2, <2>3 DEF Settled
  <2>8. Settled(measured, own)
    BY <1>2, <2>3, <2>4, <2>5, <2>6, <2>7 DEF Settled
  <2>9. NotOpened(measured) /\ measured.loaded = 0
    BY <1>1, <1>2, <2>5 DEF FrameOK, Transaction, FirstPass, NotOpened
  <2>10. CASE measured.left = 0
    <3>1. FrameOK(Measured(measured), own) /\ Measured(measured).writer = Top.writer
      BY <2>5, <2>8, <2>9, Limits, MeasuredFrame
    <3>2. FrameStep(Measured(measured), own)
      BY <1>5, <2>2, <2>10, <3>1 DEF FrameStep, Continue, WriterMoves
    <3> QED
      BY <3>2
  <2>11. CASE measured.left # 0
    <3>1. FirstPass(measured, own) /\ SecondPass(measured, own)
      BY <2>5, <2>8, <2>9, <2>11 DEF Settled, FirstPass, SecondPass
    <3>2. Transaction(measured, own)
      BY <2>5, <2>9 DEF NotOpened, Transaction
    <3>3. FrameStep(measured, own)
      BY <1>5, <2>2, <2>5, <2>8, <2>11, <3>1, <3>2
         DEF FrameStep, FrameOK, Settled, Continue, WriterMoves
    <3> QED
      BY <3>3
  <2> QED
    BY <2>10, <2>11
<1> QED
  BY <1>3, <1>4, <1>5

LEMMA RecountStep ==
  ASSUME TopologyAssumption, CallsInv, MaxDepth \in Nat, RecountReturns
  PROVE  \E f, w : FrameStep(f, w)
<1>1. calls # <<>> /\ Top.at = "recount" /\ workspaces' = workspaces
  BY DEF RecountReturns, At
<1>2. /\ FrameOK(Top, Workspace) /\ Settled(Top, Workspace) /\ Top \in FrameType
      /\ Workspace \in WorkspaceType
  BY <1>1, TopFrame
<1> DEFINE total == Workspace.measured[Top.source].points
           paths == Workspace.measured[Top.source].paths
<1>3. PICK n \in 0 .. MaxPaths :
        Continue(IF n # Len(paths) THEN Failed(Top)
                 ELSE IF total = 0 THEN Loaded(Top)
                 ELSE [Top EXCEPT !.at = "copy", !.left = n, !.block = total,
                                  !.next_vertex = 0, !.written = 0])
  BY DEF RecountReturns, MeasuredPaths, SourcePoints
<1> DEFINE copying == [Top EXCEPT !.at = "copy", !.left = n, !.block = total,
                                  !.next_vertex = 0, !.written = 0]
<1>4. /\ Top.source \in Sources /\ total \in Nat /\ n \in Nat /\ Top.loaded \in Nat
      /\ NotOpened(Top) /\ Top.point_count <= EnginePointLimit
      /\ Top.loaded <= LoadedBefore(Top, Workspace)
      /\ LoadedBefore(Top, Workspace) \in Nat
  <2>1. Top.source \in Sources /\ Top.loaded \in Nat
    BY <1>2 DEF FrameType
  <2>2. total \in Nat /\ LoadedBefore(Top, Workspace) \in Nat
    BY <1>2, <2>1, WorkspaceFields DEF LoadedBefore
  <2> QED
    BY <1>1, <1>2, <2>1, <2>2, Limits
       DEF FrameOK, Transaction, FirstPass, SecondPass, NotOpened
<1>5. CASE n # Len(paths)
  BY <1>1, <1>2, <1>3, <1>5, FailureStep
<1>6. CASE n = Len(paths) /\ total = 0
  <2>1. Top.loaded <= LoadedBefore(Top, Workspace) + total
    BY <1>4
  <2>2. FrameOK(Loaded(Top), Workspace) /\ Loaded(Top).writer = Top.writer
    BY <1>2, <1>4, <2>1, LoadedFrame
  <2>3. FrameStep(Loaded(Top), Workspace)
    BY <1>1, <1>3, <1>6, <2>2, SameWorkspaces DEF FrameStep, Continue, WriterMoves
  <2> QED
    BY <2>3
<1>7. CASE n = Len(paths) /\ total # 0
  <2>1. copying \in FrameType
    <3>1. "copy" \in Callbacks \cup {"sweep", "unwind"} /\ 0 \in Nat
      BY DEF Callbacks
    <3> HIDE DEF total
    <3> QED
      BY <1>2, <1>4, <3>1 DEF FrameType
  <2>2. /\ copying.at = "copy" /\ copying.left = n /\ copying.block = total
        /\ copying.next_vertex = 0 /\ copying.written = 0 /\ copying.source = Top.source
        /\ copying.writer = Top.writer /\ copying.transaction = Top.transaction
        /\ copying.ok = Top.ok /\ copying.point_count = Top.point_count
        /\ copying.loaded = Top.loaded
    <3> HIDE DEF total
    <3> QED
      BY <1>2 DEF FrameType
  <2>3. PICK sums : IsSums(sums, Workspace.measured[Top.source])
    BY <1>2, <1>4 DEF Settled
  <2>4. n \in 1 .. Len(paths) /\ sums[Len(paths) - n] = 0
    <3>1. sums[0] = 0 /\ sums[Len(paths)] = total
      BY <2>3 DEF IsSums
    <3> QED
      BY <1>4, <1>7, <3>1
  <2> HIDE DEF copying
  <2>5. FirstPass(copying, Workspace)
    BY <1>2, <1>4, <2>2 DEF Settled, FirstPass
  <2>6. SecondPass(copying, Workspace)
    <3>1. LoadedBefore(copying, Workspace) = LoadedBefore(Top, Workspace)
      BY <2>2 DEF LoadedBefore
    <3>2. copying.loaded <= LoadedBefore(copying, Workspace) + copying.next_vertex
      BY <1>4, <2>2, <3>1
    <3>3. copying.next_vertex <= sums[Len(paths) - copying.left]
      BY <2>2, <2>4
    <3>4. copying.written <= copying.block
      BY <1>4, <2>2
    <3> QED
      BY <2>2, <2>3, <2>4, <3>2, <3>3, <3>4 DEF SecondPass
  <2>7. Transaction(copying, Workspace)
    BY <1>4, <2>2 DEF NotOpened, Transaction
  <2>8. FrameStep(copying, Workspace)
    BY <1>1, <1>2, <1>3, <1>7, <2>1, <2>2, <2>5, <2>6, <2>7, SameWorkspaces
       DEF FrameStep, FrameOK, Continue, WriterMoves, copying
  <2> QED
    BY <2>8
<1> QED
  BY <1>5, <1>6, <1>7

LEMMA MaxOfTwo ==
  ASSUME NEW a \in Nat, NEW b \in Nat
  PROVE  Max({a, b}) = IF a >= b THEN a ELSE b
  BY DEF Max

LEMMA MinOfTwo ==
  ASSUME NEW a \in Nat, NEW b \in Nat
  PROVE  Min({a, b}) = IF a <= b THEN a ELSE b
  BY DEF Min

\* What copy_borrowed_path writes and what it accepts is no longer than what
\* the first pass measured.
LEMMA WithinExpected ==
  ASSUME TopologyAssumption, NEW s \in Shapes, Expected \in Measurement
  PROVE  /\ Expected.size \in Nat /\ PointsWritten(s) \in Nat /\ PointsWritten(s) <= Expected.size
         /\ Matches(s) => Normalized(s) <= Expected.size
<1>1. s.size \in Nat /\ s.points \in Nat /\ Normalized(s) \in Nat /\ Normalized(s) <= s.points
  BY ShapeFields
<1>2. Expected.size \in Nat
  BY DEF Measurement
<1>3. Min({s.points, Expected.size}) \in Nat /\ Min({s.points, Expected.size}) <= Expected.size
  BY <1>1, <1>2, MinOfTwo
<1> QED
  BY <1>1, <1>2, <1>3 DEF PointsWritten, Matches

\* The next path fits behind those written before: its points end where the
\* sums of the measurement say, inside the block.
LEMMA PathFits ==
  ASSUME NEW vertex \in Nat, NEW points \in Nat, NEW size \in Nat, NEW sum \in Nat,
         NEW total \in Nat, vertex <= sum, sum + size <= total, points <= size
  PROVE  vertex + points \in Nat /\ vertex + points <= sum + size /\ vertex + points <= total
  OBVIOUS

LEMMA LoadedGrows ==
  ASSUME NEW loaded \in Nat, NEW start \in Nat, NEW vertex \in Nat, NEW points \in Nat,
         loaded <= start + vertex
  PROVE  loaded + points \in Nat /\ loaded + points <= start + (vertex + points)
  OBVIOUS

LEMMA CopyStep ==
  ASSUME TopologyAssumption, CallsInv, MaxDepth \in Nat, CopyReturns
  PROVE  \E f, w : FrameStep(f, w)
<1>1. calls # <<>> /\ Top.at = "copy" /\ workspaces' = workspaces
  BY DEF CopyReturns, At
<1>2. /\ FrameOK(Top, Workspace) /\ Settled(Top, Workspace) /\ Top \in FrameType
      /\ Workspace \in WorkspaceType
  BY <1>1, TopFrame
<1> DEFINE m == Workspace.measured[Top.source]
           before == LoadedBefore(Top, Workspace)
           count == Len(m.paths)
           k == count - Top.left
<1>3. PICK s \in Shapes :
        LET touched == [Top EXCEPT !.written = Max({@, Top.next_vertex + PointsWritten(s)})]
            copied == [touched EXCEPT !.left = @ - 1, !.next_vertex = @ + Normalized(s),
                                      !.loaded = @ + Normalized(s)]
        IN  Continue(IF ~Matches(s) THEN Failed(touched)
                     ELSE IF copied.left = 0 THEN Loaded(copied) ELSE copied)
  BY DEF CopyReturns
<1> DEFINE end == Top.next_vertex + PointsWritten(s)
           high == IF Top.written >= end THEN Top.written ELSE end
           touched == [Top EXCEPT !.written = Max({@, Top.next_vertex + PointsWritten(s)})]
           copied == [touched EXCEPT !.left = @ - 1, !.next_vertex = @ + Normalized(s),
                                     !.loaded = @ + Normalized(s)]
<1>4. /\ Top.source \in Sources /\ Top.left \in Nat /\ Top.next_vertex \in Nat
      /\ Top.written \in Nat /\ Top.loaded \in Nat /\ Top.block \in Nat
  BY <1>2 DEF FrameType
<1>5. m.points \in Nat /\ m.paths \in Seq(Measurement) /\ before \in Nat
  BY <1>2, <1>4, WorkspaceFields DEF LoadedBefore
<1>6. PICK sums : IsSums(sums, m) /\ Top.next_vertex <= sums[k]
  BY <1>1, <1>2 DEF FrameOK, SecondPass
<1>7. /\ Top.left \in 1 .. count /\ Top.block = m.points
      /\ Top.loaded <= before + Top.next_vertex
      /\ Top.written <= Top.block /\ Top.point_count <= EnginePointLimit
      /\ NotOpened(Top)
  BY <1>1, <1>2 DEF FrameOK, FirstPass, SecondPass, Transaction, NotOpened
<1>0. /\ count \in Nat /\ k \in Nat /\ k < count /\ k + Top.left = count
      /\ k \in 0 .. count /\ k + 1 \in 1 .. count /\ k + 1 \in 0 .. count /\ k + 1 - 1 = k
  <2>1. count \in Nat /\ Top.left \in 1 .. count
    BY <1>5, <1>7, SMTT(30)
  <2> HIDE DEF count
  <2> QED
    BY <2>1
<1>8. /\ Expected \in Measurement
      /\ sums[k] \in Nat /\ sums[k + 1] \in Nat
      /\ sums[k + 1] = sums[k] + Expected.size /\ sums[k + 1] <= m.points
  <2>1. Expected = m.paths[k + 1]
    BY DEF Expected, MeasuredPaths
  <2>2. /\ sums \in [0 .. count -> Nat]
        /\ \A i \in 1 .. count : sums[i] = sums[i - 1] + m.paths[i].size
        /\ \A i \in 0 .. count : sums[i] <= m.points
    BY <1>6 DEF IsSums
  <2>3. m.paths[k + 1] \in Measurement
    BY <1>0, <1>5
  <2> HIDE DEF k, count, m
  <2> QED
    BY <1>0, <2>1, <2>2, <2>3
<1>9. /\ Expected.size \in Nat /\ PointsWritten(s) \in Nat /\ PointsWritten(s) <= Expected.size
      /\ Normalized(s) \in Nat /\ (Matches(s) => Normalized(s) <= Expected.size)
  BY <1>8, WithinExpected, ShapeFields
<1>10. high \in Nat /\ high <= Top.block /\ touched = [Top EXCEPT !.written = high]
  <2>1. end \in Nat /\ end <= m.points
    <3>1. sums[k] + Expected.size <= m.points
      BY <1>8
    <3> HIDE DEF k, m
    <3> QED
      BY <1>4, <1>5, <1>6, <1>8, <1>9, <3>1, PathFits
  <2>2. Max({Top.written, end}) = high
    BY <1>4, <2>1, MaxOfTwo
  <2> HIDE DEF end
  <2> QED
    BY <1>4, <1>7, <2>1, <2>2 DEF end
<1> HIDE DEF high, end, touched
<1>11. touched \in FrameType
  BY <1>2, <1>10 DEF FrameType
<1>12. /\ touched.written = high /\ touched.block = Top.block /\ touched.left = Top.left
       /\ touched.next_vertex = Top.next_vertex /\ touched.loaded = Top.loaded
       /\ touched.at = Top.at /\ touched.source = Top.source /\ touched.writer = Top.writer
       /\ touched.transaction = Top.transaction /\ touched.ok = Top.ok
       /\ touched.point_count = Top.point_count
  BY <1>2, <1>10 DEF FrameType
<1>13. Settled(touched, Workspace) /\ NotOpened(touched)
  BY <1>2, <1>7, <1>10, <1>11, <1>12 DEF Settled, NotOpened
<1>14. CASE ~Matches(s)
  <2>1. FrameOK(Failed(touched), Workspace) /\ Failed(touched).writer = Top.writer
    BY <1>12, <1>13, FailedFrame
  <2>2. FrameStep(Failed(touched), Workspace)
    BY <1>1, <1>3, <1>14, <2>1, SameWorkspaces DEF FrameStep, Continue, WriterMoves, touched
  <2> QED
    BY <2>2
<1>15. CASE Matches(s)
  <2> DEFINE fewer == Top.left - 1
             next == Top.next_vertex + Normalized(s)
             more == Top.loaded + Normalized(s)
  <2>1. /\ fewer \in Nat /\ next \in Nat /\ more \in Nat
        /\ next <= sums[k + 1] /\ more <= before + next
        /\ k + 1 = count - fewer /\ fewer \in 0 .. count
    <3>1. sums[k] + Expected.size <= m.points /\ Normalized(s) <= Expected.size
      BY <1>8, <1>9, <1>15
    <3> HIDE DEF k, m, count, before
    <3>2. next \in Nat /\ next <= sums[k + 1]
      BY <1>4, <1>5, <1>6, <1>8, <1>9, <3>1, PathFits, SMTT(30)
    <3>3. more \in Nat /\ more <= before + next
      BY <1>4, <1>5, <1>7, <1>9, LoadedGrows
    <3>4. fewer \in Nat /\ fewer \in 0 .. count
      BY <1>0, <1>7
    <3>5. k + 1 = count - fewer
      <4>1. k = count - Top.left
        BY DEF k
      <4> QED
        BY <1>0, <1>4, <4>1
    <3> QED
      BY <3>2, <3>3, <3>4, <3>5
  <2>2. copied = [touched EXCEPT !.left = fewer, !.next_vertex = next, !.loaded = more]
    BY <1>12
  <2> HIDE DEF fewer, next, more, copied
  <2>3. copied \in FrameType
    BY <1>11, <2>1, <2>2 DEF FrameType
  <2>4. /\ copied.left = fewer /\ copied.next_vertex = next /\ copied.loaded = more
        /\ copied.written = high /\ copied.block = Top.block
        /\ copied.at = "copy" /\ copied.source = Top.source /\ copied.writer = Top.writer
        /\ copied.transaction = Top.transaction /\ copied.ok = Top.ok
        /\ copied.point_count = Top.point_count
    BY <1>1, <1>11, <1>12, <2>2 DEF FrameType
  <2>5. Settled(copied, Workspace) /\ NotOpened(copied)
    BY <1>2, <1>7, <1>10, <2>3, <2>4 DEF Settled, NotOpened
  <2>6. LoadedBefore(copied, Workspace) = before
    BY <2>4 DEF LoadedBefore
  <2>7. CASE fewer = 0
    <3>1. next <= m.points
      BY <1>5, <1>8, <2>1
    <3>2. copied.loaded <= LoadedBefore(copied, Workspace) + Workspace.measured[copied.source].points
      BY <1>5, <2>1, <2>4, <2>6, <3>1
    <3>3. FrameOK(Loaded(copied), Workspace) /\ Loaded(copied).writer = Top.writer
      BY <1>7, <2>4, <2>5, <3>2, LoadedFrame
    <3>4. FrameStep(Loaded(copied), Workspace)
      BY <1>1, <1>3, <1>15, <2>4, <2>7, <3>3, SameWorkspaces
         DEF FrameStep, Continue, WriterMoves, touched, copied
    <3> QED
      BY <3>4
  <2>8. CASE fewer # 0
    <3>1. FirstPass(copied, Workspace)
      BY <1>7, <2>4, <2>5 DEF Settled, FirstPass
    <3>2. SecondPass(copied, Workspace)
      <4>1. copied.left \in 1 .. count
        BY <2>1, <2>4, <2>8
      <4>2. copied.next_vertex <= sums[count - copied.left]
        BY <2>1, <2>4
      <4>3. copied.loaded <= LoadedBefore(copied, Workspace) + copied.next_vertex
        BY <2>1, <2>4, <2>6
      <4> QED
        BY <1>6, <1>7, <2>4, <2>5, <4>1, <4>2, <4>3 DEF Settled, SecondPass
    <3>3. Transaction(copied, Workspace)
      BY <2>4, <2>5 DEF NotOpened, Transaction
    <3>4. calls' = Append(Front(calls), copied) /\ last' = last
      BY <1>3, <1>15, <2>4, <2>8 DEF Continue, touched, copied
    <3>5. FrameStep(copied, Workspace)
      BY <1>1, <1>2, <2>3, <2>4, <3>1, <3>2, <3>3, <3>4, SameWorkspaces
         DEF FrameStep, FrameOK, WriterMoves
    <3> QED
      BY <3>5
  <2> QED
    BY <2>7, <2>8
<1> QED
  BY <1>14, <1>15

\* A record of the writer is its two fields.
LEMMA WriterRecord ==
  ASSUME NEW r \in WriterType
  PROVE  /\ r = [state |-> r.state, left |-> r.left] /\ r.left \in 0 .. MaxRings
         /\ \A x : [r EXCEPT !.state = x] = [state |-> x, left |-> r.left]
         /\ \A x : [r EXCEPT !.left = x] = [state |-> r.state, left |-> x]
  BY DEF WriterType

LEMMA RunEngineStep ==
  ASSUME TopologyAssumption, CallsInv, MaxDepth \in Nat, RunEngine
  PROVE  \E f, w : FrameStep(f, w)
<1>1. calls # <<>> /\ Top.at = "sweep"
  BY DEF RunEngine, At
<1>2. /\ FrameOK(Top, Workspace) /\ Settled(Top, Workspace) /\ Top \in FrameType
      /\ Workspace \in WorkspaceType /\ Top.place \in Places
  BY <1>1, TopFrame
<1>3. CASE Continue(Failed(Top)) /\ workspaces' = workspaces
  BY <1>1, <1>2, <1>3, FailureStep
<1>4. ASSUME NEW n \in 0 .. MaxRings,
             Continue([Top EXCEPT !.at = "begin", !.transaction = TRUE,
                                  !.writer = [state |-> "open", left |-> n]]),
             workspaces' = [workspaces EXCEPT ![Top.place].rings = n]
      PROVE  \E f, w : FrameStep(f, w)
  <2> DEFINE sink == [state |-> "open", left |-> n]
             opened == [Top EXCEPT !.at = "begin", !.transaction = TRUE, !.writer = sink]
             own == [Workspace EXCEPT !.rings = n]
  <2>1. sink \in WriterType /\ n \in Nat /\ sink.state = "open" /\ sink.left = n
    BY Limits DEF WriterType
  <2>2. "begin" \in Callbacks \cup {"sweep", "unwind"}
    BY DEF Callbacks
  <2>3. calls' = Append(Front(calls), opened) /\ last' = last
    BY <1>4 DEF Continue
  <2>4. \A p \in Places : workspaces'[p] = IF p = Top.place THEN own ELSE workspaces[p]
    <3>1. workspaces' = [workspaces EXCEPT ![Top.place] = own]
      BY <1>4, Zenon DEF Workspace
    <3>2. DOMAIN workspaces = Places
      BY DEF CallsInv, LeaseInv, WorkspacesOK
    <3> HIDE DEF own
    <3> QED
      BY <1>2, <3>1, <3>2
  <2>5. WriterMoves(Top.writer, sink)
    BY <1>1, <1>2 DEF FrameOK, Transaction, WriterMoves
  <2> HIDE DEF sink
  <2>6. opened \in FrameType
    BY <1>2, <2>1, <2>2 DEF FrameType
  <2>7. /\ opened.at = "begin" /\ opened.transaction /\ opened.writer = sink
        /\ opened.ok = Top.ok /\ opened.point_count = Top.point_count
        /\ opened.loaded = Top.loaded /\ opened.written = Top.written
        /\ opened.block = Top.block
    BY <1>2 DEF FrameType
  <2>8. own \in WorkspaceType /\ own.measured = Workspace.measured /\ own.rings = n
    BY <1>2, <2>1 DEF WorkspaceType
  <2> HIDE DEF opened, own
  <2>9. FirstPass(opened, own)
    BY <1>1, <1>2, <2>7, <2>8 DEF FrameOK, FirstPass
  <2>10. SecondPass(opened, own)
    BY <1>1, <1>2, <2>7, <2>8 DEF FrameOK, SecondPass
  <2>11. Transaction(opened, own)
    BY <1>1, <1>2, <2>1, <2>7, <2>8 DEF FrameOK, Transaction
  <2>12. FrameStep(opened, own)
    BY <2>3, <2>4, <2>5, <2>6, <2>7, <2>8, <2>9, <2>10, <2>11 DEF FrameStep, FrameOK
  <2> QED
    BY <2>12
<1> QED
  BY <1>3, <1>4 DEF RunEngine

LEMMA BeginStep ==
  ASSUME TopologyAssumption, CallsInv, MaxDepth \in Nat, BeginReturns
  PROVE  \E f, w : FrameStep(f, w)
<1>1. calls # <<>> /\ Top.at = "begin" /\ workspaces' = workspaces
  BY DEF BeginReturns, At
<1>2. /\ FrameOK(Top, Workspace) /\ Settled(Top, Workspace) /\ Top \in FrameType
      /\ Workspace \in WorkspaceType
  BY <1>1, TopFrame
<1> DEFINE begun == [Top EXCEPT !.left = Workspace.rings]
<1>3. calls' = Append(Front(calls), NextRing(begun)) /\ last' = last
  BY DEF BeginReturns, Continue
<1>4. begun \in FrameType
  BY <1>2, WorkspaceFields DEF FrameType
<1>5. /\ begun.at = "begin" /\ begun.left = Workspace.rings /\ begun.writer = Top.writer
      /\ begun.transaction = Top.transaction /\ begun.ok = Top.ok
      /\ begun.point_count = Top.point_count /\ begun.loaded = Top.loaded
      /\ begun.written = Top.written /\ begun.block = Top.block
  BY <1>1, <1>2 DEF FrameType
<1> HIDE DEF begun
<1>6. Settled(begun, Workspace)
  BY <1>2, <1>4, <1>5 DEF Settled
<1>7. /\ begun.point_count <= EnginePointLimit
      /\ begun.loaded <= Workspace.measured[1].points + Workspace.measured[2].points
      /\ begun.writer.state = "open" /\ begun.transaction /\ ~begun.ok
      /\ begun.left = begun.writer.left
  BY <1>1, <1>2, <1>5 DEF FrameOK, FirstPass, SecondPass, Transaction
<1>8. FrameOK(NextRing(begun), Workspace) /\ NextRing(begun).writer = begun.writer
  BY <1>6, <1>7, NextRingFrame
<1>9. FrameStep(NextRing(begun), Workspace)
  BY <1>1, <1>3, <1>5, <1>8, SameWorkspaces DEF FrameStep, WriterMoves
<1> QED
  BY <1>9

LEMMA AcquireStep ==
  ASSUME TopologyAssumption, CallsInv, MaxDepth \in Nat, AcquireReturns
  PROVE  \E f, w : FrameStep(f, w)
<1>1. calls # <<>> /\ Top.at = "acquire" /\ workspaces' = workspaces
  BY DEF AcquireReturns, At
<1>2. /\ FrameOK(Top, Workspace) /\ Settled(Top, Workspace) /\ Top \in FrameType
      /\ Workspace \in WorkspaceType
  BY <1>1, TopFrame
<1> DEFINE fewer == Top.left - 1
           acquired == [Top EXCEPT !.left = @ - 1, !.writer.left = @ - 1]
           sink == [state |-> "open", left |-> fewer]
<1>3. calls' = Append(Front(calls), NextRing(acquired)) /\ last' = last
  BY DEF AcquireReturns, Continue
<1>4. /\ Top.left \in Nat /\ Top.writer \in WriterType
      /\ Top.left = Top.writer.left /\ Top.left > 0 /\ Top.writer.state = "open"
      /\ Top.point_count <= EnginePointLimit
      /\ Top.loaded <= Workspace.measured[1].points + Workspace.measured[2].points
      /\ Top.transaction /\ ~Top.ok
  BY <1>1, <1>2 DEF FrameOK, FirstPass, SecondPass, Transaction, FrameType
<1>5. /\ Top.writer = [state |-> "open", left |-> Top.left] /\ Top.left \in 1 .. MaxRings
      /\ [Top.writer EXCEPT !.left = fewer] = sink
  <2>1. /\ Top.writer = [state |-> Top.writer.state, left |-> Top.writer.left]
        /\ Top.writer.left \in 0 .. MaxRings
        /\ \A x : [Top.writer EXCEPT !.left = x] = [state |-> Top.writer.state, left |-> x]
    BY <1>4, WriterRecord
  <2>2. Top.left \in 1 .. MaxRings
    BY <1>4, <2>1, Limits
  <2> HIDE DEF fewer
  <2> QED
    BY <1>4, <2>1, <2>2
<1>6. fewer \in Nat /\ sink \in WriterType /\ sink.state = "open" /\ sink.left = fewer
  <2>1. fewer \in Nat /\ fewer \in 0 .. MaxRings
    BY <1>4, <1>5, Limits
  <2> HIDE DEF fewer
  <2> QED
    BY <2>1 DEF WriterType
<1>7. acquired = [Top EXCEPT !.left = fewer, !.writer = sink]
  <2>1. acquired = [Top EXCEPT !.left = fewer,
                               !.writer = [Top.writer EXCEPT !.left = Top.writer.left - 1]]
    BY <1>2 DEF FrameType
  <2> QED
    BY <1>4, <1>5, <2>1
<1>8. WriterMoves(Top.writer, sink)
  BY <1>5 DEF WriterMoves
<1> HIDE DEF fewer, sink, acquired
<1>9. acquired \in FrameType
  BY <1>2, <1>6, <1>7 DEF FrameType
<1>10. /\ acquired.left = fewer /\ acquired.writer = sink
       /\ acquired.transaction = Top.transaction /\ acquired.ok = Top.ok
       /\ acquired.point_count = Top.point_count /\ acquired.loaded = Top.loaded
       /\ acquired.written = Top.written /\ acquired.block = Top.block
  BY <1>2, <1>7 DEF FrameType
<1>11. Settled(acquired, Workspace)
  BY <1>2, <1>9, <1>10 DEF Settled
<1>12. FrameOK(NextRing(acquired), Workspace) /\ NextRing(acquired).writer = sink
  BY <1>4, <1>6, <1>10, <1>11, NextRingFrame
<1>13. FrameStep(NextRing(acquired), Workspace)
  BY <1>1, <1>3, <1>8, <1>12, SameWorkspaces DEF FrameStep
<1> QED
  BY <1>13

\* A transaction that is over: committed, or cancelled by its destructor.
LEMMA OverFrame ==
  ASSUME NEW f, NEW w, Settled(f, w), f.at = "unwind",
         f.writer.state \in {"finished", "cancelled"}, f.ok <=> f.writer.state = "finished"
  PROVE  FrameOK(f, w)
<1>1. FirstPass(f, w) /\ SecondPass(f, w) /\ Transaction(f, w)
  BY DEF Settled, FirstPass, SecondPass, Transaction
<1> QED
  BY <1>1 DEF Settled, FrameOK

LEMMA FinishStep ==
  ASSUME TopologyAssumption, CallsInv, MaxDepth \in Nat, FinishReturns
  PROVE  \E f, w : FrameStep(f, w)
<1>1. calls # <<>> /\ Top.at = "finish" /\ workspaces' = workspaces
  BY DEF FinishReturns, At
<1>2. FrameOK(Top, Workspace) /\ Settled(Top, Workspace) /\ Top \in FrameType
  BY <1>1, TopFrame
<1> DEFINE sink == [state |-> "finished", left |-> 0]
           finished == [Top EXCEPT !.at = "unwind", !.ok = TRUE, !.transaction = FALSE,
                                   !.writer.state = "finished"]
<1>3. calls' = Append(Front(calls), finished) /\ last' = last
  BY DEF FinishReturns, Continue
<1>4. /\ Top.writer \in WriterType /\ Top.writer.state = "open" /\ Top.writer.left = 0
      /\ Top.transaction /\ ~Top.ok
  BY <1>1, <1>2 DEF FrameOK, Transaction, FrameType
<1>5. /\ Top.writer = [state |-> "open", left |-> 0]
      /\ [Top.writer EXCEPT !.state = "finished"] = sink
      /\ sink \in WriterType /\ sink.state = "finished"
  BY <1>4, WriterRecord, Limits DEF WriterType
<1>6. finished = [Top EXCEPT !.at = "unwind", !.ok = TRUE, !.transaction = FALSE, !.writer = sink]
  <2>1. finished = [Top EXCEPT !.at = "unwind", !.ok = TRUE, !.transaction = FALSE,
                               !.writer = [Top.writer EXCEPT !.state = "finished"]]
    BY <1>2 DEF FrameType
  <2> QED
    BY <1>5, <2>1
<1>7. WriterMoves(Top.writer, sink)
  BY <1>5 DEF WriterMoves
<1> HIDE DEF sink, finished
<1>8. finished \in FrameType
  BY <1>2, <1>5, <1>6 DEF FrameType
<1>9. /\ finished.at = "unwind" /\ finished.ok = TRUE /\ finished.writer = sink
      /\ finished.point_count = Top.point_count
      /\ finished.written = Top.written /\ finished.block = Top.block
  BY <1>2, <1>6 DEF FrameType
<1>10. Settled(finished, Workspace)
  BY <1>2, <1>8, <1>9 DEF Settled
<1>11. FrameOK(finished, Workspace)
  BY <1>5, <1>9, <1>10, OverFrame
<1>12. FrameStep(finished, Workspace)
  BY <1>1, <1>3, <1>7, <1>9, <1>11, SameWorkspaces DEF FrameStep
<1> QED
  BY <1>12

LEMMA CancelStep ==
  ASSUME TopologyAssumption, CallsInv, MaxDepth \in Nat, CancelReturns
  PROVE  \E f, w : FrameStep(f, w)
<1>1. calls # <<>> /\ Top.at = "cancel" /\ workspaces' = workspaces
  BY DEF CancelReturns, At
<1>2. FrameOK(Top, Workspace) /\ Settled(Top, Workspace) /\ Top \in FrameType
  BY <1>1, TopFrame
<1> DEFINE sink == [state |-> "cancelled", left |-> Top.writer.left]
           cancelled == [Top EXCEPT !.at = "unwind", !.writer.state = "cancelled"]
<1>3. calls' = Append(Front(calls), cancelled) /\ last' = last
  BY DEF CancelReturns, Continue
<1>4. Top.writer \in WriterType /\ Top.writer.state = "open" /\ ~Top.ok
  BY <1>1, <1>2 DEF FrameOK, Transaction, FrameType
<1>5. /\ Top.writer = [state |-> "open", left |-> Top.writer.left]
      /\ Top.writer.left \in 0 .. MaxRings
      /\ [Top.writer EXCEPT !.state = "cancelled"] = sink
      /\ sink \in WriterType /\ sink.state = "cancelled"
  BY <1>4, WriterRecord DEF WriterType
<1>6. cancelled = [Top EXCEPT !.at = "unwind", !.writer = sink]
  <2>1. cancelled = [Top EXCEPT !.at = "unwind",
                                !.writer = [Top.writer EXCEPT !.state = "cancelled"]]
    BY <1>2 DEF FrameType
  <2> QED
    BY <1>5, <2>1
<1>7. WriterMoves(Top.writer, sink)
  BY <1>5 DEF WriterMoves
<1> HIDE DEF sink, cancelled
<1>8. cancelled \in FrameType
  BY <1>2, <1>5, <1>6 DEF FrameType
<1>9. /\ cancelled.at = "unwind" /\ cancelled.ok = Top.ok /\ cancelled.writer = sink
      /\ cancelled.point_count = Top.point_count
      /\ cancelled.written = Top.written /\ cancelled.block = Top.block
  BY <1>2, <1>6 DEF FrameType
<1>10. Settled(cancelled, Workspace)
  BY <1>2, <1>8, <1>9 DEF Settled
<1>11. FrameOK(cancelled, Workspace)
  BY <1>4, <1>5, <1>9, <1>10, OverFrame
<1>12. FrameStep(cancelled, Workspace)
  BY <1>1, <1>3, <1>7, <1>9, <1>11, SameWorkspaces DEF FrameStep
<1> QED
  BY <1>12

LEMMA CallbackStepIsFrameStep ==
  ASSUME TopologyAssumption, CallsInv, MaxDepth \in Nat, CallbackStep
  PROVE  \E f, w : FrameStep(f, w)
BY CallbackFailsStep, CountStep, MeasureStep, RecountStep, CopyStep, RunEngineStep, BeginStep,
   AcquireStep, FinishStep, CancelStep DEF CallbackStep

\* A call starts on a cleared workspace with a writer nobody touched.
LEMMA NewFrame ==
  ASSUME TopologyAssumption, NEW p \in Places, NEW depth \in Nat,
         NEW f, f = [at |-> "count", place |-> p, source |-> 1, left |-> 0,
                     path_count |-> 0, point_count |-> 0,
                     block |-> 0, next_vertex |-> 0, written |-> 0, loaded |-> 0,
                     transaction |-> FALSE, writer |-> [state |-> "untouched", left |-> 0],
                     ok |-> FALSE]
  PROVE  FrameOK(f, Cleared(depth)) /\ f.place = p
<1> DEFINE w == Cleared(depth)
<1>1. f \in FrameType
  <2>1. /\ "count" \in Callbacks \cup {"sweep", "unwind"} /\ 1 \in Sources
        /\ [state |-> "untouched", left |-> 0] \in WriterType
    BY Limits DEF Callbacks, Sources, WriterType
  <2> QED
    BY <2>1 DEF FrameType
<1>2. \A s \in Sources : w.measured[s] = Unmeasured
  BY DEF Cleared
<1>3. Unmeasured \in [paths : Seq(Measurement), points : Nat] /\ Len(Unmeasured.paths) = 0
      /\ Unmeasured.points = 0
  BY DEF Unmeasured
<1>4. w \in WorkspaceType
  BY <1>3 DEF WorkspaceType, Cleared
<1>5. IsSums([i \in 0 .. 0 |-> 0], Unmeasured)
  BY <1>3 DEF IsSums
<1>6. 1 \in Sources /\ 2 \in Sources
  BY DEF Sources
<1> HIDE DEF w
<1>7. w.measured[1].points = 0 /\ w.measured[2].points = 0
  BY <1>2, <1>3, <1>6
<1>8. FirstPass(f, w)
  <2>1. \A s \in Sources : \E sums : IsSums(sums, w.measured[s])
    BY <1>2, <1>5
  <2> QED
    BY <1>7, <2>1 DEF FirstPass
<1>9. SecondPass(f, w)
  BY DEF SecondPass
<1>10. Transaction(f, w)
  BY DEF Transaction
<1> QED
  BY <1>1, <1>4, <1>8, <1>9, <1>10 DEF FrameOK, w

LEMMA CallTakesFrame ==
  ASSUME TopologyAssumption, CallsInv, MaxDepth \in Nat, Call
  PROVE  CallsInv'
<1>1. PICK S : calls \in Seq(S)
  BY DEF CallsInv, LeaseInv, StackOK
<1>2. Len(calls) \in Nat /\ Len(calls) < MaxDepth
  BY <1>1 DEF Call, Depth
<1>3. LeaseInv'
  BY CallKeepsLeases DEF CallsInv
<1>4. PICK f : /\ calls' = Append(calls, f)
               /\ f = [at |-> "count", place |-> Leased, source |-> 1, left |-> 0,
                       path_count |-> 0, point_count |-> 0,
                       block |-> 0, next_vertex |-> 0, written |-> 0, loaded |-> 0,
                       transaction |-> FALSE, writer |-> [state |-> "untouched", left |-> 0],
                       ok |-> FALSE]
  BY DEF Call
<1>5. Leased = (IF Len(calls) = 0 THEN 0 ELSE Len(calls) + 1) /\ Leased \in Places
  BY <1>2 DEF CallsInv, LeaseInv, SlotFollowsCalls, Leased, SlotPlace, Depth, Places
<1>6. FrameOK(f, Cleared(Len(calls) + 1)) /\ f.place = Leased
  BY <1>2, <1>4, <1>5, NewFrame
<1>7. /\ Len(calls') = Len(calls) + 1
      /\ \A d \in 1 .. Len(calls) : calls'[d] = calls[d]
      /\ calls'[Len(calls) + 1] = f
  <2>1. /\ Len(Append(calls, f)) = Len(calls) + 1
        /\ \A d \in 1 .. Len(calls) : Append(calls, f)[d] = calls[d]
        /\ Append(calls, f)[Len(calls) + 1] = f
    BY <1>1, PushedCall
  <2> QED
    BY <1>4, <2>1, Zenon
<1>8. \A p \in Places : workspaces'[p] = IF p = Leased THEN Cleared(Len(calls) + 1)
                                        ELSE workspaces[p]
  BY <1>5 DEF CallsInv, LeaseInv, WorkspacesOK, Call, Depth
<1>9. \A d \in 1 .. Len(calls) + 1 : FrameOK(calls'[d], workspaces'[calls'[d].place])
  <2> SUFFICES ASSUME NEW d \in 1 .. Len(calls) + 1
               PROVE  FrameOK(calls'[d], workspaces'[calls'[d].place])
    OBVIOUS
  <2>1. CASE d = Len(calls) + 1
    <3>1. calls'[d] = f
      BY <1>7, <2>1
    <3> QED
      BY <1>5, <1>6, <1>8, <3>1
  <2>2. CASE d \in 1 .. Len(calls)
    <3>1. calls[d].place \in Places /\ calls[d].place # Leased
      BY <1>2, <1>5, <2>2 DEF CallsInv, LeaseInv, OutermostLeases, Places
    <3>2. workspaces'[calls[d].place] = workspaces[calls[d].place]
      BY <1>8, <3>1
    <3> QED
      BY <1>7, <2>2, <3>2 DEF CallsInv
  <2> QED
    BY <1>2, <2>1, <2>2
<1> QED
  BY <1>3, <1>7, <1>9 DEF CallsInv

LEMMA ReleaseKeepsFrames ==
  ASSUME CallsInv, MaxDepth \in Nat, ReleaseThreadState
  PROVE  CallsInv'
<1>1. PICK S : calls \in Seq(S)
  BY DEF CallsInv, LeaseInv, StackOK
<1>2. LeaseInv' /\ calls' = calls /\ Len(calls) \in Nat
  BY <1>1, ReleaseKeepsLeases DEF CallsInv, ReleaseThreadState
<1>3. CASE slot.in_use
  <2>1. workspaces' = workspaces
    BY <1>3 DEF ReleaseThreadState
  <2> QED
    BY <1>2, <2>1 DEF CallsInv
<1>4. CASE ~slot.in_use
  <2>1. Len(calls) = 0
    BY <1>2, <1>4 DEF CallsInv, LeaseInv, SlotFollowsCalls
  <2> QED
    BY <1>2, <2>1 DEF CallsInv
<1> QED
  BY <1>3, <1>4

LEMMA UnwindKeepsFrames ==
  ASSUME CallsInv, MaxDepth \in Nat, Unwind
  PROVE  CallsInv'
<1>1. PICK S : calls \in Seq(S)
  BY DEF CallsInv, LeaseInv, StackOK
<1>2. Len(calls) \in Nat /\ Len(calls) > 0 /\ calls' = Front(calls) /\ LeaseInv'
  BY <1>1, UnwindKeepsLeases DEF CallsInv, Unwind
<1>3. /\ Len(calls') = Len(calls) - 1
      /\ \A d \in 1 .. Len(calls) - 1 : calls'[d] = calls[d]
  BY <1>1, <1>2, PoppedCall
<1>4. Top.place = (IF Len(calls) = 1 THEN 0 ELSE Len(calls)) /\ Top.place \in Places
  BY <1>2, TopLease DEF CallsInv
<1>5. \A p \in Places : p # Top.place => workspaces'[p] = workspaces[p]
  BY <1>4 DEF CallsInv, LeaseInv, WorkspacesOK, Unwind, DestroyLease, ReleaseSlot
<1>6. \A d \in 1 .. Len(calls) - 1 : FrameOK(calls'[d], workspaces'[calls'[d].place])
  <2> SUFFICES ASSUME NEW d \in 1 .. Len(calls) - 1
               PROVE  FrameOK(calls'[d], workspaces'[calls'[d].place])
    OBVIOUS
  <2>1. d \in 1 .. Len(calls) /\ d < Len(calls)
    BY <1>2
  <2>2. calls[d].place \in Places /\ calls[d].place # Top.place
    BY <1>2, <1>4, <2>1 DEF CallsInv, LeaseInv, StackOK, OutermostLeases, Places
  <2>3. workspaces'[calls[d].place] = workspaces[calls[d].place] /\ calls'[d] = calls[d]
    BY <1>3, <1>5, <2>2
  <2> QED
    BY <2>1, <2>3 DEF CallsInv
<1> QED
  BY <1>2, <1>3, <1>6 DEF CallsInv

LEMMA InitFrames ==
  ASSUME TopologyAssumption, Init
  PROVE  CallsInv
<1>1. Len(calls) = 0
  BY DEF Init
<1> QED
  BY <1>1, InitLeases DEF CallsInv

LEMMA StepKeepsFrames ==
  ASSUME TopologyAssumption, CallsInv, [Next]_vars
  PROVE  CallsInv'
<1>1. MaxDepth \in Nat
  BY DepthType
<1>2. CASE Call
  BY <1>1, <1>2, CallTakesFrame
<1>3. CASE ReleaseThreadState
  BY <1>1, <1>3, ReleaseKeepsFrames
<1>4. CASE Unwind
  BY <1>1, <1>4, UnwindKeepsFrames
<1>5. CASE CallbackStep
  <2>1. KeepsLease
    BY <1>1, <1>5, CallbackKeepsLease DEF CallsInv
  <2>2. PICK f, w : FrameStep(f, w)
    BY <1>1, <1>5, CallbackStepIsFrameStep
  <2> QED
    BY <1>1, <2>1, <2>2, StepTakesFrame
<1>6. CASE UNCHANGED vars
  <2>1. LeaseInv'
    BY <1>6, StepKeepsLeases DEF CallsInv
  <2>2. calls' = calls /\ workspaces' = workspaces
    BY <1>6 DEF vars
  <2> QED
    BY <2>1, <2>2 DEF CallsInv
<1> QED
  BY <1>2, <1>3, <1>4, <1>5, <1>6 DEF Next, CallbackStep

-----------------------------------------------------------------------------
(* The writers: every step is one of TopologyWriter, or none.              *)

WritersOf(s) == [d \in DOMAIN s |-> s[d].writer]

\* The writers of a stack are a sequence as long as the stack.
LEMMA WritersAreASequence ==
  ASSUME NEW S, NEW s \in Seq(S)
  PROVE  /\ \E T : WritersOf(s) \in Seq(T)
         /\ Len(WritersOf(s)) = Len(s)
         /\ \A d \in 1 .. Len(s) : WritersOf(s)[d] = s[d].writer
<1> DEFINE T == {s[d].writer : d \in 1 .. Len(s)}
<1>1. DOMAIN s = 1 .. Len(s) /\ Len(s) \in Nat
  OBVIOUS
<1>2. WritersOf(s) \in [1 .. Len(s) -> T]
  BY <1>1 DEF WritersOf
<1>3. WritersOf(s) \in Seq(T)
  BY <1>1, <1>2, IsASeq, SMTT(30)
<1> HIDE DEF T
<1>4. Len(WritersOf(s)) = Len(s)
  BY <1>1, <1>2, <1>3
<1> QED
  BY <1>1, <1>3, <1>4 DEF WritersOf

\* Sequences are equal when they agree everywhere.
LEMMA SameSequence ==
  ASSUME NEW S, NEW T, NEW s \in Seq(S), NEW t \in Seq(T), Len(s) = Len(t),
         \A d \in 1 .. Len(s) : s[d] = t[d]
  PROVE  s = t
<1>1. s \in Seq(S \cup T) /\ t \in Seq(S \cup T)
  OBVIOUS
<1> QED
  BY <1>1, SeqEqual

LEMMA WritersPushed ==
  ASSUME NEW S, NEW s \in Seq(S), NEW f
  PROVE  WritersOf(Append(s, f)) = Append(WritersOf(s), f.writer)
<1>1. PICK A : Append(s, f) \in Seq(A)
  BY PushedCall
<1>2. PICK B : WritersOf(s) \in Seq(B)
  BY WritersAreASequence
<1>3. PICK C : Append(WritersOf(s), f.writer) \in Seq(C)
  BY <1>2, PushedCall
<1>4. PICK D : WritersOf(Append(s, f)) \in Seq(D)
  BY <1>1, WritersAreASequence
<1>5. /\ Len(Append(s, f)) = Len(s) + 1
      /\ \A d \in 1 .. Len(s) : Append(s, f)[d] = s[d]
      /\ Append(s, f)[Len(s) + 1] = f
  BY PushedCall
<1>6. /\ Len(WritersOf(s)) = Len(s)
      /\ \A d \in 1 .. Len(s) : WritersOf(s)[d] = s[d].writer
  BY WritersAreASequence
<1>7. /\ Len(Append(WritersOf(s), f.writer)) = Len(s) + 1
      /\ \A d \in 1 .. Len(s) : Append(WritersOf(s), f.writer)[d] = s[d].writer
      /\ Append(WritersOf(s), f.writer)[Len(s) + 1] = f.writer
  BY <1>2, <1>6, PushedCall
<1>8. /\ Len(WritersOf(Append(s, f))) = Len(s) + 1
      /\ \A d \in 1 .. Len(s) + 1 : WritersOf(Append(s, f))[d] = Append(s, f)[d].writer
  BY <1>1, <1>5, WritersAreASequence
<1>9. Len(s) \in Nat
  OBVIOUS
<1>10. \A d \in 1 .. Len(s) + 1 :
         WritersOf(Append(s, f))[d] = Append(WritersOf(s), f.writer)[d]
  <2> SUFFICES ASSUME NEW d \in 1 .. Len(s) + 1
               PROVE  WritersOf(Append(s, f))[d] = Append(WritersOf(s), f.writer)[d]
    OBVIOUS
  <2>1. CASE d = Len(s) + 1
    BY <1>5, <1>7, <1>8, <2>1
  <2>2. CASE d \in 1 .. Len(s)
    BY <1>5, <1>7, <1>8, <2>2
  <2>3. d = Len(s) + 1 \/ d \in 1 .. Len(s)
    BY <1>9
  <2> QED
    BY <2>1, <2>2, <2>3, Zenon
<1> QED
  BY <1>3, <1>4, <1>7, <1>8, <1>10, SameSequence

LEMMA WritersPopped ==
  ASSUME NEW S, NEW s \in Seq(S), Len(s) > 0
  PROVE  /\ WritersOf(Front(s)) = Front(WritersOf(s))
         /\ WritersOf(s) # <<>> /\ Last(WritersOf(s)) = Last(s).writer
<1>1. /\ Front(s) \in Seq(S) /\ Len(Front(s)) = Len(s) - 1 /\ Len(s) \in Nat
      /\ \A d \in 1 .. Len(s) - 1 : Front(s)[d] = s[d]
  BY PoppedCall
<1>2. PICK B : WritersOf(s) \in Seq(B)
  BY WritersAreASequence
<1>3. /\ Len(WritersOf(s)) = Len(s)
      /\ \A d \in 1 .. Len(s) : WritersOf(s)[d] = s[d].writer
  BY WritersAreASequence
<1>4. /\ Front(WritersOf(s)) \in Seq(B) /\ Len(Front(WritersOf(s))) = Len(s) - 1
      /\ \A d \in 1 .. Len(s) - 1 : Front(WritersOf(s))[d] = WritersOf(s)[d]
  BY <1>2, <1>3, PoppedCall
<1>5. PICK D : WritersOf(Front(s)) \in Seq(D)
  BY <1>1, WritersAreASequence
<1>6. /\ Len(WritersOf(Front(s))) = Len(s) - 1
      /\ \A d \in 1 .. Len(s) - 1 : WritersOf(Front(s))[d] = Front(s)[d].writer
  BY <1>1, WritersAreASequence
<1>7. \A d \in 1 .. Len(s) - 1 : WritersOf(Front(s))[d] = Front(WritersOf(s))[d]
  <2> SUFFICES ASSUME NEW d \in 1 .. Len(s) - 1
               PROVE  WritersOf(Front(s))[d] = Front(WritersOf(s))[d]
    OBVIOUS
  <2>1. d \in 1 .. Len(s)
    BY <1>1
  <2>2. WritersOf(Front(s))[d] = s[d].writer
    BY <1>1, <1>6
  <2>3. Front(WritersOf(s))[d] = s[d].writer
    BY <1>3, <1>4, <2>1
  <2> QED
    BY <2>2, <2>3
<1>8. WritersOf(Front(s)) = Front(WritersOf(s))
  BY <1>4, <1>5, <1>6, <1>7, SameSequence
<1>9. WritersOf(s) # <<>>
  BY <1>3
<1>10. Last(WritersOf(s)) = Last(s).writer
  BY <1>1, <1>3 DEF Last
<1> QED
  BY <1>8, <1>9, <1>10

\* The writers as the refinement mapping of WriterPromiseKept gives them.
Writers == WritersOf(calls)

\* TopologyWriter has its own Last and Front, by the same definition.
LEMMA SameEnds == \A s : Promise!Last(s) = Last(s) /\ Promise!Front(s) = Front(s)
  BY DEF Promise!Last, Promise!Front, Last, Front

LEMMA FrameStepIsWriterStep ==
  ASSUME CallsInv, calls # <<>>, NEW f, NEW w, FrameStep(f, w)
  PROVE  [Promise!Next]_<<Writers, last>>
<1>1. PICK S : calls \in Seq(S)
  BY DEF CallsInv, LeaseInv, StackOK
<1>2. Len(calls) > 0 /\ Front(calls) \in Seq(S)
  BY <1>1, PoppedCall
<1>3. /\ Writers # <<>> /\ Last(Writers) = Top.writer
      /\ Writers' = Append(Front(Writers), f.writer)
  <2>1. calls' = Append(Front(calls), f)
    BY DEF FrameStep
  <2>2. WritersOf(calls') = Append(WritersOf(Front(calls)), f.writer)
    BY <1>2, <2>1, WritersPushed
  <2> QED
    BY <1>1, <1>2, <2>2, WritersPopped DEF Writers, Top
<1>4. last' = last /\ WriterMoves(Top.writer, f.writer)
  BY DEF FrameStep
<1>5. CASE f.writer = Top.writer
  <2>1. PICK B : Writers \in Seq(B)
    BY <1>1, WritersAreASequence DEF Writers
  <2>2. Append(Front(Writers), Last(Writers)) = Writers
    <3>1. Len(Writers) > 0 /\ Len(Writers) \in Nat
      BY <1>3, <2>1
    <3>2. PICK C : Append(Front(Writers), Last(Writers)) \in Seq(C)
      BY <2>1, <3>1, ReplacedTop
    <3>3. /\ Len(Append(Front(Writers), Last(Writers))) = Len(Writers)
          /\ \A d \in 1 .. Len(Writers) : Append(Front(Writers), Last(Writers))[d] =
               IF d = Len(Writers) THEN Last(Writers) ELSE Writers[d]
      BY <2>1, <3>1, ReplacedTop
    <3>4. \A d \in 1 .. Len(Writers) : Append(Front(Writers), Last(Writers))[d] = Writers[d]
      BY <3>3 DEF Last
    <3> QED
      BY <2>1, <3>2, <3>3, <3>4, SameSequence
  <2>3. Writers' = Writers
    BY <1>3, <1>5, <2>2
  <2> QED
    BY <1>4, <2>3
<1>6. ASSUME NEW from, NEW to, Top.writer = from, f.writer = to
      PROVE  Promise!Move(from, to)
  BY <1>3, <1>4, <1>6, SameEnds DEF Promise!Move, Writers, WritersOf
<1>7. CASE \E n \in 0 .. MaxRings : /\ Top.writer = [state |-> "untouched", left |-> 0]
                                    /\ f.writer = [state |-> "open", left |-> n]
  <2>1. Promise!Begin
    BY <1>6, <1>7 DEF Promise!Begin, Promise!Untouched
  <2> QED
    BY <2>1 DEF Promise!Next
<1>8. CASE \E n \in 1 .. MaxRings : /\ Top.writer = [state |-> "open", left |-> n]
                                    /\ f.writer = [state |-> "open", left |-> n - 1]
  <2>1. Promise!Acquire
    BY <1>6, <1>8 DEF Promise!Acquire
  <2> QED
    BY <2>1 DEF Promise!Next
<1>9. CASE /\ Top.writer = [state |-> "open", left |-> 0]
           /\ f.writer = [state |-> "finished", left |-> 0]
  <2>1. Promise!Finish
    BY <1>6, <1>9 DEF Promise!Finish
  <2> QED
    BY <2>1 DEF Promise!Next
<1>10. CASE \E n \in 0 .. MaxRings : /\ Top.writer = [state |-> "open", left |-> n]
                                     /\ f.writer = [state |-> "cancelled", left |-> n]
  <2>1. Promise!Cancel
    BY <1>6, <1>10 DEF Promise!Cancel
  <2> QED
    BY <2>1 DEF Promise!Next
<1> QED
  BY <1>4, <1>5, <1>7, <1>8, <1>9, <1>10 DEF WriterMoves

LEMMA UnwindIsReturn ==
  ASSUME CallsInv, MaxDepth \in Nat, Unwind
  PROVE  Promise!Return
<1>1. PICK S : calls \in Seq(S)
  BY DEF CallsInv, LeaseInv, StackOK
<1>2. calls # <<>> /\ Len(calls) > 0 /\ Top.at = "unwind"
  BY <1>1 DEF Unwind
<1>3. /\ Writers # <<>> /\ Last(Writers) = Top.writer /\ Writers' = Front(Writers)
  BY <1>1, <1>2, WritersPopped DEF Unwind, Writers, Top
<1>4. /\ Top.writer.state \in {"untouched", "finished", "cancelled"}
      /\ Top.ok <=> Top.writer.state = "finished"
      /\ Top.ok \in BOOLEAN
  BY <1>2, TopFrame DEF FrameOK, Transaction, FrameType
<1>5. last' = [writer |-> Last(Writers), ok |-> Last(Writers).state = "finished"]
  BY <1>3, <1>4 DEF Unwind
<1> QED
  BY <1>3, <1>4, <1>5, SameEnds DEF Promise!Return, Writers, WritersOf

LEMMA StepKeepsPromise ==
  ASSUME TopologyAssumption, CallsInv, [Next]_vars
  PROVE  [Promise!Next]_<<Writers, last>>
<1>1. MaxDepth \in Nat
  BY DepthType
<1>2. CASE Call
  <2>1. PICK S : calls \in Seq(S)
    BY DEF CallsInv, LeaseInv, StackOK
  <2>2. PICK f : /\ calls' = Append(calls, f)
                 /\ f.writer = [state |-> "untouched", left |-> 0]
    BY <1>2 DEF Call
  <2>3. Writers' = Append(Writers, [state |-> "untouched", left |-> 0])
    BY <2>1, <2>2, WritersPushed DEF Writers
  <2>4. Promise!Open
    BY <1>2, <2>3 DEF Call, Promise!Open, Promise!Untouched, Writers, WritersOf
  <2> QED
    BY <2>4 DEF Promise!Next
<1>3. CASE ReleaseThreadState
  BY <1>3 DEF ReleaseThreadState, Writers
<1>4. CASE Unwind
  BY <1>1, <1>4, UnwindIsReturn DEF Promise!Next
<1>5. CASE CallbackStep
  <2>1. calls # <<>>
    BY <1>1, <1>5, CallbackKeepsLease DEF CallsInv, KeepsLease
  <2> QED
    BY <1>1, <1>5, <2>1, CallbackStepIsFrameStep, FrameStepIsWriterStep
<1>6. CASE UNCHANGED vars
  BY <1>6 DEF vars, Writers
<1> QED
  BY <1>2, <1>3, <1>4, <1>5, <1>6 DEF Next, CallbackStep

-----------------------------------------------------------------------------
(* The theorems about the calls.                                           *)

\* Whatever the caller's callbacks do, change their answers between the passes
\* and call the library again: the second pass writes inside the blocks the
\* first one measured, and the engine runs on no more points than were planned
\* and admitted (borrowed_topology_pipeline.cpp).
THEOREM SecondPassWithinFirst == Spec => [](WritesStayInBlock /\ EngineWithinPlan)
<1>1. TopologyAssumption
  BY TopologyAssumption
<1>2. Init => CallsInv
  BY <1>1, InitFrames
<1>3. CallsInv /\ [Next]_vars => CallsInv'
  BY <1>1, StepKeepsFrames
<1>4. CallsInv => WritesStayInBlock /\ EngineWithinPlan
  <2> SUFFICES ASSUME CallsInv
               PROVE  WritesStayInBlock /\ EngineWithinPlan
    OBVIOUS
  <2>1. PICK S : calls \in Seq(S)
    BY DEF CallsInv, LeaseInv, StackOK
  <2>2. \A d \in DOMAIN calls : FrameOK(calls[d], workspaces[calls[d].place])
    BY <2>1 DEF CallsInv
  <2>3. WritesStayInBlock
    BY <2>2 DEF FrameOK, SecondPass, WritesStayInBlock
  <2>4. EngineWithinPlan
    <3> SUFFICES ASSUME NEW d \in DOMAIN calls,
                        calls[d].at \in {"sweep", "begin", "acquire", "finish"}
                 PROVE  /\ calls[d].loaded <= calls[d].point_count
                        /\ calls[d].point_count <= EnginePointLimit
      BY DEF EngineWithinPlan
    <3> QED
      BY <2>2 DEF FrameOK, FirstPass, SecondPass
  <2> QED
    BY <2>3, <2>4
<1> QED
  BY <1>2, <1>3, <1>4, PTL DEF Spec

\* Every writer sees the protocol of TopologyWriter, at every depth and for
\* every bound: opened at most once, given the rings it announced, finished when
\* and only when the call succeeds, and cancelled once otherwise
\* (borrowed_topology_transaction).
THEOREM WritersSeeTheProtocol == Spec => WriterPromiseKept
<1>1. TopologyAssumption
  BY TopologyAssumption
<1>2. Init => CallsInv
  BY <1>1, InitFrames
<1>3. CallsInv /\ [Next]_vars => CallsInv'
  BY <1>1, StepKeepsFrames
<1>4. Init => Promise!Init
  BY DEF Init, Promise!Init, Promise!Untouched
<1>5. CallsInv /\ [Next]_vars => [Promise!Next]_<<Writers, last>>
  BY <1>1, StepKeepsPromise
<1>6. CallsInv /\ [Next]_vars => [Promise!Next]_<<[d \in DOMAIN calls |-> calls[d].writer], last>>
  BY <1>5 DEF Writers, WritersOf
<1> QED
  BY <1>2, <1>3, <1>4, <1>6, PTL DEF Spec, WriterPromiseKept, Promise!Spec
=============================================================================
