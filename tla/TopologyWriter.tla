--------------------------- MODULE TopologyWriter ---------------------------
(***************************************************************************)
(* What clip_topology_checked promises the writers it is given, calls      *)
(* nested in the callbacks of others included: a transaction is opened at  *)
(* most once, receives exactly the rings it announced, and is finished     *)
(* when and only when the call succeeds; otherwise it is cancelled, once,  *)
(* or was never opened.                                                    *)
(***************************************************************************)
EXTENDS Naturals, Sequences, SequencesExt

CONSTANT MaxRings   \* bound: rings of a topology

VARIABLES
  sinks,   \* the writers of the calls in progress, innermost last
  last     \* the writer and the success of the call that returned last

Untouched == [state |-> "untouched", left |-> 0]

Init == sinks = <<>> /\ last = [writer |-> Untouched, ok |-> FALSE]

\* The innermost writer moves from one state to another.
Move(from, to) ==
  /\ sinks # <<>> /\ Last(sinks) = from
  /\ sinks' = Append(Front(sinks), to)
  /\ last' = last

Open == sinks' = Append(sinks, Untouched) /\ last' = last

Begin == \E n \in 0 .. MaxRings : Move(Untouched, [state |-> "open", left |-> n])

Acquire ==
  \E n \in 1 .. MaxRings : Move([state |-> "open", left |-> n], [state |-> "open", left |-> n - 1])

Finish == Move([state |-> "open", left |-> 0], [state |-> "finished", left |-> 0])

Cancel ==
  \E n \in 0 .. MaxRings : Move([state |-> "open", left |-> n], [state |-> "cancelled", left |-> n])

Return ==
  /\ sinks # <<>>
  /\ Last(sinks).state \in {"untouched", "finished", "cancelled"}
  /\ sinks' = Front(sinks)
  /\ last' = [writer |-> Last(sinks), ok |-> Last(sinks).state = "finished"]

Next == Open \/ Begin \/ Acquire \/ Finish \/ Cancel \/ Return

Spec == Init /\ [][Next]_<<sinks, last>>
=============================================================================
