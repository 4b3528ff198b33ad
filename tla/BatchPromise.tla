----------------------------- MODULE BatchPromise -----------------------------
(***************************************************************************)
(* What clip_batch_checked promises its caller, with no thread in sight:   *)
(* one answer, which is a function of which items ran and what they did,   *)
(* and never of the order in which they ran.                               *)
(***************************************************************************)
EXTENDS Integers

CONSTANTS ItemCount, Codes

Position == 0 .. ItemCount - 1
Ok == 0
ResourceLimit == 5
AllocationFailure == 6
ExecutorFailure == 9
InternalError == 11

VARIABLES outcome, result

Pending == [kind |-> "pending"]
Failure(code) == [kind |-> "error", code |-> code]
Values == [kind |-> "values", of |-> [i \in Position |-> i]]

Failed(ran) == {i \in ran : outcome[i] # Ok}

\* ran are the items the executor ran, returned is the code of its own error.
IsParallelAnswer(answer, ran, returned) ==
  \/ \E i \in Failed(ran) :
       /\ \A j \in Failed(ran) : outcome[i] <= outcome[j]
       /\ answer = Failure(outcome[i])
  \/ Failed(ran) = {} /\ returned # Ok /\ answer = Failure(returned)
  \/ Failed(ran) = {} /\ returned = Ok /\ ran # Position /\ answer = Failure(ExecutorFailure)
  \/ Failed(ran) = {} /\ returned = Ok /\ ran = Position /\ answer = Values

\* In input order, the first error ends the batch.
IsSequentialAnswer(answer) ==
  \/ \E i \in Failed(Position) :
       /\ \A j \in Failed(Position) : i <= j
       /\ answer = Failure(outcome[i])
  \/ Failed(Position) = {} /\ answer = Values

Init ==
  /\ outcome \in [Position -> Codes \cup {Ok}]
  /\ result = Pending

Answer ==
  /\ result = Pending
  /\ \/ \E ran \in SUBSET Position, returned \in {Ok, AllocationFailure, ExecutorFailure} :
          IsParallelAnswer(result', ran, returned)
     \/ IsSequentialAnswer(result')
     \/ result' \in {Failure(AllocationFailure), Failure(ResourceLimit)}
  /\ UNCHANGED outcome

Spec == Init /\ [][Answer]_<<outcome, result>>
=============================================================================
