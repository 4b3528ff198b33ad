------------------------------ MODULE ClipBatch ------------------------------
(***************************************************************************)
(* clip_batch_checked: admission to the executor or to the sequential      *)
(* loop, one bulk execution, and the answer assembled from the failure     *)
(* state, the error of the executor and the slots, in that order.          *)
(***************************************************************************)
EXTENDS BulkExecution

CONSTANTS
  Limits,     \* concurrency limits an executor may advertise
  Threshold   \* clip_batch_parallel_threshold

VARIABLES
  limit,      \* concurrency_limit() of the executor of the call
  result      \* what the call returns

vars == <<bulk_vars, limit, result>>

Promise == INSTANCE BatchPromise

ResourceLimit == 5
Pending == [kind |-> "pending"]
Failure(code) == [kind |-> "error", code |-> code]

Init ==
  /\ BulkInit
  /\ limit \in Limits
  /\ call = "called"
  /\ result = Pending

\* has_parallel_capability and the threshold; every request is parallel safe.
Admit ==
  /\ call = "called"
  /\ call' = IF limit > 1 /\ ItemCount >= Threshold THEN "executing" ELSE "sequential"
  /\ UNCHANGED <<outcome, order, unclaimed, worker, error_, slots, executor_error, limit, result>>

\* Reserving results, building metadata, profiles or slots throws before any
\* item runs; checked_call maps the exception.
PreparationFails ==
  /\ call \in {"called", "sequential"}
  /\ result' \in {Failure(AllocationFailure), Failure(ResourceLimit)}
  /\ call' = "answered"
  /\ UNCHANGED <<outcome, order, unclaimed, worker, error_, slots, executor_error, limit>>

\* clip_batch_sequential: in input order, the first exception leaves the loop.
SequentialAnswer(answer) ==
  \/ /\ \A i \in Position : outcome[i] = Ok
     /\ answer = [kind |-> "values", of |-> [i \in Position |-> i]]
  \/ \E i \in Position : /\ outcome[i] # Ok
                         /\ \A j \in Position : j < i => outcome[j] = Ok
                         /\ answer = Failure(outcome[i])

RunSequentially ==
  /\ call = "sequential"
  /\ SequentialAnswer(result')
  /\ call' = "answered"
  /\ UNCHANGED <<outcome, order, unclaimed, worker, error_, slots, executor_error, limit>>

ExecuteStep == BulkNext /\ UNCHANGED <<limit, result>>

\* Variant: the slots are trusted.
SlotsUnchecked ==
  CASE error_ # NoError -> Failure(error_)
    [] error_ = NoError /\ executor_error # Ok -> Failure(executor_error)
    [] OTHER -> [kind |-> "values", of |-> slots]

\* Variant: the error of the executor hides those of the items.
ExecutorErrorFirst ==
  CASE executor_error # Ok -> Failure(executor_error)
    [] executor_error = Ok /\ error_ # NoError -> Failure(error_)
    [] executor_error = Ok /\ error_ = NoError /\ (\E i \in Position : slots[i] = NoValue)
         -> Failure(ExecutorFailure)
    [] OTHER -> [kind |-> "values", of |-> slots]

\* The tail of execute_batch.
BatchAnswer ==
  CASE error_ # NoError -> Failure(error_)
    [] error_ = NoError /\ executor_error # Ok -> Failure(executor_error)
    [] error_ = NoError /\ executor_error = Ok /\ (\E i \in Position : slots[i] = NoValue)
         -> Failure(ExecutorFailure)
    [] OTHER -> [kind |-> "values", of |-> slots]

AnswerBatch ==
  /\ call = "returned"
  /\ result' = BatchAnswer
  /\ call' = "answered"
  /\ UNCHANGED <<outcome, order, unclaimed, worker, error_, slots, executor_error, limit>>

\* The slots are full and the vector of results cannot be reserved.
ReservingFails ==
  /\ call = "returned" /\ BatchAnswer.kind = "values"
  /\ result' = Failure(AllocationFailure)
  /\ call' = "answered"
  /\ UNCHANGED <<outcome, order, unclaimed, worker, error_, slots, executor_error, limit>>

Next == Admit \/ PreparationFails \/ RunSequentially \/ ExecuteStep \/ AnswerBatch
        \/ ReservingFails

Spec == Init /\ [][Next]_vars

\* The threads run, a weak compare-and-swap does not fail spuriously for ever,
\* and the executor hands out every position and returns, as its contract says.
Fairness ==
  /\ WF_vars(Admit) /\ WF_vars(RunSequentially) /\ WF_vars(AnswerBatch)
  /\ WF_vars(ExecutorReturns /\ UNCHANGED <<limit, result>>)
  /\ \A w \in Worker :
       /\ WF_vars((ItemSucceeds(w) \/ ItemFails(w)) /\ UNCHANGED <<limit, result>>)
       /\ WF_vars((CasFails(w) /\ worker[w].current # error_) /\ UNCHANGED <<limit, result>>)
       /\ WF_vars(CasSucceeds(w) /\ UNCHANGED <<limit, result>>)

FairSpec == Spec /\ Fairness

-----------------------------------------------------------------------------
(* Properties.                                                             *)

TypeOK ==
  /\ BulkTypeOK
  /\ limit \in Limits
  /\ result \in {Pending} \cup {Failure(code) : code \in 1 .. 12}
                \cup [kind : {"values"}, of : [Position -> Position \cup {NoValue}]]

\* Once the executor covered every position the answer depends on the items and
\* on its own report alone: all values in input order, or the smallest code;
\* only memory for the results can be missing.
AnswerIsDeterministic ==
  call = "answered" /\ unclaimed = {} =>
    \/ Promise!IsParallelAnswer(result, Position, executor_error)
    \/ /\ Promise!IsParallelAnswer(Promise!Values, Position, executor_error)
       /\ result = Failure(AllocationFailure)

\* The concurrent batch implements the promise, which knows no threads.
PromiseKept == Promise!Spec

\* The call returns: the compare-and-swap loops end and no thread waits for another.
CallReturns == <>(call = "answered")
=============================================================================
