---------------------------- MODULE BulkExecution ----------------------------
(***************************************************************************)
(* One call of sync_bulk_executor_ref::execute: the threads of the host    *)
(* run a bulk task over disjoint ranges of positions, every item either    *)
(* fills the slot of its input index or records an error code in the       *)
(* shared bulk_failure_state, which keeps the smallest code by a weak      *)
(* compare-and-swap loop.                                                  *)
(*                                                                         *)
(* The executor is host code.  It keeps the contract of bulk_task_ref,     *)
(* disjoint ranges and no call after it returned, but it may return early, *)
(* with an error or without one.                                           *)
(***************************************************************************)
EXTENDS Integers, FiniteSets

CONSTANTS
  ItemCount,  \* number of items of the call
  Worker,     \* threads the executor uses
  Codes,      \* the clipper_error_code values the operations may raise
  NoError     \* the initial value of error_, the largest unsigned

Position == 0 .. ItemCount - 1
Ok == 0
AllocationFailure == 6
ExecutorFailure == 9
NoValue == -1

ASSUME BulkExecutionAssumption ==
  /\ ItemCount \in Nat \ {0}
  /\ Codes \subseteq 1 .. 12
  /\ NoError \in Nat /\ NoError > 12

VARIABLES
  outcome,         \* what operation(input_index) does: Ok or the code it raises
  order,           \* the input index a position stands for
  unclaimed,       \* positions the executor has not handed to a thread
  worker,          \* the threads of the executor
  error_,          \* bulk_failure_state::error_
  slots,           \* the optional results, by input index
  executor_error,  \* what execute returned
  call             \* where the calling thread is

bulk_vars == <<outcome, order, unclaimed, worker, error_, slots, executor_error, call>>

Idle == [pc |-> "idle", next |-> 0, end |-> 0, current |-> NoError]

\* The work order is a permutation of the input indices, heavy items first; it
\* is the identity when the requests are uniform.
WorkOrders ==
  {f \in [Position -> Position] :
     /\ \A i \in Position : \E p \in Position : f[p] = i
     /\ \A p, q \in Position : f[p] = f[q] => p = q}

BulkInit ==
  /\ outcome \in [Position -> Codes \cup {Ok}]
  /\ order \in WorkOrders
  /\ unclaimed = Position
  /\ worker = [w \in Worker |-> Idle]
  /\ error_ = NoError
  /\ slots = [i \in Position |-> NoValue]
  /\ executor_error = Ok

\* The executor calls bulk_task_ref on a non-empty range.
Claim(w) ==
  /\ call = "executing" /\ worker[w].pc = "idle"
  /\ \E begin, last \in Position :
       /\ begin <= last /\ begin .. last \subseteq unclaimed
       /\ unclaimed' = unclaimed \ (begin .. last)
       /\ worker' = [worker EXCEPT ![w] = [pc |-> "run", next |-> begin, end |-> last + 1,
                                           current |-> NoError]]
  /\ UNCHANGED <<outcome, order, error_, slots, executor_error, call>>

\* The loop of execute_chunks goes on to the next position of the range.
Advance(t) ==
  IF t.next + 1 = t.end THEN Idle
  ELSE [t EXCEPT !.pc = "run", !.next = t.next + 1]

Candidate(w) == outcome[order[worker[w].next]]

\* The slot an item fills.
SlotOf(w) == order[worker[w].next]

\* operation(input_index) returns and fills the slot.
ItemSucceeds(w) ==
  /\ worker[w].pc = "run" /\ Candidate(w) = Ok
  /\ slots' = [slots EXCEPT ![SlotOf(w)] = order[worker[w].next]]
  /\ worker' = [worker EXCEPT ![w] = Advance(@)]
  /\ UNCHANGED <<outcome, order, unclaimed, error_, executor_error, call>>

\* The test of the loop of record, on the value just loaded.
AfterLoad(w, loaded) ==
  IF Candidate(w) < loaded THEN [worker[w] EXCEPT !.pc = "cas", !.current = loaded]
                           ELSE Advance(worker[w])

\* The operation raises: invoke maps the exception to a code and record loads error_.
ItemFails(w) ==
  /\ worker[w].pc = "run" /\ Candidate(w) # Ok
  /\ worker' = [worker EXCEPT ![w] = AfterLoad(w, error_)]
  /\ UNCHANGED <<outcome, order, unclaimed, error_, slots, executor_error, call>>

\* Variant: a plain store after the test.
StoreSucceeds(w) ==
  /\ worker[w].pc = "cas"
  /\ error_' = Candidate(w)
  /\ worker' = [worker EXCEPT ![w] = Advance(@)]
  /\ UNCHANGED <<outcome, order, unclaimed, slots, executor_error, call>>

CasSucceeds(w) ==
  /\ worker[w].pc = "cas" /\ worker[w].current = error_
  /\ error_' = Candidate(w)
  /\ worker' = [worker EXCEPT ![w] = Advance(@)]
  /\ UNCHANGED <<outcome, order, unclaimed, slots, executor_error, call>>

\* Variant: the value the exchange found is not taken over.
CasFailsWithoutReload(w) == worker[w].pc = "cas" /\ UNCHANGED bulk_vars

\* Another thread changed error_, or the weak exchange failed spuriously:
\* current is reloaded and tested again.
CasFails(w) ==
  /\ worker[w].pc = "cas"
  /\ worker' = [worker EXCEPT ![w] = AfterLoad(w, error_)]
  /\ UNCHANGED <<outcome, order, unclaimed, error_, slots, executor_error, call>>

\* execute returns when no thread runs the task any more.
ExecutorReturns ==
  /\ call = "executing"
  /\ \A w \in Worker : worker[w].pc = "idle"
  /\ executor_error' \in {Ok, AllocationFailure, ExecutorFailure}
  /\ call' = "returned"
  /\ UNCHANGED <<outcome, order, unclaimed, worker, error_, slots>>

WorkerStep(w) == Claim(w) \/ ItemSucceeds(w) \/ ItemFails(w) \/ CasSucceeds(w) \/ CasFails(w)

BulkNext == (\E w \in Worker : WorkerStep(w)) \/ ExecutorReturns

-----------------------------------------------------------------------------
(* Properties.                                                             *)

Remaining(w) == IF worker[w].pc = "idle" THEN {} ELSE worker[w].next .. worker[w].end - 1

\* The positions whose item ended, with a value or with a recorded error.
Ended == {p \in Position \ unclaimed : \A w \in Worker : p \notin Remaining(w)}
EndedItems == {order[p] : p \in Ended}

BulkTypeOK ==
  /\ outcome \in [Position -> Codes \cup {Ok}]
  /\ order \in WorkOrders
  /\ unclaimed \subseteq Position
  /\ worker \in [Worker -> [pc : {"idle", "run", "cas"}, next : Position, end : 0 .. ItemCount,
                            current : Codes \cup {NoError}]]
  /\ error_ \in Codes \cup {NoError}
  /\ slots \in [Position -> Position \cup {NoValue}]
  /\ executor_error \in {Ok, AllocationFailure, ExecutorFailure}
  /\ call \in {"called", "sequential", "executing", "returned", "answered"}

\* Two threads never work on the same item, so the slots need no lock: ranges
\* are disjoint and the work order sends no two positions to one slot.
NoSharedSlot ==
  \A v, w \in Worker :
    v # w /\ worker[v].pc # "idle" /\ worker[w].pc # "idle" => SlotOf(v) # SlotOf(w)

\* bulk_failure_state holds the smallest code of the items that ended so far,
\* whatever the interleaving of their compare-and-swap loops: no error is lost
\* and none is overwritten by a larger one.
SmallestErrorKept ==
  LET failed == {i \in EndedItems : outcome[i] # Ok}
  IN  /\ error_ = NoError <=> failed = {}
      /\ failed # {} => /\ \E i \in failed : outcome[i] = error_
                        /\ \A i \in failed : error_ <= outcome[i]

\* A slot holds the value of its own input index once that item ended well, and
\* nothing before.
SlotsMatchInput ==
  \A i \in Position : slots[i] = IF i \in EndedItems /\ outcome[i] = Ok THEN i ELSE NoValue
=============================================================================
