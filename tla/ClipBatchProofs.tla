--------------------------- MODULE ClipBatchProofs ---------------------------
(***************************************************************************)
(* For every number of items, threads and error codes: the shared failure  *)
(* state keeps the smallest code, the slots match the input, no slot is    *)
(* shared, and the concurrent batch implements BatchPromise.               *)
(*                                                                         *)
(* The invariant adds to the types that ranges are disjoint (from each     *)
(* other and from the unclaimed positions) and that a thread in the        *)
(* compare-and-swap loop holds a smaller code than the one it loaded; with *)
(* them every step that ends an item adds exactly its position to Ended.   *)
(***************************************************************************)
EXTENDS ClipBatch, TLAPS

\* No position is in two ranges, and a busy thread has a position left.
RangesDisjoint ==
  /\ \A w \in Worker :
       worker[w].pc # "idle" => /\ worker[w].next < worker[w].end
                                /\ Remaining(w) \cap unclaimed = {}
  /\ \A v, w \in Worker : v # w => Remaining(v) \cap Remaining(w) = {}

\* A thread exchanges only a code smaller than the one it compares with.
CasHoldsSmaller ==
  \A w \in Worker : worker[w].pc = "cas" => /\ Candidate(w) \in Codes
                                            /\ Candidate(w) < worker[w].current

\* The failure state and the slots, by position.
EndedRecorded ==
  /\ error_ # NoError => \E p \in Ended : outcome[order[p]] = error_
  /\ \A p \in Ended : outcome[order[p]] # Ok => error_ <= outcome[order[p]]
  /\ \A p \in Position :
       slots[order[p]] = IF p \in Ended /\ outcome[order[p]] = Ok THEN order[p] ELSE NoValue

BulkInv == BulkTypeOK /\ RangesDisjoint /\ CasHoldsSmaller /\ EndedRecorded

\* The codes are numbers below NoError and none of them is Ok.
LEMMA CodesBound ==
  /\ \A c \in Codes : c \in Nat /\ c < NoError /\ c # Ok
  /\ NoError \in Nat /\ NoError \notin Codes
  /\ ItemCount \in Nat /\ ItemCount > 0
  /\ Ok \notin Codes
BY BulkExecutionAssumption DEF Ok

\* What moving on in a range does to the positions left.
LEMMA AdvanceLeaves ==
  ASSUME BulkTypeOK, RangesDisjoint, NEW w \in Worker, worker[w].pc # "idle",
         worker' = [worker EXCEPT ![w] = Advance(worker[w])], unclaimed' = unclaimed
  PROVE  /\ worker[w].next \in Position /\ worker[w].next \notin Ended
         /\ Ended' = Ended \cup {worker[w].next}
         /\ worker'[w].pc \in {"idle", "run"}
         /\ \A v \in Worker \ {w} : worker'[v] = worker[v] /\ Remaining(v)' = Remaining(v)
         /\ RangesDisjoint'
         /\ worker' \in [Worker -> [pc : {"idle", "run", "cas"}, next : Position,
                                    end : 0 .. ItemCount, current : Codes \cup {NoError}]]
<1> DEFINE t == worker[w]
<1>1. /\ t \in [pc : {"idle", "run", "cas"}, next : Position, end : 0 .. ItemCount,
                current : Codes \cup {NoError}]
      /\ t.next < t.end /\ worker'[w] = Advance(t)
  BY DEF BulkTypeOK, RangesDisjoint
<1>2. t.next \in Int /\ t.end \in Int /\ t.next \in 0 .. ItemCount - 1 /\ t.end \in 0 .. ItemCount
  BY <1>1, CodesBound DEF Position
<1>3. /\ Advance(t) \in [pc : {"idle", "run", "cas"}, next : Position, end : 0 .. ItemCount,
                         current : Codes \cup {NoError}]
      /\ Advance(t).pc \in {"idle", "run"}
      /\ Advance(t).pc # "idle" => Advance(t).next = t.next + 1 /\ Advance(t).end = t.end
                                   /\ t.next + 1 < t.end
      /\ Advance(t).pc = "idle" => t.next + 1 = t.end
  <2>1. CASE t.next + 1 = t.end
    <3>1. Advance(t) = [pc |-> "idle", next |-> 0, end |-> 0, current |-> NoError]
      BY <2>1 DEF Advance, Idle
    <3>2. 0 \in Position /\ 0 \in 0 .. ItemCount
      BY CodesBound DEF Position
    <3> QED BY <3>1, <3>2, <2>1
  <2>2. CASE t.next + 1 # t.end
    <3>1. Advance(t) = [pc |-> "run", next |-> t.next + 1, end |-> t.end, current |-> t.current]
      BY <2>2, <1>1 DEF Advance
    <3>2. t.next + 1 \in Position /\ t.next + 1 < t.end
      BY <1>1, <1>2, <2>2, CodesBound DEF Position
    <3> QED BY <3>1, <3>2, <1>1
  <2> QED BY <2>1, <2>2
<1>4. Remaining(w) = t.next .. t.end - 1 /\ t.next \in Remaining(w)
  BY <1>1, <1>2 DEF Remaining
<1>5. Remaining(w)' = Remaining(w) \ {t.next}
  <2>1. CASE Advance(t).pc = "idle"
    BY <2>1, <1>1, <1>2, <1>3, <1>4 DEF Remaining
  <2>2. CASE Advance(t).pc # "idle"
    <3>1. Remaining(w)' = t.next + 1 .. t.end - 1
      BY <2>2, <1>1, <1>3 DEF Remaining
    <3> QED BY <3>1, <1>2, <1>4
  <2> QED BY <2>1, <2>2
<1>6. \A v \in Worker \ {w} : worker'[v] = worker[v] /\ Remaining(v)' = Remaining(v)
  BY DEF Remaining, BulkTypeOK
<1>7. t.next \notin unclaimed /\ \A v \in Worker \ {w} : t.next \notin Remaining(v)
  BY <1>1, <1>4 DEF RangesDisjoint
<1>8. Ended' = Ended \cup {t.next} /\ t.next \notin Ended
  BY <1>1, <1>4, <1>5, <1>6, <1>7 DEF Ended
<1>9. RangesDisjoint'
  <2>1. \A v \in Worker : worker'[v].pc # "idle" => /\ worker'[v].next < worker'[v].end
                                                    /\ Remaining(v)' \cap unclaimed' = {}
    BY <1>1, <1>2, <1>3, <1>5, <1>6 DEF RangesDisjoint
  <2>2. \A u, v \in Worker : u # v => Remaining(u)' \cap Remaining(v)' = {}
    BY <1>5, <1>6 DEF RangesDisjoint
  <2> QED BY <2>1, <2>2 DEF RangesDisjoint
<1>10. worker' \in [Worker -> [pc : {"idle", "run", "cas"}, next : Position,
                               end : 0 .. ItemCount, current : Codes \cup {NoError}]]
  BY <1>3 DEF BulkTypeOK
<1> QED BY <1>1, <1>3, <1>6, <1>8, <1>9, <1>10

\* The fields of a thread that enters the exchange.
LEMMA ExchangeRecord ==
  ASSUME NEW t \in [pc : {"idle", "run", "cas"}, next : Position, end : 0 .. ItemCount,
                    current : Codes \cup {NoError}],
         NEW loaded
  PROVE  [t EXCEPT !.pc = "cas", !.current = loaded]
           = [pc |-> "cas", next |-> t.next, end |-> t.end, current |-> loaded]
<1> DEFINE r == [t EXCEPT !.pc = "cas"]
<1>1. r = [pc |-> "cas", next |-> t.next, end |-> t.end, current |-> t.current]
  OBVIOUS
<1>2. [r EXCEPT !.current = loaded]
        = [pc |-> "cas", next |-> t.next, end |-> t.end, current |-> loaded]
  <2> HIDE DEF r
  <2> QED BY <1>1
<1> QED BY <1>2

\* A thread that did not end an item leaves every position where it was.
LEMMA StayLeaves ==
  ASSUME BulkTypeOK, RangesDisjoint, NEW w \in Worker, worker[w].pc # "idle",
         NEW loaded \in Codes \cup {NoError},
         worker' = [worker EXCEPT ![w] = [worker[w] EXCEPT !.pc = "cas", !.current = loaded]],
         unclaimed' = unclaimed
  PROVE  /\ Ended' = Ended
         /\ worker'[w].next = worker[w].next /\ worker'[w].pc = "cas" /\ worker'[w].current = loaded
         /\ \A v \in Worker \ {w} : worker'[v] = worker[v]
         /\ RangesDisjoint'
         /\ worker' \in [Worker -> [pc : {"idle", "run", "cas"}, next : Position,
                                    end : 0 .. ItemCount, current : Codes \cup {NoError}]]
<1>1. worker[w] \in [pc : {"idle", "run", "cas"}, next : Position, end : 0 .. ItemCount,
                     current : Codes \cup {NoError}]
  BY DEF BulkTypeOK
<1>2. worker'[w] = [worker[w] EXCEPT !.pc = "cas", !.current = loaded]
  BY DEF BulkTypeOK
<1>3. /\ worker'[w].next = worker[w].next /\ worker'[w].end = worker[w].end
      /\ worker'[w].pc = "cas" /\ worker'[w].current = loaded
      /\ worker'[w] \in [pc : {"idle", "run", "cas"}, next : Position, end : 0 .. ItemCount,
                         current : Codes \cup {NoError}]
  <2>1. worker'[w] = [pc |-> "cas", next |-> worker[w].next, end |-> worker[w].end, current |-> loaded]
    <3>1. [worker[w] EXCEPT !.pc = "cas", !.current = loaded]
            = [pc |-> "cas", next |-> worker[w].next, end |-> worker[w].end, current |-> loaded]
      BY <1>1, ExchangeRecord, Zenon
    <3> QED BY <3>1, <1>2, Zenon
  <2> QED BY <1>1, <2>1
<1>4. \A v \in Worker \ {w} : worker'[v] = worker[v]
  BY DEF BulkTypeOK
<1>5. \A v \in Worker : Remaining(v)' = Remaining(v)
  BY <1>3, <1>4 DEF Remaining
<1>6. Ended' = Ended
  BY <1>5 DEF Ended
<1>7. RangesDisjoint'
  <2>1. \A v \in Worker : worker'[v].pc # "idle" => /\ worker'[v].next < worker'[v].end
                                                    /\ Remaining(v)' \cap unclaimed' = {}
    BY <1>3, <1>4, <1>5 DEF RangesDisjoint
  <2>2. \A x, v \in Worker : x # v => Remaining(x)' \cap Remaining(v)' = {}
    BY <1>5 DEF RangesDisjoint
  <2> QED BY <2>1, <2>2 DEF RangesDisjoint
<1>8. worker' \in [Worker -> [pc : {"idle", "run", "cas"}, next : Position,
                              end : 0 .. ItemCount, current : Codes \cup {NoError}]]
  BY <1>3 DEF BulkTypeOK
<1> QED BY <1>3, <1>4, <1>6, <1>7, <1>8

\* The order is a permutation, so slots can be spoken of by position.
LEMMA OrderIsPermutation ==
  ASSUME BulkTypeOK
  PROVE  /\ \A p \in Position : order[p] \in Position
         /\ \A p, q \in Position : order[p] = order[q] => p = q
         /\ \A i \in Position : \E p \in Position : order[p] = i
BY DEF BulkTypeOK, WorkOrders

LEMMA BulkInitInv ==
  ASSUME BulkInit, call \in {"called", "sequential", "executing", "returned", "answered"}
  PROVE  BulkInv
<1>1. \A w \in Worker : worker[w] = Idle /\ worker[w].pc = "idle" /\ Remaining(w) = {}
  BY DEF BulkInit, Idle, Remaining
<1>2. Ended = {}
  BY <1>1 DEF Ended, BulkInit
<1>3. BulkTypeOK
  <2>1. Idle \in [pc : {"idle", "run", "cas"}, next : Position, end : 0 .. ItemCount,
                  current : Codes \cup {NoError}]
    BY CodesBound DEF Idle, Position
  <2> QED BY <2>1, CodesBound DEF BulkTypeOK, BulkInit
<1>4. RangesDisjoint
  BY <1>1 DEF RangesDisjoint
<1>5. CasHoldsSmaller
  BY <1>1 DEF CasHoldsSmaller
<1>6. EndedRecorded
  <2>1. \A p \in Position : order[p] \in Position
    BY <1>3, OrderIsPermutation
  <2> QED BY <1>2, <2>1 DEF EndedRecorded, BulkInit
<1> QED BY <1>3, <1>4, <1>5, <1>6 DEF BulkInv

LEMMA ClaimInv ==
  ASSUME BulkInv, NEW w \in Worker, Claim(w)
  PROVE  BulkInv'
<1> USE DEF BulkInv
<1>1. PICK begin, last \in Position :
        /\ begin <= last /\ begin .. last \subseteq unclaimed
        /\ unclaimed' = unclaimed \ (begin .. last)
        /\ worker' = [worker EXCEPT ![w] = [pc |-> "run", next |-> begin, end |-> last + 1,
                                            current |-> NoError]]
  BY DEF Claim
<1>2. /\ worker'[w] = [pc |-> "run", next |-> begin, end |-> last + 1, current |-> NoError]
      /\ \A v \in Worker \ {w} : worker'[v] = worker[v]
      /\ worker[w].pc = "idle"
      /\ UNCHANGED <<outcome, order, error_, slots, executor_error, call>>
  BY <1>1 DEF Claim, BulkTypeOK
<1>3. begin \in Int /\ last \in Int /\ last + 1 \in 0 .. ItemCount /\ begin < last + 1
  BY <1>1, CodesBound DEF Position
<1>4. /\ Remaining(w)' = begin .. last /\ Remaining(w) = {}
      /\ \A v \in Worker \ {w} : Remaining(v)' = Remaining(v)
  BY <1>2, <1>3 DEF Remaining
<1>5. BulkTypeOK'
  <2>1. worker'[w] \in [pc : {"idle", "run", "cas"}, next : Position, end : 0 .. ItemCount,
                        current : Codes \cup {NoError}]
    BY <1>1, <1>2, <1>3
  <2> QED BY <1>1, <1>2, <2>1 DEF BulkTypeOK
<1>6. RangesDisjoint'
  <2>1. \A v \in Worker : worker'[v].pc # "idle" => /\ worker'[v].next < worker'[v].end
                                                    /\ Remaining(v)' \cap unclaimed' = {}
    BY <1>1, <1>2, <1>3, <1>4 DEF RangesDisjoint
  <2>2. \A v \in Worker : Remaining(v) \cap unclaimed = {}
    BY DEF RangesDisjoint, Remaining
  <2>3. \A x \in Worker \ {w} : Remaining(x)' \cap Remaining(w)' = {}
    BY <1>1, <1>4, <2>2
  <2>4. \A x, v \in Worker : x # v => Remaining(x)' \cap Remaining(v)' = {}
    <3> SUFFICES ASSUME NEW x \in Worker, NEW v \in Worker, x # v
                 PROVE  Remaining(x)' \cap Remaining(v)' = {}
      OBVIOUS
    <3>1. CASE x = w
      BY <3>1, <2>3
    <3>2. CASE v = w
      BY <3>2, <2>3
    <3>3. CASE x # w /\ v # w
      BY <3>3, <1>4 DEF RangesDisjoint
    <3> QED BY <3>1, <3>2, <3>3
  <2> QED BY <2>1, <2>4 DEF RangesDisjoint
<1>7. Ended' = Ended
  <2>1. \A p \in Position : (\A v \in Worker : p \notin Remaining(v)')
                            <=> p \notin begin .. last /\ \A v \in Worker : p \notin Remaining(v)
    BY <1>4
  <2> QED BY <2>1, <1>1 DEF Ended
<1>8. CasHoldsSmaller'
  BY <1>2 DEF CasHoldsSmaller, Candidate
<1>9. EndedRecorded'
  BY <1>2, <1>7 DEF EndedRecorded
<1> QED BY <1>5, <1>6, <1>8, <1>9

LEMMA ItemSucceedsInv ==
  ASSUME BulkInv, NEW w \in Worker, ItemSucceeds(w)
  PROVE  BulkInv'
<1> USE DEF BulkInv
<1> DEFINE p == worker[w].next
<1>1. /\ worker[w].pc # "idle" /\ outcome[order[p]] = Ok
      /\ slots' = [slots EXCEPT ![order[p]] = order[p]]
      /\ worker' = [worker EXCEPT ![w] = Advance(worker[w])] /\ unclaimed' = unclaimed
      /\ UNCHANGED <<outcome, order, error_, executor_error, call>>
  BY DEF ItemSucceeds, Candidate, SlotOf
<1>2. /\ p \in Position /\ Ended' = Ended \cup {p}
      /\ worker'[w].pc \in {"idle", "run"}
      /\ \A v \in Worker \ {w} : worker'[v] = worker[v]
      /\ RangesDisjoint'
      /\ worker' \in [Worker -> [pc : {"idle", "run", "cas"}, next : Position,
                                 end : 0 .. ItemCount, current : Codes \cup {NoError}]]
  BY <1>1, AdvanceLeaves
<1>3. BulkTypeOK'
  BY <1>1, <1>2, OrderIsPermutation DEF BulkTypeOK
<1>4. CasHoldsSmaller'
  BY <1>1, <1>2 DEF CasHoldsSmaller, Candidate
<1>5. EndedRecorded'
  <2>1. error_ # NoError => \E q \in Ended' : outcome[order[q]] = error_
    BY <1>2 DEF EndedRecorded
  <2>2. \A q \in Ended' : outcome[order[q]] # Ok => error_ <= outcome[order[q]]
    BY <1>1, <1>2 DEF EndedRecorded
  <2>3. \A q \in Position :
          slots'[order[q]] = IF q \in Ended' /\ outcome[order[q]] = Ok THEN order[q] ELSE NoValue
    BY <1>1, <1>2, OrderIsPermutation DEF EndedRecorded, BulkTypeOK
  <2> QED BY <1>1, <2>1, <2>2, <2>3 DEF EndedRecorded
<1> QED BY <1>2, <1>3, <1>4, <1>5

\* The step after a load: into the exchange, or on when the code is not smaller.
LEMMA AfterLoadInv ==
  ASSUME BulkInv, NEW w \in Worker, worker[w].pc # "idle", Candidate(w) \in Codes,
         worker' = [worker EXCEPT ![w] = AfterLoad(w, error_)],
         UNCHANGED <<outcome, order, unclaimed, error_, slots, executor_error, call>>
  PROVE  BulkInv'
<1> USE DEF BulkInv
<1> DEFINE p == worker[w].next
<1>0. /\ error_ \in Codes \cup {NoError} /\ Candidate(w) = outcome[order[p]]
      /\ error_ \in Nat /\ Candidate(w) \in Nat
  BY CodesBound DEF BulkTypeOK, Candidate
<1>1. CASE Candidate(w) < error_
  <2>1. worker' = [worker EXCEPT ![w] = [worker[w] EXCEPT !.pc = "cas", !.current = error_]]
    BY <1>1 DEF AfterLoad
  <2>2. /\ Ended' = Ended
        /\ worker'[w].next = p /\ worker'[w].pc = "cas" /\ worker'[w].current = error_
        /\ \A v \in Worker \ {w} : worker'[v] = worker[v]
        /\ RangesDisjoint'
        /\ worker' \in [Worker -> [pc : {"idle", "run", "cas"}, next : Position,
                                   end : 0 .. ItemCount, current : Codes \cup {NoError}]]
    BY <2>1, <1>0, StayLeaves
  <2>3. CasHoldsSmaller'
    BY <1>1, <2>2 DEF CasHoldsSmaller, Candidate
  <2> QED BY <2>2, <2>3 DEF BulkTypeOK, EndedRecorded
<1>2. CASE ~(Candidate(w) < error_)
  <2>1. worker' = [worker EXCEPT ![w] = Advance(worker[w])]
    BY <1>2 DEF AfterLoad
  <2>2. /\ p \in Position /\ Ended' = Ended \cup {p}
        /\ worker'[w].pc \in {"idle", "run"}
        /\ \A v \in Worker \ {w} : worker'[v] = worker[v]
        /\ RangesDisjoint'
        /\ worker' \in [Worker -> [pc : {"idle", "run", "cas"}, next : Position,
                                   end : 0 .. ItemCount, current : Codes \cup {NoError}]]
    BY <2>1, AdvanceLeaves
  <2>3. CasHoldsSmaller'
    BY <2>2 DEF CasHoldsSmaller, Candidate
  <2>4. EndedRecorded'
    <3>1. error_ <= outcome[order[p]] /\ outcome[order[p]] # Ok
      BY <1>0, <1>2, CodesBound
    <3>2. error_ # NoError => \E q \in Ended' : outcome[order[q]] = error_
      BY <2>2 DEF EndedRecorded
    <3>3. \A q \in Ended' : outcome[order[q]] # Ok => error_ <= outcome[order[q]]
      BY <2>2, <3>1 DEF EndedRecorded
    <3>4. \A q \in Position :
            slots[order[q]] = IF q \in Ended' /\ outcome[order[q]] = Ok THEN order[q] ELSE NoValue
      BY <2>2, <3>1 DEF EndedRecorded
    <3> QED BY <3>2, <3>3, <3>4 DEF EndedRecorded
  <2> QED BY <2>2, <2>3, <2>4 DEF BulkTypeOK
<1> QED BY <1>1, <1>2

LEMMA ItemFailsInv ==
  ASSUME BulkInv, NEW w \in Worker, ItemFails(w)
  PROVE  BulkInv'
<1>1. worker[w].pc # "idle" /\ Candidate(w) # Ok
  BY DEF ItemFails
<1>2. Candidate(w) \in Codes
  BY <1>1, OrderIsPermutation DEF BulkInv, BulkTypeOK, Candidate
<1> QED BY <1>1, <1>2, AfterLoadInv DEF ItemFails

LEMMA CasFailsInv ==
  ASSUME BulkInv, NEW w \in Worker, CasFails(w)
  PROVE  BulkInv'
BY AfterLoadInv DEF CasFails, BulkInv, CasHoldsSmaller

LEMMA CasSucceedsInv ==
  ASSUME BulkInv, NEW w \in Worker, CasSucceeds(w)
  PROVE  BulkInv'
<1> USE DEF BulkInv
<1> DEFINE p == worker[w].next
<1>1. /\ worker[w].pc = "cas" /\ error_' = outcome[order[p]]
      /\ outcome[order[p]] \in Codes /\ outcome[order[p]] < error_
      /\ worker' = [worker EXCEPT ![w] = Advance(worker[w])] /\ unclaimed' = unclaimed
      /\ UNCHANGED <<outcome, order, slots, executor_error, call>>
  BY DEF CasSucceeds, Candidate, CasHoldsSmaller
<1>2. /\ p \in Position /\ Ended' = Ended \cup {p}
      /\ worker'[w].pc \in {"idle", "run"}
      /\ \A v \in Worker \ {w} : worker'[v] = worker[v]
      /\ RangesDisjoint'
      /\ worker' \in [Worker -> [pc : {"idle", "run", "cas"}, next : Position,
                                 end : 0 .. ItemCount, current : Codes \cup {NoError}]]
  BY <1>1, AdvanceLeaves
<1>3. BulkTypeOK'
  BY <1>1, <1>2 DEF BulkTypeOK
<1>4. CasHoldsSmaller'
  BY <1>1, <1>2 DEF CasHoldsSmaller, Candidate
<1>5. EndedRecorded'
  <2>1. outcome[order[p]] # Ok /\ outcome[order[p]] \in Nat /\ error_ \in Nat
    BY <1>1, CodesBound DEF BulkTypeOK
  <2>2. \E q \in Ended' : outcome[order[q]] = error_'
    BY <1>1, <1>2
  <2>3. \A q \in Ended : outcome[order[q]] # Ok =>
          /\ outcome[order[q]] \in Nat /\ error_ <= outcome[order[q]]
    BY CodesBound, OrderIsPermutation DEF EndedRecorded, BulkTypeOK, Ended
  <2>4. \A q \in Ended' : outcome[order[q]] # Ok => error_' <= outcome[order[q]]
    BY <1>1, <1>2, <2>1, <2>3
  <2>5. \A q \in Position :
          slots[order[q]] = IF q \in Ended' /\ outcome[order[q]] = Ok THEN order[q] ELSE NoValue
    BY <1>2, <2>1 DEF EndedRecorded
  <2> QED BY <1>1, <2>2, <2>4, <2>5 DEF EndedRecorded
<1> QED BY <1>2, <1>3, <1>4, <1>5

LEMMA ExecutorReturnsInv ==
  ASSUME BulkInv, ExecutorReturns
  PROVE  BulkInv'
<1> USE DEF BulkInv
<1>1. /\ executor_error' \in {Ok, AllocationFailure, ExecutorFailure} /\ call' = "returned"
      /\ UNCHANGED <<outcome, order, unclaimed, worker, error_, slots>>
  BY DEF ExecutorReturns
<1>2. BulkTypeOK'
  BY <1>1 DEF BulkTypeOK
<1>3. RangesDisjoint' /\ CasHoldsSmaller'
  BY <1>1 DEF RangesDisjoint, CasHoldsSmaller, Remaining, Candidate
<1>4. EndedRecorded'
  BY <1>1 DEF EndedRecorded, Ended, Remaining
<1> QED BY <1>2, <1>3, <1>4

\* A step of the call outside the executor touches neither threads nor slots.
LEMMA CallerStepInv ==
  ASSUME BulkInv, call' \in {"called", "sequential", "executing", "returned", "answered"},
         UNCHANGED <<outcome, order, unclaimed, worker, error_, slots, executor_error>>
  PROVE  BulkInv'
<1> USE DEF BulkInv
<1>1. BulkTypeOK'
  BY DEF BulkTypeOK
<1>2. RangesDisjoint' /\ CasHoldsSmaller'
  BY DEF RangesDisjoint, CasHoldsSmaller, Remaining, Candidate
<1>3. EndedRecorded'
  BY DEF EndedRecorded, Ended, Remaining
<1> QED BY <1>1, <1>2, <1>3

LEMMA BulkInvInit ==
  ASSUME Init
  PROVE  BulkInv
BY BulkInitInv DEF Init

LEMMA BulkInvStep ==
  ASSUME BulkInv, [Next]_vars
  PROVE  BulkInv'
<1>1. CASE Admit
  BY <1>1, CallerStepInv DEF Admit
<1>2. CASE PreparationFails
  BY <1>2, CallerStepInv DEF PreparationFails
<1>3. CASE RunSequentially
  BY <1>3, CallerStepInv DEF RunSequentially
<1>4. CASE ExecuteStep
  <2>1. ASSUME NEW w \in Worker, WorkerStep(w)
        PROVE  BulkInv'
    BY <2>1, ClaimInv, ItemSucceedsInv, ItemFailsInv, CasSucceedsInv, CasFailsInv DEF WorkerStep
  <2>2. CASE ExecutorReturns
    BY <2>2, ExecutorReturnsInv
  <2> QED BY <1>4, <2>1, <2>2 DEF ExecuteStep, BulkNext
<1>5. CASE AnswerBatch
  BY <1>5, CallerStepInv DEF AnswerBatch
<1>6. CASE UNCHANGED vars
  BY <1>6, CallerStepInv DEF vars, bulk_vars, BulkInv, BulkTypeOK
<1>7. CASE ReservingFails
  BY <1>7, CallerStepInv DEF ReservingFails
<1> QED BY <1>1, <1>2, <1>3, <1>4, <1>5, <1>6, <1>7 DEF Next

\* What the invariant says, in terms of input indices.
LEMMA BulkInvImplies ==
  ASSUME BulkInv
  PROVE  NoSharedSlot /\ SmallestErrorKept /\ SlotsMatchInput
<1> USE DEF BulkInv
<1> DEFINE failed == {i \in EndedItems : outcome[i] # Ok}
<1>1. /\ \A p \in Position : order[p] \in Position
      /\ \A p, q \in Position : order[p] = order[q] => p = q
      /\ \A i \in Position : \E p \in Position : order[p] = i
  BY OrderIsPermutation
<1>2. Ended \subseteq Position
  BY DEF Ended
<1>3. NoSharedSlot
  <2> SUFFICES ASSUME NEW v \in Worker, NEW w \in Worker, v # w,
                      worker[v].pc # "idle", worker[w].pc # "idle"
               PROVE  SlotOf(v) # SlotOf(w)
    BY DEF NoSharedSlot
  <2>1. /\ worker[v].next \in Position /\ worker[v].end \in 0 .. ItemCount
        /\ worker[w].next \in Position /\ worker[w].end \in 0 .. ItemCount
    BY DEF BulkTypeOK
  <2>2. worker[v].next \in Remaining(v) /\ worker[w].next \in Remaining(w)
    BY <2>1, CodesBound DEF RangesDisjoint, Remaining, Position
  <2>3. worker[v].next # worker[w].next
    BY <2>2 DEF RangesDisjoint
  <2> QED BY <1>1, <2>1, <2>3 DEF SlotOf
<1>4. SmallestErrorKept
  <2>1. \A i \in failed : outcome[i] \in Codes /\ error_ <= outcome[i]
    BY <1>1, <1>2 DEF EndedItems, EndedRecorded, BulkTypeOK
  <2>2. error_ # NoError => \E i \in failed : outcome[i] = error_
    <3> SUFFICES ASSUME error_ # NoError PROVE \E i \in failed : outcome[i] = error_
      OBVIOUS
    <3>1. PICK p \in Ended : outcome[order[p]] = error_
      BY DEF EndedRecorded
    <3>2. error_ # Ok
      BY CodesBound DEF BulkTypeOK
    <3> QED BY <3>1, <3>2 DEF EndedItems
  <2>3. error_ = NoError => failed = {}
    <3> SUFFICES ASSUME error_ = NoError, NEW i \in failed PROVE FALSE
      OBVIOUS
    <3> QED BY <2>1, CodesBound
  <2>4. error_ # NoError => failed # {}
    BY <2>2
  <2> QED BY <2>1, <2>2, <2>3, <2>4 DEF SmallestErrorKept
<1>5. SlotsMatchInput
  <2> SUFFICES ASSUME NEW i \in Position
               PROVE  slots[i] = IF i \in EndedItems /\ outcome[i] = Ok THEN i ELSE NoValue
    BY DEF SlotsMatchInput
  <2>1. PICK p \in Position : order[p] = i
    BY <1>1
  <2>2. i \in EndedItems <=> p \in Ended
    BY <1>1, <1>2, <2>1 DEF EndedItems
  <2> QED BY <2>1, <2>2 DEF EndedRecorded
<1> QED BY <1>3, <1>4, <1>5

\* Whatever the interleaving of the threads and of their compare-and-swap loops
\* (bulk_failure_state::record), no slot has two writers, the failure state holds
\* the smallest code raised so far and every slot the value of its own input.
THEOREM BatchErrors == Spec => [](NoSharedSlot /\ SmallestErrorKept /\ SlotsMatchInput)
<1>1. Init => BulkInv
  BY BulkInvInit
<1>2. BulkInv /\ [Next]_vars => BulkInv'
  BY BulkInvStep
<1>3. BulkInv => NoSharedSlot /\ SmallestErrorKept /\ SlotsMatchInput
  BY BulkInvImplies
<1> QED BY <1>1, <1>2, <1>3, PTL DEF Spec

-----------------------------------------------------------------------------
(* The concurrent batch implements its promise.                            *)

\* The call has no answer before it is answered.
CallInv == BulkInv /\ (call # "answered" => result = Pending)

LEMMA CallInvStep ==
  ASSUME CallInv, [Next]_vars
  PROVE  CallInv'
<1>1. BulkInv'
  BY BulkInvStep DEF CallInv
<1>2. call' # "answered" => result' = Pending
  <2>1. CASE Admit
    BY <2>1 DEF CallInv, Admit, Pending
  <2>2. CASE PreparationFails
    BY <2>2 DEF PreparationFails
  <2>3. CASE RunSequentially
    BY <2>3 DEF RunSequentially
  <2>4. CASE ExecuteStep
    <3>1. ASSUME NEW w \in Worker, WorkerStep(w)
          PROVE  call' = call
      BY <3>1 DEF WorkerStep, Claim, ItemSucceeds, ItemFails, CasSucceeds, CasFails
    <3>2. ExecutorReturns => call # "answered"
      BY DEF ExecutorReturns
    <3>3. result' = result
      BY <2>4 DEF ExecuteStep
    <3> QED BY <2>4, <3>1, <3>2, <3>3 DEF ExecuteStep, BulkNext, CallInv, Pending
  <2>5. CASE AnswerBatch
    BY <2>5 DEF AnswerBatch
  <2>6. CASE UNCHANGED vars
    BY <2>6 DEF vars, bulk_vars, CallInv, Pending
  <2>7. CASE ReservingFails
    BY <2>7 DEF ReservingFails
  <2> QED BY <2>1, <2>2, <2>3, <2>4, <2>5, <2>6, <2>7 DEF Next
<1> QED BY <1>1, <1>2 DEF CallInv

\* The tail of execute_batch answers as the promise does for the items that ended.
LEMMA BatchAnswerKeepsPromise ==
  ASSUME BulkInv
  PROVE  /\ Promise!IsParallelAnswer(BatchAnswer, EndedItems, executor_error)
         /\ EndedItems \subseteq Position
<1> DEFINE failed == {i \in EndedItems : outcome[i] # Ok}
<1>1. /\ error_ = NoError <=> failed = {}
      /\ failed # {} => /\ \E i \in failed : outcome[i] = error_
                        /\ \A i \in failed : error_ <= outcome[i]
  BY BulkInvImplies DEF SmallestErrorKept
<1>2. \A i \in Position :
        slots[i] = IF i \in EndedItems /\ outcome[i] = Ok THEN i ELSE NoValue
  BY BulkInvImplies DEF SlotsMatchInput
<1>3. EndedItems \subseteq Position
  BY OrderIsPermutation DEF BulkInv, EndedItems, Ended
<1>4. Promise!Failed(EndedItems) = failed
  BY DEF Promise!Failed, Promise!Ok, Ok
<1>5. CASE error_ # NoError
  <2>1. BatchAnswer = Failure(error_)
    BY <1>5 DEF BatchAnswer
  <2>2. PICK i \in failed : outcome[i] = error_
    BY <1>1, <1>5
  <2>3. \A j \in failed : outcome[i] <= outcome[j]
    BY <1>1, <2>2
  <2>4. BatchAnswer = Promise!Failure(outcome[i])
    BY <2>1, <2>2 DEF Failure, Promise!Failure
  <2> QED BY <1>3, <1>4, <2>2, <2>3, <2>4 DEF Promise!IsParallelAnswer
<1>6. CASE error_ = NoError /\ executor_error # Ok
  <2>1. BatchAnswer = Promise!Failure(executor_error)
    BY <1>6 DEF BatchAnswer, Failure, Promise!Failure
  <2>2. Promise!Failed(EndedItems) = {}
    BY <1>1, <1>4, <1>6
  <2> QED BY <1>3, <1>6, <2>1, <2>2 DEF Promise!IsParallelAnswer, Promise!Ok, Ok
<1>7. CASE error_ = NoError /\ executor_error = Ok /\ \E i \in Position : slots[i] = NoValue
  <2>1. BatchAnswer = Promise!Failure(ExecutorFailure)
    BY <1>7 DEF BatchAnswer, Failure, Promise!Failure
  <2>2. Promise!Failed(EndedItems) = {}
    BY <1>1, <1>4, <1>7
  <2>3. EndedItems # Position
    <3>1. PICK i \in Position : slots[i] = NoValue
      BY <1>7
    <3>2. i # NoValue
      BY CodesBound DEF Position, NoValue
    <3>3. i \notin EndedItems
      BY <1>1, <1>2, <1>7, <3>1, <3>2
    <3> QED BY <3>1, <3>3
  <2>4. Promise!Position = Position /\ Promise!Ok = Ok /\ Promise!ExecutorFailure = ExecutorFailure
    BY DEF Promise!Position, Position, Promise!Ok, Ok, Promise!ExecutorFailure, ExecutorFailure
  <2> QED BY <1>3, <1>7, <2>1, <2>2, <2>3, <2>4 DEF Promise!IsParallelAnswer
<1>8. CASE error_ = NoError /\ executor_error = Ok /\ ~ \E i \in Position : slots[i] = NoValue
  <2>1. BatchAnswer = [kind |-> "values", of |-> slots]
    BY <1>8 DEF BatchAnswer
  <2>2. \A i \in Position : slots[i] = i /\ i \in EndedItems
    BY <1>2, <1>8
  <2>3. slots = [i \in Position |-> i]
    BY <2>2 DEF BulkInv, BulkTypeOK
  <2>4. Promise!Position = Position /\ Promise!Ok = Ok
    BY DEF Promise!Position, Position, Promise!Ok, Ok
  <2>5. BatchAnswer = Promise!Values
    BY <2>1, <2>3, <2>4 DEF Promise!Values
  <2>6. Promise!Failed(EndedItems) = {} /\ EndedItems = Position
    BY <1>1, <1>3, <1>4, <1>8, <2>2
  <2> QED BY <1>3, <1>8, <2>4, <2>5, <2>6 DEF Promise!IsParallelAnswer
<1> QED BY <1>5, <1>6, <1>7, <1>8

\* Every step of the batch is the answer of the promise or leaves it alone.
LEMMA StepKeepsPromise ==
  ASSUME CallInv, [Next]_vars
  PROVE  [Promise!Answer]_<<outcome, result>>
<1>1. CASE Admit
  BY <1>1 DEF Admit
<1>2. ASSUME call # "answered" PROVE result = Promise!Pending
  BY <1>2 DEF CallInv, Pending, Promise!Pending
<1>3. CASE PreparationFails
  <2>1. result = Promise!Pending /\ outcome' = outcome
    BY <1>2, <1>3 DEF PreparationFails
  <2>2. result' \in {Promise!Failure(Promise!AllocationFailure),
                     Promise!Failure(Promise!ResourceLimit)}
    BY <1>3 DEF PreparationFails, Failure, Promise!Failure, AllocationFailure, ResourceLimit,
                Promise!AllocationFailure, Promise!ResourceLimit
  <2> QED BY <2>1, <2>2 DEF Promise!Answer
<1>4. CASE RunSequentially
  <2>1. result = Promise!Pending /\ outcome' = outcome /\ SequentialAnswer(result')
    BY <1>2, <1>4 DEF RunSequentially
  <2>2. Promise!Position = Position /\ Promise!Ok = Ok
    BY DEF Promise!Position, Position, Promise!Ok, Ok
  <2>3. CASE \A i \in Position : outcome[i] = Ok
    <3>1. result' = Promise!Values
      BY <2>1, <2>2, <2>3 DEF SequentialAnswer, Promise!Values
    <3>2. Promise!Failed(Promise!Position) = {}
      BY <2>2, <2>3 DEF Promise!Failed
    <3> QED BY <2>1, <3>1, <3>2 DEF Promise!Answer, Promise!IsSequentialAnswer
  <2>4. CASE \E i \in Position : /\ outcome[i] # Ok
                                 /\ \A j \in Position : j < i => outcome[j] = Ok
                                 /\ result' = Failure(outcome[i])
    <3>1. PICK i \in Position : /\ outcome[i] # Ok
                                /\ \A j \in Position : j < i => outcome[j] = Ok
                                /\ result' = Failure(outcome[i])
      BY <2>4
    <3>2. i \in Promise!Failed(Promise!Position)
      BY <2>2, <3>1 DEF Promise!Failed
    <3>3. \A j \in Promise!Failed(Promise!Position) : i <= j
      <4> SUFFICES ASSUME NEW j \in Promise!Failed(Promise!Position) PROVE i <= j
        OBVIOUS
      <4>1. j \in Position /\ outcome[j] # Ok
        BY <2>2 DEF Promise!Failed
      <4>2. ~ (j < i)
        BY <3>1, <4>1
      <4>3. i \in Int /\ j \in Int
        BY <4>1, CodesBound DEF Position
      <4> QED BY <4>2, <4>3
    <3>4. result' = Promise!Failure(outcome[i])
      <4>1. result' = Failure(outcome[i])
        BY <3>1
      <4> QED BY <4>1 DEF Failure, Promise!Failure
    <3>5. Promise!IsSequentialAnswer(result')
      BY <3>2, <3>3, <3>4 DEF Promise!IsSequentialAnswer
    <3> QED BY <2>1, <3>5 DEF Promise!Answer
  <2> QED BY <2>1, <2>3, <2>4 DEF SequentialAnswer
<1>5. CASE ExecuteStep
  <2>1. ASSUME NEW w \in Worker, WorkerStep(w)
        PROVE  outcome' = outcome
    BY <2>1 DEF WorkerStep, Claim, ItemSucceeds, ItemFails, CasSucceeds, CasFails
  <2>2. ExecutorReturns => outcome' = outcome
    BY DEF ExecutorReturns
  <2> QED BY <1>5, <2>1, <2>2 DEF ExecuteStep, BulkNext
<1>6. CASE AnswerBatch
  <2>1. result = Promise!Pending /\ outcome' = outcome /\ result' = BatchAnswer
    BY <1>2, <1>6 DEF AnswerBatch
  <2>2. /\ Promise!IsParallelAnswer(result', EndedItems, executor_error)
        /\ EndedItems \in SUBSET Promise!Position
    BY <2>1, BatchAnswerKeepsPromise DEF CallInv, Promise!Position, Position
  <2>3. executor_error \in {Promise!Ok, Promise!AllocationFailure, Promise!ExecutorFailure}
    BY DEF CallInv, BulkInv, BulkTypeOK, Ok, AllocationFailure, ExecutorFailure,
           Promise!Ok, Promise!AllocationFailure, Promise!ExecutorFailure
  <2> QED BY <2>1, <2>2, <2>3 DEF Promise!Answer
<1>7. CASE UNCHANGED vars
  BY <1>7 DEF vars, bulk_vars
<1>8. CASE ReservingFails
  <2>1. /\ result = Promise!Pending /\ outcome' = outcome
        /\ result' = Promise!Failure(Promise!AllocationFailure)
    BY <1>2, <1>8 DEF ReservingFails, Failure, Promise!Failure, AllocationFailure,
                      Promise!AllocationFailure
  <2> QED BY <2>1 DEF Promise!Answer
<1> QED BY <1>1, <1>3, <1>4, <1>5, <1>6, <1>7, <1>8 DEF Next

\* clip_batch_checked, with its threads, its compare-and-swap loops and an
\* executor that may stop early, implements a call that answers once, with an
\* answer that no interleaving decides.
THEOREM BatchKeepsPromise == Spec => PromiseKept
<1>1. Init => CallInv
  BY BulkInvInit DEF Init, CallInv
<1>2. CallInv /\ [Next]_vars => CallInv'
  BY CallInvStep
<1>3. Init => Promise!Init
  BY DEF Init, BulkInit, Promise!Init, Pending, Promise!Pending, Position, Promise!Position,
         Ok, Promise!Ok
<1>4. CallInv /\ [Next]_vars => [Promise!Answer]_<<outcome, result>>
  BY StepKeepsPromise
<1> QED BY <1>1, <1>2, <1>3, <1>4, PTL DEF Spec, PromiseKept, Promise!Spec

-----------------------------------------------------------------------------
(* The answer does not depend on the interleaving.                         *)

\* Threads run only while the executor does, and it hands out nothing before.
ThreadsBelongToExecutor ==
  /\ call # "executing" => \A w \in Worker : worker[w].pc = "idle"
  /\ call \in {"called", "sequential"} => unclaimed = Position

AnswerInv == CallInv /\ ThreadsBelongToExecutor /\ AnswerIsDeterministic

\* A step of the threads belongs to a running executor and leaves the call there.
LEMMA WorkerStepExecutes ==
  ASSUME ThreadsBelongToExecutor, NEW w \in Worker, WorkerStep(w)
  PROVE  call = "executing" /\ call' = "executing"
BY DEF ThreadsBelongToExecutor, WorkerStep, Claim, ItemSucceeds, ItemFails, CasSucceeds, CasFails

LEMMA ThreadsStep ==
  ASSUME ThreadsBelongToExecutor, [Next]_vars
  PROVE  ThreadsBelongToExecutor'
<1> USE DEF ThreadsBelongToExecutor
<1>1. CASE Admit
  BY <1>1 DEF Admit
<1>2. CASE PreparationFails
  BY <1>2 DEF PreparationFails
<1>3. CASE RunSequentially
  BY <1>3 DEF RunSequentially
<1>4. CASE ExecuteStep
  <2>1. ASSUME NEW w \in Worker, WorkerStep(w)
        PROVE  ThreadsBelongToExecutor'
    BY <2>1, WorkerStepExecutes
  <2>2. CASE ExecutorReturns
    BY <2>2 DEF ExecutorReturns
  <2> QED BY <1>4, <2>1, <2>2 DEF ExecuteStep, BulkNext
<1>5. CASE AnswerBatch
  BY <1>5 DEF AnswerBatch
<1>6. CASE UNCHANGED vars
  BY <1>6 DEF vars, bulk_vars
<1>7. CASE ReservingFails
  BY <1>7 DEF ReservingFails
<1> QED BY <1>1, <1>2, <1>3, <1>4, <1>5, <1>6, <1>7 DEF Next

\* When every position was handed out and no thread runs, every item ended.
LEMMA AllItemsEnded ==
  ASSUME BulkInv, unclaimed = {}, \A w \in Worker : worker[w].pc = "idle"
  PROVE  EndedItems = Position
<1>1. Ended = Position
  BY DEF Ended, Remaining
<1> QED
  BY <1>1, OrderIsPermutation DEF BulkInv, EndedItems

\* The values are the answer only when all of them are there.
LEMMA ValuesAnswer ==
  ASSUME BulkInv, BatchAnswer.kind = "values"
  PROVE  BatchAnswer = Promise!Values
<1>1. \A code : Failure(code).kind = "error"
  BY DEF Failure
<1>2. /\ error_ = NoError /\ executor_error = Ok
      /\ \A i \in Position : slots[i] # NoValue
      /\ BatchAnswer = [kind |-> "values", of |-> slots]
  BY <1>1 DEF BatchAnswer
<1>3. \A i \in Position : slots[i] = i
  BY <1>2, BulkInvImplies DEF SlotsMatchInput
<1>4. slots = [i \in Position |-> i]
  BY <1>3 DEF BulkInv, BulkTypeOK
<1>5. Promise!Position = Position
  BY DEF Promise!Position, Position
<1> QED
  BY <1>2, <1>4, <1>5 DEF Promise!Values

LEMMA AnswerStep ==
  ASSUME AnswerInv, [Next]_vars
  PROVE  AnswerInv'
<1>1. CallInv' /\ ThreadsBelongToExecutor'
  BY CallInvStep, ThreadsStep DEF AnswerInv
<1>2. AnswerIsDeterministic'
  <2> SUFFICES ASSUME call' = "answered", unclaimed' = {}
               PROVE  (\/ Promise!IsParallelAnswer(result, Position, executor_error)
                       \/ /\ Promise!IsParallelAnswer(Promise!Values, Position, executor_error)
                          /\ result = Failure(AllocationFailure))'
    BY DEF AnswerIsDeterministic
  <2>1. call \in {"called", "sequential"} /\ unclaimed' = unclaimed => FALSE
    BY CodesBound DEF AnswerInv, ThreadsBelongToExecutor, Position
  <2>2. CASE Admit
    BY <2>2 DEF Admit
  <2>3. CASE PreparationFails
    BY <2>1, <2>3 DEF PreparationFails
  <2>4. CASE RunSequentially
    BY <2>1, <2>4 DEF RunSequentially
  <2>5. CASE ExecuteStep
    <3>1. ASSUME NEW w \in Worker, WorkerStep(w)
          PROVE  FALSE
      BY <3>1, WorkerStepExecutes DEF AnswerInv
    <3>2. CASE ExecutorReturns
      BY <3>2 DEF ExecutorReturns
    <3> QED BY <2>5, <3>1, <3>2 DEF ExecuteStep, BulkNext
  <2>6. CASE AnswerBatch \/ ReservingFails
    <3>1. /\ call = "returned" /\ unclaimed = {}
          /\ UNCHANGED <<outcome, executor_error>>
      BY <2>6 DEF AnswerBatch, ReservingFails
    <3>2. BulkInv /\ EndedItems = Position
      BY <3>1, AllItemsEnded DEF AnswerInv, ThreadsBelongToExecutor, CallInv
    <3>3. Promise!IsParallelAnswer(BatchAnswer, Position, executor_error)
      BY <3>2, BatchAnswerKeepsPromise
    <3>4. CASE AnswerBatch
      <4>1. result' = BatchAnswer
        BY <3>4 DEF AnswerBatch
      <4> QED
        BY <3>1, <3>3, <4>1 DEF Promise!IsParallelAnswer, Promise!Failed, Promise!Values
    <3>5. CASE ReservingFails
      <4>1. BatchAnswer = Promise!Values /\ result' = Failure(AllocationFailure)
        BY <3>2, <3>5, ValuesAnswer DEF ReservingFails
      <4> QED
        BY <3>1, <3>3, <4>1 DEF Promise!IsParallelAnswer, Promise!Failed, Promise!Values
    <3> QED BY <2>6, <3>4, <3>5
  <2>7. CASE UNCHANGED vars
    BY <2>7 DEF vars, bulk_vars, AnswerInv, AnswerIsDeterministic, Promise!IsParallelAnswer,
                Promise!Failed, Promise!Values
  <2> QED BY <2>2, <2>3, <2>4, <2>5, <2>6, <2>7 DEF Next
<1> QED BY <1>1, <1>2 DEF AnswerInv

\* Once the executor covered every position the answer is a function of what
\* the items do and of the executor's own report, whatever the order in which
\* the threads ran them (execute_batch in batch_executor.h).
THEOREM BatchAnswerIsDeterministic == Spec => []AnswerIsDeterministic
<1>1. Init => AnswerInv
  <2> SUFFICES ASSUME Init PROVE AnswerInv
    OBVIOUS
  <2>1. BulkInv /\ call = "called" /\ result = Pending
    BY BulkInvInit DEF Init
  <2>2. ThreadsBelongToExecutor
    BY <2>1 DEF Init, BulkInit, Idle, ThreadsBelongToExecutor
  <2> QED BY <2>1, <2>2 DEF AnswerInv, CallInv, AnswerIsDeterministic
<1>2. AnswerInv /\ [Next]_vars => AnswerInv'
  BY AnswerStep
<1>3. AnswerInv => AnswerIsDeterministic
  BY DEF AnswerInv
<1> QED BY <1>1, <1>2, <1>3, PTL DEF Spec
=============================================================================
