------------------------- MODULE DispatchQueueProofs -------------------------
(***************************************************************************)
(* The dispatch queue keeps its promises for every set of ids and every    *)
(* limit: it never exceeds the limit, it is first in, first out, and it    *)
(* leaves no slot idle while somebody waits.                               *)
(***************************************************************************)
EXTENDS DispatchQueueClients, DispatchQueueLemmas

\* Inductive: FirstInFirstOut with distinct pushes makes the waiting ids distinct,
\* and that is what makes a drained queue full when somebody still waits.
IInv ==
  /\ queue \in Queues(Id, Limit)
  /\ pushed \in Seq(Id)
  /\ dispatched \in Seq(Id)
  /\ FirstInFirstOut
  /\ NoIdleSlot
  /\ NoRepeats(queue)
  /\ queue.inflight \subseteq ToSet(pushed)

\* The methods keep what the history variables say.
LEMMA Dispatched ==
  ASSUME NEW next \in Seq(Id), NEW rest \in Seq(Id), IInv
  PROVE  /\ dispatched \o next \in Seq(Id)
         /\ (dispatched \o next) \o rest = dispatched \o (next \o rest)
BY ConcatProperties, ConcatAssociative DEF IInv

LEMMA Waiting ==
  ASSUME IInv
  PROVE  ToSet(queue.pending) \subseteq ToSet(pushed)
<1>1. queue.pending \in Seq(Id) /\ dispatched \in Seq(Id) /\ dispatched \o queue.pending = pushed
  BY DEF IInv, FirstInFirstOut, Queues
<1>2. ToSet(dispatched \o queue.pending) = ToSet(dispatched) \cup ToSet(queue.pending)
  BY <1>1, ToSetConcat
<1> QED
  BY <1>1, <1>2

LEMMA InitIInv == Init => IInv
<1> SUFFICES ASSUME Init
             PROVE  IInv
  OBVIOUS
<1>1. /\ EmptyQueue \in Queues(Id, Limit)
      /\ NoRepeats(EmptyQueue)
      /\ EmptyQueue.pending = <<>>
      /\ EmptyQueue.inflight = {}
  BY EmptyQueueProperties, LimitAssumption
<1>2. <<>> \in Seq(Id) /\ <<>> \o <<>> = <<>>
  BY EmptySeq, ConcatEmptySeq
<1> QED
  BY <1>1, <1>2 DEF Init, IInv, FirstInFirstOut, NoIdleSlot

LEMMA PushIInv ==
  ASSUME NEW id \in Id, IInv, Push(id)
  PROVE  IInv'
<1> DEFINE r == push(queue, Limit, id)
<1>1. Pushed(queue, id, r, Id, Limit)
  BY PushProperties, LimitAssumption DEF IInv
<1> HIDE DEF r
<1>2. /\ id \notin ToSet(pushed)
      /\ queue' = r.queue
      /\ dispatched' = dispatched \o r.next
      /\ pushed' = Append(pushed, id)
  BY DEF Push, r
<1>3. /\ queue.pending \in Seq(Id)
      /\ r.queue.pending \in Seq(Id)
      /\ r.next \in Seq(Id)
  BY <1>1 DEF IInv, Queues, Pushed
<1>4. pushed' \in Seq(Id) /\ ToSet(pushed') = ToSet(pushed) \cup {id}
  BY <1>2, AppendProperties, ToSetAppend DEF IInv
<1>5. FirstInFirstOut'
  <2>1. dispatched' \o r.queue.pending = dispatched \o Append(queue.pending, id)
    BY <1>1, <1>2, <1>3, Dispatched DEF Pushed
  <2> DEFINE one == <<id>>
  <2>2. /\ Append(queue.pending, id) = queue.pending \o one
        /\ Append(pushed, id) = pushed \o one
        /\ one \in Seq(Id)
        /\ dispatched \in Seq(Id)
    BY <1>3, AppendIsConcat DEF IInv
  <2> HIDE DEF one
  <2>3. dispatched \o (queue.pending \o one) = (dispatched \o queue.pending) \o one
    BY <1>3, <2>2, Dispatched
  <2> QED
    BY <1>2, <2>1, <2>2, <2>3 DEF FirstInFirstOut, IInv
<1>6. id \notin queue.inflight \cup ToSet(queue.pending)
  BY <1>2, Waiting DEF IInv
<1>7. NoRepeats(queue') /\ NoIdleSlot'
  BY <1>1, <1>2, <1>6 DEF IInv, Pushed, NoIdleSlot
<1>8. ToSet(r.next) \subseteq ToSet(pushed')
  <2>1. ToSet(r.next \o r.queue.pending) = ToSet(r.next) \cup ToSet(r.queue.pending)
    BY <1>3, ToSetConcat
  <2>2. ToSet(Append(queue.pending, id)) = ToSet(queue.pending) \cup {id}
    BY <1>3, ToSetAppend
  <2> QED
    BY <1>1, <1>4, <2>1, <2>2, Waiting DEF Pushed
<1>9. dispatched' \in Seq(Id)
  BY <1>2, <1>3, Dispatched
<1> QED
  BY <1>1, <1>2, <1>4, <1>5, <1>7, <1>8, <1>9 DEF IInv, Pushed

LEMMA DoneIInv ==
  ASSUME NEW id \in Id, IInv, Done(id)
  PROVE  IInv'
<1> DEFINE r == done(queue, Limit, id)
<1>1. Finished(queue, id, r, Id, Limit)
  BY DoneProperties, LimitAssumption DEF IInv
<1> HIDE DEF r
<1>2. /\ queue' = r.queue
      /\ dispatched' = dispatched \o r.next
      /\ pushed' = pushed
  BY DEF Done, r
<1>3. /\ queue.pending \in Seq(Id)
      /\ r.queue.pending \in Seq(Id)
      /\ r.next \in Seq(Id)
  BY <1>1 DEF IInv, Queues, Finished
<1>4. FirstInFirstOut'
  <2>1. dispatched' \o r.queue.pending = dispatched \o queue.pending
    BY <1>1, <1>2, <1>3, Dispatched DEF Finished
  <2> QED
    BY <1>2, <2>1 DEF FirstInFirstOut, IInv
<1>5. NoRepeats(queue') /\ NoIdleSlot'
  BY <1>1, <1>2 DEF IInv, Finished, NoIdleSlot
<1>6. ToSet(r.next) \subseteq ToSet(pushed)
  <2>1. ToSet(r.next \o r.queue.pending) = ToSet(r.next) \cup ToSet(r.queue.pending)
    BY <1>3, ToSetConcat
  <2> QED
    BY <1>1, <2>1, Waiting DEF Finished
<1>7. dispatched' \in Seq(Id)
  BY <1>2, <1>3, Dispatched
<1> QED
  BY <1>1, <1>2, <1>4, <1>5, <1>6, <1>7 DEF IInv, Finished

LEMMA Inductive == Spec => []IInv
<1>1. IInv /\ [Next]_vars => IInv'
  <2> SUFFICES ASSUME IInv, [Next]_vars
               PROVE  IInv'
    OBVIOUS
  <2>1. ASSUME NEW id \in Id, Push(id)
        PROVE  IInv'
    BY <2>1, PushIInv
  <2>2. ASSUME NEW id \in Id, Done(id)
        PROVE  IInv'
    BY <2>2, DoneIInv
  <2>3. CASE UNCHANGED vars
    BY <2>3 DEF vars, IInv, FirstInFirstOut, NoIdleSlot
  <2> QED
    BY <2>1, <2>2, <2>3 DEF Next
<1> QED
  BY InitIInv, <1>1, PTL DEF Spec

\* The variables keep their types.
THEOREM TypeCorrect == Spec => []TypeOK
<1>1. IInv => TypeOK
  BY DEF IInv, TypeOK, Queues
<1> QED
  BY <1>1, Inductive, PTL

\* However many requests arrive, and whatever late and repeated results and timers
\* finish them, no more are in flight than the limit (dispatch_queue.go).
THEOREM NeverFlooded == Spec => []InflightWithinLimit
<1>1. IInv => InflightWithinLimit
  BY DEF IInv, InflightWithinLimit, Queues
<1> QED
  BY <1>1, Inductive, PTL

\* Ids are handed out in the order of their arrival, none twice and none lost.
THEOREM InOrder == Spec => []FirstInFirstOut
<1>1. IInv => FirstInFirstOut
  BY DEF IInv
<1> QED
  BY <1>1, Inductive, PTL

\* No wakeup is missed: whenever an id waits, every slot is taken.
THEOREM NeverIdle == Spec => []NoIdleSlot
<1>1. IInv => NoIdleSlot
  BY DEF IInv
<1> QED
  BY <1>1, Inductive, PTL
==============================================================================
