------------------------ MODULE DispatchQueueClients -------------------------
(***************************************************************************)
(* The dispatch queue under any number of goroutines: requests push their  *)
(* own fresh id, results and timers finish any id at any moment, late and  *)
(* repeated calls included.  pushed and dispatched record the order of the *)
(* calls and of the ids that were handed out.                              *)
(***************************************************************************)
EXTENDS DispatchQueue

CONSTANTS Id,     \* the ids that requests push
          Limit   \* the limit field of the queue

ASSUME LimitAssumption == Limit \in Int

VARIABLES queue, pushed, dispatched
vars == <<queue, pushed, dispatched>>

TypeOK ==
  /\ queue \in [pending : Seq(Id), inflight : SUBSET Id]
  /\ pushed \in Seq(Id)
  /\ dispatched \in Seq(Id)

Init ==
  /\ queue = EmptyQueue
  /\ pushed = <<>>
  /\ dispatched = <<>>

Push(id) ==
  /\ id \notin ToSet(pushed)
  /\ LET result == push(queue, Limit, id)
     IN  /\ queue' = result.queue
         /\ dispatched' = dispatched \o result.next
  /\ pushed' = Append(pushed, id)

Done(id) ==
  /\ LET result == done(queue, Limit, id)
     IN  /\ queue' = result.queue
         /\ dispatched' = dispatched \o result.next
  /\ UNCHANGED pushed

Next == \E id \in Id : Push(id) \/ Done(id)

\* Every dispatched request ends: it succeeds, fails or runs into its timer.
Fairness == \A id \in Id : WF_vars(id \in queue.inflight /\ Done(id))

Spec == Init /\ [][Next]_vars /\ Fairness
------------------------------------------------------------------------------
\* Bursts never flood the cluster: no interleaving of push and done, repeated
\* and late ones included, puts more requests in flight than the limit.
InflightWithinLimit == Cardinality(queue.inflight) <= EffectiveLimit(Limit)

\* Ids are handed out in the order they were pushed: none is lost, none is
\* handed out twice, none overtakes another (drain takes the head of pending).
FirstInFirstOut == dispatched \o queue.pending = pushed

\* A request waits only while every slot is taken: done drains the queue each
\* time it frees a slot, so no wakeup is missed.
NoIdleSlot ==
  queue.pending # <<>> => Cardinality(queue.inflight) = EffectiveLimit(Limit)

\* Every pushed id is handed out in the end.
EventuallyDispatched ==
  \A id \in Id : id \in ToSet(pushed) ~> id \in ToSet(dispatched)
==============================================================================
