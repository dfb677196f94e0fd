---------------------------- MODULE DispatchQueue ----------------------------
(***************************************************************************)
(* The in-memory queue that limits how many MPC requests are in flight     *)
(* (service/dispatch_queue.go).  Every method takes the mutex for its      *)
(* whole body, so each is one atomic operator here: it maps a queue        *)
(*     [pending : Seq(Id), inflight : SUBSET Id]                           *)
(* to the new queue and to next, the ids its caller must now dispatch.     *)
(* The ids are fresh UUIDs: none is pushed twice.                          *)
(***************************************************************************)
EXTENDS Integers, FiniteSets, SequencesExt

EmptyQueue == [pending |-> <<>>, inflight |-> {}]

\* A limit that was never set counts as one.
EffectiveLimit(limit) == IF limit < 1 THEN 1 ELSE limit

\* Mutation: the loop compares with <= and takes one slot too many.
SlotsOffByOne(q, limit) ==
  LET free == EffectiveLimit(limit) + 1 - Cardinality(q.inflight)
  IN  IF Len(q.pending) <= free THEN Len(q.pending) ELSE free

\* The iterations of drain's loop: every waiting id, or as many as slots are free.
Slots(q, limit) ==
  LET free == EffectiveLimit(limit) - Cardinality(q.inflight)
  IN  IF Len(q.pending) <= free THEN Len(q.pending) ELSE free

\* Mutation: the newest waiting ids are taken first.
drainNewest(q, limit) ==
  LET old == Len(q.pending) - Slots(q, limit)
      next == SubSeq(q.pending, old + 1, Len(q.pending))
  IN  [queue |-> [pending  |-> SubSeq(q.pending, 1, old),
                  inflight |-> q.inflight \cup ToSet(next)],
       next  |-> next]

drain(q, limit) ==
  LET next == SubSeq(q.pending, 1, Slots(q, limit))
  IN  [queue |-> [pending  |-> SubSeq(q.pending, Len(next) + 1, Len(q.pending)),
                  inflight |-> q.inflight \cup ToSet(next)],
       next  |-> next]

push(q, limit, id) == drain([q EXCEPT !.pending = Append(@, id)], limit)

\* Mutation: the slot is freed and nobody looks at the line.
doneWithoutDrain(q, limit, id) == [queue |-> [q EXCEPT !.inflight = @ \ {id}], next |-> <<>>]

\* Only an id that holds a slot frees one, so finishing twice is harmless.
done(q, limit, id) ==
  IF id \in q.inflight
  THEN drain([q EXCEPT !.inflight = @ \ {id}], limit)
  ELSE [queue |-> q, next |-> <<>>]
==============================================================================
