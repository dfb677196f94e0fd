------------------------- MODULE DispatchQueueLemmas -------------------------
(***************************************************************************)
(* What the methods of the dispatch queue return, for every set of ids and *)
(* every limit.  The proofs about DispatchQueueClients and about Signing   *)
(* rest on these lemmas and never expand drain themselves.                 *)
(***************************************************************************)
EXTENDS DispatchQueue, FiniteSetTheorems, SequenceTheorems, TLAPS

\* The queues that the lemmas are about: finitely many ids of S in flight, no more
\* than the limit allows.
Queues(S, limit) ==
  {q \in [pending : Seq(S), inflight : SUBSET S] :
     IsFiniteSet(q.inflight) /\ Cardinality(q.inflight) <= EffectiveLimit(limit)}

\* The ids that wait are pairwise different and none of them is in flight.
NoRepeats(q) ==
  /\ \A i, j \in 1 .. Len(q.pending) : q.pending[i] = q.pending[j] => i = j
  /\ \A i \in 1 .. Len(q.pending) : q.pending[i] \notin q.inflight

LEMMA LimitIsPositive ==
  ASSUME NEW limit \in Int
  PROVE  EffectiveLimit(limit) \in Nat \ {0}
BY DEF EffectiveLimit

\* The slots that drain fills: none below zero, at most what waits and what is free.
LEMMA SlotsBounds ==
  ASSUME NEW S, NEW limit \in Int, NEW q \in Queues(S, limit)
  PROVE  /\ Slots(q, limit) \in 0 .. Len(q.pending)
         /\ Cardinality(q.inflight) \in Nat
         /\ Cardinality(q.inflight) + Slots(q, limit) <= EffectiveLimit(limit)
         /\ Slots(q, limit) < Len(q.pending)
              => Cardinality(q.inflight) + Slots(q, limit) = EffectiveLimit(limit)
<1>1. Cardinality(q.inflight) \in Nat
  BY FS_CardinalityType DEF Queues
<1>2. Len(q.pending) \in Nat
  BY LenProperties DEF Queues
<1>3. Cardinality(q.inflight) <= EffectiveLimit(limit) /\ EffectiveLimit(limit) \in Nat
  BY LimitIsPositive DEF Queues
<1>4. Slots(q, limit) = IF Len(q.pending) <= EffectiveLimit(limit) - Cardinality(q.inflight)
                        THEN Len(q.pending) ELSE EffectiveLimit(limit) - Cardinality(q.inflight)
  BY DEF Slots
<1> QED
  BY <1>1, <1>2, <1>3, <1>4

\* A sequence has at most as many elements as positions, and as many when no
\* element repeats.
LEMMA ToSetCardinality ==
  ASSUME NEW S, NEW s \in Seq(S)
  PROVE  /\ ToSet(s) \subseteq S
         /\ IsFiniteSet(ToSet(s))
         /\ Cardinality(ToSet(s)) <= Len(s)
         /\ (\A i, j \in 1 .. Len(s) : s[i] = s[j] => i = j)
              => Cardinality(ToSet(s)) = Len(s)
<1>1. /\ Len(s) \in Nat
      /\ DOMAIN s = 1 .. Len(s)
      /\ s \in [1 .. Len(s) -> S]
  BY LenProperties
<1>2. s \in Surjection(1 .. Len(s), ToSet(s))
  BY <1>1 DEF Surjection, ToSet
<1>3. IsFiniteSet(1 .. Len(s)) /\ Cardinality(1 .. Len(s)) = Len(s)
  BY <1>1, FS_Interval
<1>4. /\ IsFiniteSet(ToSet(s))
      /\ Cardinality(ToSet(s)) <= Cardinality(1 .. Len(s))
      /\ Cardinality(ToSet(s)) = Cardinality(1 .. Len(s))
           <=> s \in Injection(1 .. Len(s), ToSet(s))
  BY <1>2, <1>3, FS_Surjection
<1>5. (\A i, j \in 1 .. Len(s) : s[i] = s[j] => i = j) => s \in Injection(1 .. Len(s), ToSet(s))
  BY <1>1, <1>2 DEF Surjection, Injection, IsInjective
<1>6. ToSet(s) \subseteq S
  BY <1>1 DEF ToSet
<1> QED
  BY <1>3, <1>4, <1>5, <1>6

\* What drain makes of the queue q: it takes the first waiting ids, and stops only
\* when nobody waits or no slot is free.
Drained(q, r, S, limit) ==
  /\ r.queue \in Queues(S, limit)
  /\ r.next \in Seq(S)
  /\ r.next \o r.queue.pending = q.pending
  /\ r.queue.inflight = q.inflight \cup ToSet(r.next)
  /\ NoRepeats(q) => NoRepeats(r.queue)
  /\ NoRepeats(q) /\ r.queue.pending # <<>>
       => Cardinality(r.queue.inflight) = EffectiveLimit(limit)

LEMMA DrainProperties ==
  ASSUME NEW S, NEW limit \in Int, NEW q \in Queues(S, limit)
  PROVE  Drained(q, drain(q, limit), S, limit)
<1> DEFINE n    == Slots(q, limit)
           next == SubSeq(q.pending, 1, n)
           rest == SubSeq(q.pending, n + 1, Len(q.pending))
<1>1. q \in [pending : Seq(S), inflight : SUBSET S] /\ IsFiniteSet(q.inflight)
  BY DEF Queues
<1>2. /\ n \in 0 .. Len(q.pending)
      /\ Cardinality(q.inflight) \in Nat
      /\ Cardinality(q.inflight) + n <= EffectiveLimit(limit)
      /\ n < Len(q.pending) => Cardinality(q.inflight) + n = EffectiveLimit(limit)
  BY SlotsBounds
<1>3. Len(q.pending) \in Nat /\ \A i \in 1 .. Len(q.pending) : q.pending[i] \in S
  BY <1>1, LenProperties, ElementOfSeq
<1> HIDE DEF n
<1>4. /\ next \in Seq(S)
      /\ Len(next) = n
      /\ \A i \in 1 .. n : next[i] = q.pending[i]
  BY <1>2, <1>3, SubSeqProperties
<1>5. /\ rest \in Seq(S)
      /\ Len(rest) = Len(q.pending) - n
      /\ \A i \in 1 .. Len(q.pending) - n : rest[i] = q.pending[n + i]
  BY <1>2, <1>3, SubSeqProperties
<1>6. drain(q, limit) = [queue |-> [pending |-> rest, inflight |-> q.inflight \cup ToSet(next)],
                         next  |-> next]
  BY <1>4 DEF drain, n
<1> HIDE DEF next, rest
<1>7. next \o rest = q.pending
  <2>1. /\ next \o rest \in Seq(S)
        /\ Len(next \o rest) = Len(next) + Len(rest)
        /\ \A i \in 1 .. Len(next) + Len(rest) :
             (next \o rest)[i] = IF i <= Len(next) THEN next[i] ELSE rest[i - Len(next)]
    BY <1>4, <1>5, ConcatProperties
  <2>2. Len(next) + Len(rest) = Len(q.pending)
    BY <1>2, <1>3, <1>4, <1>5
  <2>3. \A i \in 1 .. Len(q.pending) : (next \o rest)[i] = q.pending[i]
    <3> SUFFICES ASSUME NEW i \in 1 .. Len(q.pending)
                 PROVE  (next \o rest)[i] = q.pending[i]
      OBVIOUS
    <3>0. (next \o rest)[i] = IF i <= n THEN next[i] ELSE rest[i - n]
      BY <1>4, <2>1, <2>2
    <3>1. CASE i <= n
      <4>1. i \in 1 .. n
        BY <1>2, <1>3, <3>1
      <4> QED
        BY <1>4, <3>0, <3>1, <4>1
    <3>2. CASE i > n
      <4>1. i - n \in 1 .. Len(q.pending) - n /\ n + (i - n) = i /\ ~(i <= n)
        BY <1>2, <1>3, <3>2
      <4>2. rest[i - n] = q.pending[n + (i - n)]
        BY <1>5, <4>1
      <4> QED
        BY <3>0, <4>1, <4>2
    <3>3. i <= n \/ i > n
      BY <1>2, <1>3
    <3> QED
      BY <3>1, <3>2, <3>3
  <2> QED
    BY <1>1, <2>1, <2>2, <2>3, SeqEqual
<1>8. /\ ToSet(next) \subseteq S
      /\ IsFiniteSet(ToSet(next))
      /\ Cardinality(ToSet(next)) <= n
      /\ (\A i, j \in 1 .. n : next[i] = next[j] => i = j) => Cardinality(ToSet(next)) = n
      /\ ToSet(next) = {next[i] : i \in 1 .. n}
  <2>1. /\ ToSet(next) \subseteq S
        /\ IsFiniteSet(ToSet(next))
        /\ Cardinality(ToSet(next)) <= Len(next)
        /\ (\A i, j \in 1 .. Len(next) : next[i] = next[j] => i = j)
             => Cardinality(ToSet(next)) = Len(next)
    BY <1>4, ToSetCardinality
  <2>2. DOMAIN next = 1 .. Len(next)
    BY <1>4, LenProperties
  <2> QED
    BY <1>4, <2>1, <2>2 DEF ToSet
<1>9. /\ IsFiniteSet(q.inflight \cup ToSet(next))
      /\ Cardinality(q.inflight \cup ToSet(next)) =
           Cardinality(q.inflight) + Cardinality(ToSet(next)) - Cardinality(q.inflight \cap ToSet(next))
      /\ Cardinality(q.inflight \cap ToSet(next)) \in Nat
      /\ q.inflight \cap ToSet(next) = {} => Cardinality(q.inflight \cap ToSet(next)) = 0
      /\ Cardinality(ToSet(next)) \in Nat
  <2>1. IsFiniteSet(q.inflight \cap ToSet(next))
    BY <1>1, FS_Subset
  <2> QED
    BY <1>1, <1>8, <2>1, FS_Union, FS_EmptySet, FS_CardinalityType
<1>10. Cardinality(q.inflight \cup ToSet(next)) <= EffectiveLimit(limit)
  BY <1>2, <1>8, <1>9, LimitIsPositive
<1>11. [pending |-> rest, inflight |-> q.inflight \cup ToSet(next)] \in Queues(S, limit)
  BY <1>1, <1>5, <1>8, <1>9, <1>10 DEF Queues
<1>12. \A i \in 1 .. Len(rest) : n + i \in 1 .. Len(q.pending) /\ rest[i] = q.pending[n + i]
  BY <1>2, <1>3, <1>5
<1>13. \A k \in 1 .. n : k \in 1 .. Len(q.pending) /\ next[k] = q.pending[k]
  BY <1>2, <1>3, <1>4
<1>14. ASSUME NoRepeats(q)
       PROVE  NoRepeats([pending |-> rest, inflight |-> q.inflight \cup ToSet(next)])
  <2>1. ASSUME NEW i \in 1 .. Len(rest), NEW j \in 1 .. Len(rest), rest[i] = rest[j]
        PROVE  i = j
    <3>1. n + i = n + j
      BY <1>12, <1>14, <2>1 DEF NoRepeats
    <3> QED
      BY <1>2, <1>3, <1>5, <3>1
  <2>2. ASSUME NEW i \in 1 .. Len(rest)
        PROVE  rest[i] \notin q.inflight
    BY <1>12, <1>14 DEF NoRepeats
  <2>3. ASSUME NEW i \in 1 .. Len(rest), NEW k \in 1 .. n
        PROVE  rest[i] # next[k]
    <3>1. n + i # k
      BY <1>2, <1>3, <1>5
    <3> QED
      BY <1>12, <1>13, <1>14, <3>1 DEF NoRepeats
  <2> QED
    BY <1>8, <2>1, <2>2, <2>3 DEF NoRepeats
<1>15. ASSUME NoRepeats(q), rest # <<>>
       PROVE  Cardinality(q.inflight \cup ToSet(next)) = EffectiveLimit(limit)
  <2>1. n < Len(q.pending)
    BY <1>2, <1>3, <1>5, <1>15, EmptySeq
  <2>2. \A i, j \in 1 .. n : next[i] = next[j] => i = j
    BY <1>13, <1>15 DEF NoRepeats
  <2>3. q.inflight \cap ToSet(next) = {}
    BY <1>8, <1>13, <1>15 DEF NoRepeats
  <2>4. /\ Cardinality(ToSet(next)) = n
        /\ Cardinality(q.inflight \cap ToSet(next)) = 0
    BY <1>8, <1>9, <2>2, <2>3
  <2>5. EffectiveLimit(limit) \in Nat
    BY LimitIsPositive
  <2> QED
    BY <1>2, <1>3, <1>9, <2>1, <2>4, <2>5
<1> DEFINE queue == [pending |-> rest, inflight |-> q.inflight \cup ToSet(next)]
<1>16. /\ drain(q, limit).queue = queue
       /\ drain(q, limit).next = next
       /\ queue.pending = rest
       /\ queue.inflight = q.inflight \cup ToSet(next)
  BY <1>6
<1> HIDE DEF queue
<1> QED
  BY <1>4, <1>7, <1>11, <1>14, <1>15, <1>16 DEF Drained, queue

LEMMA ToSetConcat ==
  ASSUME NEW S, NEW s \in Seq(S), NEW t \in Seq(S)
  PROVE  ToSet(s \o t) = ToSet(s) \cup ToSet(t)
<1>1. /\ s \o t \in Seq(S)
      /\ Len(s \o t) = Len(s) + Len(t)
      /\ \A i \in 1 .. Len(s) + Len(t) : (s \o t)[i] = IF i <= Len(s) THEN s[i] ELSE t[i - Len(s)]
  BY ConcatProperties
<1>2. /\ Len(s) \in Nat /\ DOMAIN s = 1 .. Len(s)
      /\ Len(t) \in Nat /\ DOMAIN t = 1 .. Len(t)
      /\ DOMAIN (s \o t) = 1 .. Len(s) + Len(t)
  BY <1>1, LenProperties
<1>3. ASSUME NEW i \in 1 .. Len(s) + Len(t)
      PROVE  (s \o t)[i] \in ToSet(s) \cup ToSet(t)
  <2>1. CASE i <= Len(s)
    <3>1. i \in 1 .. Len(s)
      BY <1>2, <2>1
    <3>2. (s \o t)[i] = s[i]
      BY <1>1, <2>1
    <3> QED
      BY <1>2, <3>1, <3>2 DEF ToSet
  <2>2. CASE ~(i <= Len(s))
    <3>1. i - Len(s) \in 1 .. Len(t)
      BY <1>2, <2>2
    <3>2. (s \o t)[i] = t[i - Len(s)]
      BY <1>1, <2>2
    <3> QED
      BY <1>2, <3>1, <3>2 DEF ToSet
  <2> QED
    BY <2>1, <2>2
<1>4. ASSUME NEW i \in 1 .. Len(s)
      PROVE  s[i] \in ToSet(s \o t)
  <2>1. i \in 1 .. Len(s) + Len(t) /\ (s \o t)[i] = s[i]
    BY <1>1, <1>2
  <2> QED
    BY <1>2, <2>1 DEF ToSet
<1>5. ASSUME NEW i \in 1 .. Len(t)
      PROVE  t[i] \in ToSet(s \o t)
  <2>1. Len(s) + i \in 1 .. Len(s) + Len(t) /\ ~(Len(s) + i <= Len(s)) /\ (Len(s) + i) - Len(s) = i
    BY <1>2
  <2> QED
    BY <1>1, <1>2, <2>1 DEF ToSet
<1>6. ToSet(s \o t) \subseteq ToSet(s) \cup ToSet(t)
  BY <1>2, <1>3 DEF ToSet
<1>7. ToSet(s) \subseteq ToSet(s \o t) /\ ToSet(t) \subseteq ToSet(s \o t)
  BY <1>2, <1>4, <1>5 DEF ToSet
<1> QED
  BY <1>6, <1>7

LEMMA ToSetAppend ==
  ASSUME NEW S, NEW s \in Seq(S), NEW e \in S
  PROVE  ToSet(Append(s, e)) = ToSet(s) \cup {e}
<1>1. Append(s, e) = s \o <<e>> /\ <<e>> \in Seq(S)
  BY AppendIsConcat
<1>2. ToSet(<<e>>) = {e}
  BY DEF ToSet
<1>3. ToSet(s \o <<e>>) = ToSet(s) \cup ToSet(<<e>>)
  BY <1>1, ToSetConcat
<1> QED
  BY <1>1, <1>2, <1>3

\* What push makes of q: id joins the line at its end before it is drained.
Pushed(q, id, r, S, limit) ==
  /\ r.queue \in Queues(S, limit)
  /\ r.next \in Seq(S)
  /\ r.next \o r.queue.pending = Append(q.pending, id)
  /\ r.queue.inflight = q.inflight \cup ToSet(r.next)
  /\ NoRepeats(q) /\ id \notin q.inflight \cup ToSet(q.pending)
       => /\ NoRepeats(r.queue)
          /\ r.queue.pending # <<>> => Cardinality(r.queue.inflight) = EffectiveLimit(limit)

LEMMA PushProperties ==
  ASSUME NEW S, NEW limit \in Int, NEW q \in Queues(S, limit), NEW id \in S
  PROVE  Pushed(q, id, push(q, limit, id), S, limit)
<1> DEFINE longer == [q EXCEPT !.pending = Append(@, id)]
<1>1. q \in [pending : Seq(S), inflight : SUBSET S]
  BY DEF Queues
<1>2. longer.pending = Append(q.pending, id) /\ longer.inflight = q.inflight
  BY <1>1
<1>3. longer \in Queues(S, limit)
  BY <1>1, AppendProperties DEF Queues
<1>4. ASSUME NoRepeats(q), id \notin q.inflight \cup ToSet(q.pending)
      PROVE  NoRepeats(longer)
  <2>1. /\ Len(q.pending) \in Nat
        /\ DOMAIN q.pending = 1 .. Len(q.pending)
        /\ Len(longer.pending) = Len(q.pending) + 1
        /\ \A i \in 1 .. Len(q.pending) : longer.pending[i] = q.pending[i]
        /\ longer.pending[Len(q.pending) + 1] = id
    BY <1>1, <1>2, LenProperties, AppendProperties
  <2>2. \A i \in 1 .. Len(q.pending) : q.pending[i] # id
    BY <1>4, <2>1 DEF ToSet
  <2>3. \A i \in 1 .. Len(q.pending) + 1 : i \in 1 .. Len(q.pending) \/ i = Len(q.pending) + 1
    BY <2>1
  <2> HIDE DEF longer
  <2>4. \A i \in 1 .. Len(longer.pending) : longer.pending[i] \notin longer.inflight
    BY <1>2, <1>4, <2>1, <2>3 DEF NoRepeats
  <2>5. \A i, j \in 1 .. Len(longer.pending) : longer.pending[i] = longer.pending[j] => i = j
    BY <1>4, <2>1, <2>2, <2>3 DEF NoRepeats
  <2> QED
    BY <2>4, <2>5 DEF NoRepeats
<1>5. push(q, limit, id) = drain(longer, limit)
  BY DEF push
<1> HIDE DEF longer
<1> DEFINE r == drain(longer, limit)
<1>6. Drained(longer, r, S, limit)
  BY <1>3, DrainProperties
<1> HIDE DEF r
<1>7. push(q, limit, id) = r
  BY <1>5 DEF r
<1> QED
  BY <1>2, <1>4, <1>6, <1>7 DEF Drained, Pushed

\* What done makes of q: the slot of id goes to the head of the line, and nothing
\* changes when id holds none.
Finished(q, id, r, S, limit) ==
  /\ r.queue \in Queues(S, limit)
  /\ r.next \in Seq(S)
  /\ r.next \o r.queue.pending = q.pending
  /\ r.queue.inflight = (q.inflight \ {id}) \cup ToSet(r.next)
  /\ NoRepeats(q) => NoRepeats(r.queue)
  /\ NoRepeats(q) /\ (q.pending # <<>> => Cardinality(q.inflight) = EffectiveLimit(limit))
       => (r.queue.pending # <<>> => Cardinality(r.queue.inflight) = EffectiveLimit(limit))

LEMMA DoneProperties ==
  ASSUME NEW S, NEW limit \in Int, NEW q \in Queues(S, limit), NEW id \in S
  PROVE  Finished(q, id, done(q, limit, id), S, limit)
<1>1. q \in [pending : Seq(S), inflight : SUBSET S] /\ IsFiniteSet(q.inflight)
  BY DEF Queues
<1>2. CASE id \in q.inflight
  <2> DEFINE fewer == [q EXCEPT !.inflight = @ \ {id}]
  <2>1. fewer.pending = q.pending /\ fewer.inflight = q.inflight \ {id}
    BY <1>1
  <2>2. /\ IsFiniteSet(q.inflight \ {id})
        /\ Cardinality(q.inflight \ {id}) = Cardinality(q.inflight) - 1
        /\ Cardinality(q.inflight) \in Nat
    BY <1>1, <1>2, FS_RemoveElement, FS_CardinalityType
  <2>3. Cardinality(q.inflight) <= EffectiveLimit(limit) /\ EffectiveLimit(limit) \in Nat
    BY LimitIsPositive DEF Queues
  <2>4. Cardinality(q.inflight \ {id}) <= EffectiveLimit(limit)
    BY <2>2, <2>3
  <2>5. fewer \in Queues(S, limit)
    BY <1>1, <2>2, <2>4 DEF Queues
  <2>6. NoRepeats(q) => NoRepeats(fewer)
    BY <1>1 DEF NoRepeats
  <2>7. done(q, limit, id) = drain(fewer, limit)
    BY <1>2 DEF done
  <2> HIDE DEF fewer
  <2> DEFINE r == drain(fewer, limit)
  <2>8. Drained(fewer, r, S, limit)
    BY <2>5, DrainProperties
  <2> HIDE DEF r
  <2>9. done(q, limit, id) = r
    BY <2>7 DEF r
  <2> QED
    BY <2>1, <2>6, <2>8, <2>9 DEF Drained, Finished
<1>3. CASE id \notin q.inflight
  <2>1. done(q, limit, id) = [queue |-> q, next |-> <<>>]
    BY <1>3 DEF done
  <2>2. <<>> \in Seq(S) /\ <<>> \o q.pending = q.pending /\ ToSet(<<>>) = {}
    BY <1>1, EmptySeq, ConcatEmptySeq DEF ToSet
  <2> QED
    BY <1>3, <2>1, <2>2 DEF Finished
<1> QED
  BY <1>2, <1>3

LEMMA EmptyQueueProperties ==
  ASSUME NEW S, NEW limit \in Int
  PROVE  /\ EmptyQueue \in Queues(S, limit)
         /\ NoRepeats(EmptyQueue)
         /\ EmptyQueue.pending = <<>>
         /\ EmptyQueue.inflight = {}
<1>1. IsFiniteSet({}) /\ Cardinality({}) = 0 /\ <<>> \in Seq(S) /\ Len(<<>>) = 0
  BY FS_EmptySet, EmptySeq
<1>2. EffectiveLimit(limit) \in Nat
  BY LimitIsPositive
<1>3. EmptyQueue.pending = <<>> /\ EmptyQueue.inflight = {}
  BY DEF EmptyQueue
<1>4. EmptyQueue \in Queues(S, limit)
  BY <1>1, <1>2 DEF EmptyQueue, Queues
<1>5. NoRepeats(EmptyQueue)
  BY <1>1, <1>3 DEF NoRepeats
<1> QED
  BY <1>3, <1>4, <1>5
==============================================================================
