---------------------------- MODULE KeygenProofs -----------------------------
(***************************************************************************)
(* For every set of wallets, every limit and any number of crashes and     *)
(* database errors, key generation keeps its types, leaks no slot, makes   *)
(* no wallet ready without a key, and stays within its slots while neither *)
(* the process nor the database has failed.                                *)
(***************************************************************************)
EXTENDS Keygen, DispatchQueueLemmas

TypeInv == TypeOK /\ queue \in Queues(Wallet, maxInflightKeygens)

\* NoSlotLeak made inductive: a wallet that is not yet in the queue has no slot.
SlotInv ==
  \A w \in queue.inflight :
    w \in timers \/ \E step \in Steps \ {"enqueue"} : <<w, step>> \in tasks

\* ReadyHasKey made inductive: only a successful answer starts the completion.
HasKey(w) ==
  status[w] = "ready" \/ <<w, "complete">> \in tasks => cluster[w] = "success"

KeyInv == \A w \in Wallet : HasKey(w)

\* Steps taken for a wallet that has left the line and not yet given its slot back.
Working == Steps \ {"enqueue", "release"}

Untouched(w) ==
  /\ cluster[w] = "idle"
  /\ w \notin timers
  /\ w \notin ToSet(queue.pending)
  /\ \A step \in Steps : <<w, step>> \notin tasks

\* A generating wallet that left the line holds a slot, and nobody is about to free it.
Held(w) ==
  /\ status[w] = "none" => Untouched(w)
  /\ status[w] = "generating" =>
       /\ <<w, "release">> \notin tasks
       /\ cluster[w] # "idle" \/ w \in timers \/ (\E step \in Working : <<w, step>> \in tasks)
            => w \in queue.inflight

\* OneKeygenAtATime made inductive; it is about the first life of the process.
HeldInv ==
  crashes = 0 /\ dbErrors = 0 =>
    mode = "up" /\ unreconciled = {} /\ \A w \in Wallet : Held(w)

IInv == TypeInv /\ SlotInv /\ KeyInv /\ HeldInv
------------------------------------------------------------------------------
(* Types and the limit of the queue.                                        *)

LEMMA QueueTypes ==
  ASSUME NEW w \in Wallet, TypeInv
  PROVE  LET p == push(queue, maxInflightKeygens, w)
             d == done(queue, maxInflightKeygens, w)
         IN  /\ p.queue \in Queues(Wallet, maxInflightKeygens)
             /\ ToSet(p.next) \subseteq Wallet
             /\ ToSet(p.next) \cup ToSet(p.queue.pending) = ToSet(queue.pending) \cup {w}
             /\ p.queue.inflight = queue.inflight \cup ToSet(p.next)
             /\ d.queue \in Queues(Wallet, maxInflightKeygens)
             /\ ToSet(d.next) \subseteq Wallet
             /\ ToSet(d.next) \cup ToSet(d.queue.pending) = ToSet(queue.pending)
             /\ d.queue.inflight = (queue.inflight \ {w}) \cup ToSet(d.next)
<1> DEFINE p == push(queue, maxInflightKeygens, w)
           d == done(queue, maxInflightKeygens, w)
<1>1. Pushed(queue, w, p, Wallet, maxInflightKeygens)
  BY PushProperties, KeygenAssumption DEF TypeInv
<1>2. Finished(queue, w, d, Wallet, maxInflightKeygens)
  BY DoneProperties, KeygenAssumption DEF TypeInv
<1> HIDE DEF p, d
<1>3. ToSet(p.next) \subseteq Wallet /\ ToSet(d.next) \subseteq Wallet
  BY <1>1, <1>2, ToSetCardinality DEF Pushed, Finished
<1>4. ToSet(p.next) \cup ToSet(p.queue.pending) = ToSet(queue.pending) \cup {w}
  <2>1. /\ queue.pending \in Seq(Wallet)
        /\ p.next \in Seq(Wallet)
        /\ p.queue.pending \in Seq(Wallet)
        /\ p.next \o p.queue.pending = Append(queue.pending, w)
    BY <1>1 DEF Pushed, Queues, TypeInv
  <2>2. ToSet(p.next \o p.queue.pending) = ToSet(p.next) \cup ToSet(p.queue.pending)
    BY <2>1, ToSetConcat
  <2>3. ToSet(Append(queue.pending, w)) = ToSet(queue.pending) \cup {w}
    BY <2>1, ToSetAppend
  <2> QED
    BY <2>1, <2>2, <2>3
<1>5. ToSet(d.next) \cup ToSet(d.queue.pending) = ToSet(queue.pending)
  <2>1. d.next \in Seq(Wallet) /\ d.queue.pending \in Seq(Wallet)
    BY <1>2 DEF Finished, Queues
  <2>2. ToSet(d.next \o d.queue.pending) = ToSet(d.next) \cup ToSet(d.queue.pending)
    BY <2>1, ToSetConcat
  <2>3. d.next \o d.queue.pending = queue.pending
    BY <1>2 DEF Finished
  <2> QED
    BY <2>2, <2>3
<1> QED
  BY <1>1, <1>2, <1>3, <1>4, <1>5 DEF Pushed, Finished, p, d

\* The two operations on the queue, without push and done.
LEMMA Enqueued ==
  ASSUME NEW w \in Wallet, TypeInv, enqueueKeygen(w)
  PROVE  \E next \in SUBSET Wallet :
           /\ queue' \in Queues(Wallet, maxInflightKeygens)
           /\ queue'.inflight = queue.inflight \cup next
           /\ next \cup ToSet(queue'.pending) = ToSet(queue.pending) \cup {w}
           /\ tasks' = (tasks \ {<<w, "enqueue">>}) \cup (next \X {"dispatch"})
<1> DEFINE next == ToSet(push(queue, maxInflightKeygens, w).next)
<1>1. /\ queue' = push(queue, maxInflightKeygens, w).queue
      /\ tasks' = (tasks \ {<<w, "enqueue">>}) \cup (next \X {"dispatch"})
  BY DEF enqueueKeygen
<1>2. /\ next \in SUBSET Wallet
      /\ queue' \in Queues(Wallet, maxInflightKeygens)
      /\ queue'.inflight = queue.inflight \cup next
      /\ next \cup ToSet(queue'.pending) = ToSet(queue.pending) \cup {w}
  BY <1>1, QueueTypes
<1> HIDE DEF next
<1> QED
  BY <1>1, <1>2

LEMMA Released ==
  ASSUME NEW w \in Wallet, TypeInv, keygenFinished(w)
  PROVE  \E next \in SUBSET Wallet :
           /\ queue' \in Queues(Wallet, maxInflightKeygens)
           /\ queue'.inflight = (queue.inflight \ {w}) \cup next
           /\ next \cup ToSet(queue'.pending) = ToSet(queue.pending)
           /\ tasks' = (tasks \ {<<w, "release">>}) \cup (next \X {"dispatch"})
<1> DEFINE next == ToSet(done(queue, maxInflightKeygens, w).next)
<1>1. /\ queue' = done(queue, maxInflightKeygens, w).queue
      /\ tasks' = (tasks \ {<<w, "release">>}) \cup (next \X {"dispatch"})
  BY DEF keygenFinished
<1>2. /\ next \in SUBSET Wallet
      /\ queue' \in Queues(Wallet, maxInflightKeygens)
      /\ queue'.inflight = (queue.inflight \ {w}) \cup next
      /\ next \cup ToSet(queue'.pending) = ToSet(queue.pending)
  BY <1>1, QueueTypes
<1> HIDE DEF next
<1> QED
  BY <1>1, <1>2

LEMMA InitTypes == Init => TypeInv
<1> SUFFICES ASSUME Init
             PROVE  TypeInv
  OBVIOUS
<1>1. EmptyQueue \in Queues(Wallet, maxInflightKeygens)
  BY EmptyQueueProperties, KeygenAssumption
<1>2. EmptyQueue \in [pending : Seq(Wallet), inflight : SUBSET Wallet]
  BY <1>1 DEF Queues
<1> QED
  BY <1>1, <1>2, KeygenAssumption DEF Init, TypeInv, TypeOK, Status

\* The UPDATE keeps the types of what it writes.
LEMMA StatusTypes ==
  ASSUME NEW w \in Wallet, NEW new \in Status, TypeInv, SetWalletStatus(w, new)
  PROVE  /\ status' \in [Wallet -> Status]
         /\ crashes' = crashes
         /\ dbErrors' \in 0 .. MaxDbErrors
BY KeygenAssumption DEF SetWalletStatus, bounds, TypeInv, TypeOK, Status

LEMMA NextTypes ==
  ASSUME TypeInv, [Next]_vars
  PROVE  TypeInv'
<1> USE KeygenAssumption DEF TypeInv, TypeOK, bounds
<1>1. ASSUME NEW w \in Wallet, provision(w)
      PROVE  TypeInv'
  BY <1>1 DEF provision, Steps, Status
<1>2. ASSUME NEW w \in Wallet, enqueueKeygen(w)
      PROVE  TypeInv'
  <2>1. PICK next \in SUBSET Wallet :
          /\ queue' \in Queues(Wallet, maxInflightKeygens)
          /\ tasks' = (tasks \ {<<w, "enqueue">>}) \cup (next \X {"dispatch"})
    BY <1>2, Enqueued
  <2>2. tasks' \subseteq Wallet \X Steps
    BY <2>1 DEF Steps
  <2> QED
    BY <1>2, <2>1, <2>2 DEF enqueueKeygen, Queues
<1>3. ASSUME NEW w \in Wallet, dispatchKeygen(w)
      PROVE  TypeInv'
  BY <1>3 DEF dispatchKeygen, Continue, Steps
<1>4. ASSUME NEW w \in Wallet, CreateKey(w)
      PROVE  TypeInv'
  <2>1. cluster' \in [Wallet -> {"idle", "asked"} \cup Results]
    BY <1>4 DEF CreateKey, Asked
  <2>2. tasks' \subseteq Wallet \X Steps /\ timers' \subseteq Wallet
    BY <1>4 DEF CreateKey, Continue, Steps
  <2> QED
    BY <1>4, <2>1, <2>2 DEF CreateKey
<1>5. ASSUME NEW w \in Wallet, failKeygen(w)
      PROVE  TypeInv'
  <2>1. SetWalletStatus(w, "failed") /\ tasks' \subseteq Wallet \X Steps
    BY <1>5 DEF failKeygen, Continue, Steps
  <2> QED
    BY <1>5, <2>1, StatusTypes DEF failKeygen, Status
<1>6. ASSUME NEW w \in Wallet, keygenFinished(w)
      PROVE  TypeInv'
  <2>1. PICK next \in SUBSET Wallet :
          /\ queue' \in Queues(Wallet, maxInflightKeygens)
          /\ tasks' = (tasks \ {<<w, "release">>}) \cup (next \X {"dispatch"})
    BY <1>6, Released
  <2>2. tasks' \subseteq Wallet \X Steps
    BY <2>1 DEF Steps
  <2> QED
    BY <1>6, <2>1, <2>2 DEF keygenFinished, Queues
<1>7. ASSUME NEW w \in Wallet, KeygenTimeout(w)
      PROVE  TypeInv'
  BY <1>7 DEF KeygenTimeout, Steps
<1>8. ASSUME NEW w \in Wallet, OnKeygenFailed(w)
      PROVE  TypeInv'
  <2>1. SetWalletStatus(w, "failed") /\ tasks' \subseteq Wallet \X Steps
    BY <1>8 DEF OnKeygenFailed, Steps
  <2>2. cluster' \in [Wallet -> {"idle", "asked"} \cup Results]
    BY <1>8 DEF OnKeygenFailed, Answer, Results
  <2> QED
    BY <1>8, <2>1, <2>2, StatusTypes DEF OnKeygenFailed, Status
<1>9. ASSUME NEW w \in Wallet, OnKeygen(w)
      PROVE  TypeInv'
  BY <1>9 DEF OnKeygen, Answer, Results, Steps
<1>10. ASSUME NEW w \in Wallet, CompleteWalletKeygen(w)
       PROVE  TypeInv'
  <2>1. SetWalletStatus(w, "ready") /\ tasks' \subseteq Wallet \X Steps
    BY <1>10 DEF CompleteWalletKeygen, Continue, Steps
  <2> QED
    BY <1>10, <2>1, StatusTypes DEF CompleteWalletKeygen, Status
<1>11. ASSUME NEW w \in Wallet, DeleteWallet(w)
       PROVE  TypeInv'
  BY <1>11 DEF DeleteWallet, Status
<1>12. ASSUME NEW w \in Wallet, ReconcilePending(w)
       PROVE  TypeInv'
  <2>1. CASE timers' = timers \cup {w} /\ UNCHANGED <<status, bounds>>
    BY <1>12, <2>1 DEF ReconcilePending
  <2>2. CASE SetWalletStatus(w, "failed") /\ UNCHANGED timers
    BY <1>12, <2>2, StatusTypes DEF ReconcilePending, Status
  <2> QED
    BY <1>12, <2>1, <2>2 DEF ReconcilePending
<1>13. CASE Crash
  <2>1. EmptyQueue \in Queues(Wallet, maxInflightKeygens)
    BY EmptyQueueProperties
  <2> QED
    BY <1>13, <2>1 DEF Crash, Queues
<1>14. CASE Restart \/ Serve
  BY <1>14 DEF Restart, Serve
<1>15. CASE UNCHANGED vars
  BY <1>15 DEF vars
<1> QED
  BY <1>1, <1>2, <1>3, <1>4, <1>5, <1>6, <1>7, <1>8, <1>9, <1>10, <1>11, <1>12, <1>13,
     <1>14, <1>15 DEF Next, Run
------------------------------------------------------------------------------
(* No slot leaks.                                                           *)

\* A step that takes no slot, and drops no task but enqueue unless another one or a
\* timer of the same wallet takes its place.
LEMMA SlotsKept ==
  ASSUME SlotInv,
         queue'.inflight = queue.inflight,
         \A w \in queue.inflight :
           w \in timers \/ (\E step \in Steps \ {"enqueue"} : <<w, step>> \in tasks)
             => w \in timers' \/ (\E step \in Steps \ {"enqueue"} : <<w, step>> \in tasks')
  PROVE  SlotInv'
BY DEF SlotInv

LEMMA NextSlots ==
  ASSUME TypeInv, SlotInv, [Next]_vars
  PROVE  SlotInv'
<1>1. ASSUME NEW w \in Wallet, provision(w) \/ OnKeygenFailed(w) \/ OnKeygen(w) \/ DeleteWallet(w)
      PROVE  SlotInv'
  BY <1>1, SlotsKept DEF provision, OnKeygenFailed, OnKeygen, DeleteWallet
<1>2. ASSUME NEW w \in Wallet, enqueueKeygen(w)
      PROVE  SlotInv'
  <2>1. PICK next \in SUBSET Wallet :
          /\ queue'.inflight = queue.inflight \cup next
          /\ tasks' = (tasks \ {<<w, "enqueue">>}) \cup (next \X {"dispatch"})
    BY <1>2, Enqueued
  <2>2. timers' = timers
    BY <1>2 DEF enqueueKeygen
  <2> QED
    BY <2>1, <2>2 DEF SlotInv, Steps
<1>3. ASSUME NEW w \in Wallet, keygenFinished(w)
      PROVE  SlotInv'
  <2>1. PICK next \in SUBSET Wallet :
          /\ queue'.inflight = (queue.inflight \ {w}) \cup next
          /\ tasks' = (tasks \ {<<w, "release">>}) \cup (next \X {"dispatch"})
    BY <1>3, Released
  <2>2. timers' = timers
    BY <1>3 DEF keygenFinished
  <2> QED
    BY <2>1, <2>2 DEF SlotInv, Steps
<1>4. ASSUME NEW w \in Wallet, dispatchKeygen(w)
      PROVE  SlotInv'
  BY <1>4, SlotsKept DEF dispatchKeygen, Continue, Steps
<1>5. ASSUME NEW w \in Wallet, CreateKey(w)
      PROVE  SlotInv'
  BY <1>5, SlotsKept DEF CreateKey, Continue, Steps
<1>6. ASSUME NEW w \in Wallet, failKeygen(w)
      PROVE  SlotInv'
  BY <1>6, SlotsKept DEF failKeygen, Continue, Steps
<1>7. ASSUME NEW w \in Wallet, KeygenTimeout(w)
      PROVE  SlotInv'
  BY <1>7, SlotsKept DEF KeygenTimeout, Steps
<1>8. ASSUME NEW w \in Wallet, CompleteWalletKeygen(w)
      PROVE  SlotInv'
  BY <1>8, SlotsKept DEF CompleteWalletKeygen, Continue, Steps
<1>9. ASSUME NEW w \in Wallet, ReconcilePending(w)
      PROVE  SlotInv'
  BY <1>9, SlotsKept DEF ReconcilePending
<1>10. CASE Crash
  <2>1. queue'.inflight = {}
    BY <1>10 DEF Crash, EmptyQueue
  <2> QED
    BY <2>1 DEF SlotInv
<1>11. CASE Restart \/ Serve \/ UNCHANGED vars
  BY <1>11, SlotsKept DEF Restart, Serve, vars
<1> QED
  BY <1>1, <1>2, <1>3, <1>4, <1>5, <1>6, <1>7, <1>8, <1>9, <1>10, <1>11 DEF Next, Run
------------------------------------------------------------------------------
(* No ready wallet without a key.                                           *)

\* A step that neither makes u ready, nor starts its completion, nor takes the
\* successful answer back.
LEMMA KeyKept ==
  ASSUME NEW u \in Wallet, HasKey(u),
         status'[u] = "ready" => status[u] = "ready",
         <<u, "complete">> \in tasks' => <<u, "complete">> \in tasks,
         cluster[u] = "success" => cluster'[u] = "success"
  PROVE  HasKey(u)'
BY DEF HasKey

\* The UPDATE makes no wallet ready unless it was asked to.
LEMMA StatusKept ==
  ASSUME NEW w \in Wallet, NEW u \in Wallet, NEW new \in Status,
         TypeInv, SetWalletStatus(w, new), new # "ready" \/ u # w
  PROVE  status'[u] = "ready" => status[u] = "ready"
BY DEF SetWalletStatus, TypeInv, TypeOK

LEMMA NextKeys ==
  ASSUME TypeInv, KeyInv, [Next]_vars
  PROVE  KeyInv'
<1> SUFFICES ASSUME NEW u \in Wallet
             PROVE  HasKey(u)'
  BY DEF KeyInv
<1>0. HasKey(u)
  BY DEF KeyInv
<1>1. ASSUME NEW w \in Wallet, provision(w) \/ DeleteWallet(w)
      PROVE  HasKey(u)'
  BY <1>0, <1>1, KeyKept DEF provision, DeleteWallet, TypeInv, TypeOK
<1>2. ASSUME NEW w \in Wallet, enqueueKeygen(w)
      PROVE  HasKey(u)'
  <2>1. <<u, "complete">> \in tasks' => <<u, "complete">> \in tasks
    BY <1>2, Enqueued
  <2> QED
    BY <1>0, <1>2, <2>1, KeyKept DEF enqueueKeygen
<1>3. ASSUME NEW w \in Wallet, keygenFinished(w)
      PROVE  HasKey(u)'
  <2>1. <<u, "complete">> \in tasks' => <<u, "complete">> \in tasks
    BY <1>3, Released
  <2> QED
    BY <1>0, <1>3, <2>1, KeyKept DEF keygenFinished
<1>4. ASSUME NEW w \in Wallet, dispatchKeygen(w)
      PROVE  HasKey(u)'
  BY <1>0, <1>4, KeyKept DEF dispatchKeygen, Continue
<1>5. ASSUME NEW w \in Wallet, CreateKey(w)
      PROVE  HasKey(u)'
  <2>1. cluster[u] = "success" => cluster'[u] = "success"
    BY <1>5 DEF CreateKey, Asked, TypeInv, TypeOK
  <2> QED
    BY <1>0, <1>5, <2>1, KeyKept DEF CreateKey, Continue
<1>6. ASSUME NEW w \in Wallet, failKeygen(w)
      PROVE  HasKey(u)'
  <2>1. status'[u] = "ready" => status[u] = "ready"
    BY <1>6, StatusKept DEF failKeygen, Status
  <2> QED
    BY <1>0, <1>6, <2>1, KeyKept DEF failKeygen, Continue
<1>7. ASSUME NEW w \in Wallet, KeygenTimeout(w)
      PROVE  HasKey(u)'
  BY <1>0, <1>7, KeyKept DEF KeygenTimeout
<1>8. ASSUME NEW w \in Wallet, OnKeygenFailed(w)
      PROVE  HasKey(u)'
  <2>1. status'[u] = "ready" => status[u] = "ready"
    BY <1>8, StatusKept DEF OnKeygenFailed, Status
  <2>2. cluster[u] = "success" => cluster'[u] = "success"
    BY <1>8 DEF OnKeygenFailed, Answer, TypeInv, TypeOK
  <2> QED
    BY <1>0, <1>8, <2>1, <2>2, KeyKept DEF OnKeygenFailed
<1>9. ASSUME NEW w \in Wallet, OnKeygen(w)
      PROVE  HasKey(u)'
  <2>1. CASE u = w
    BY <1>9, <2>1 DEF OnKeygen, Answer, HasKey, TypeInv, TypeOK
  <2>2. CASE u # w
    BY <1>0, <1>9, <2>2, KeyKept DEF OnKeygen, Answer, TypeInv, TypeOK
  <2> QED
    BY <2>1, <2>2
<1>10. ASSUME NEW w \in Wallet, CompleteWalletKeygen(w)
       PROVE  HasKey(u)'
  <2>1. CASE u = w
    BY <1>0, <1>10, <2>1 DEF CompleteWalletKeygen, HasKey
  <2>2. CASE u # w
    <3>1. status'[u] = "ready" => status[u] = "ready"
      BY <1>10, <2>2, StatusKept DEF CompleteWalletKeygen, Status
    <3> QED
      BY <1>0, <1>10, <3>1, KeyKept DEF CompleteWalletKeygen, Continue
  <2> QED
    BY <2>1, <2>2
<1>11. ASSUME NEW w \in Wallet, ReconcilePending(w)
       PROVE  HasKey(u)'
  <2>1. status'[u] = "ready" => status[u] = "ready"
    BY <1>11, StatusKept DEF ReconcilePending, Status
  <2> QED
    BY <1>0, <1>11, <2>1, KeyKept DEF ReconcilePending
<1>12. CASE Crash \/ Restart \/ Serve \/ UNCHANGED vars
  BY <1>0, <1>12, KeyKept DEF Crash, Restart, Serve, vars
<1> QED
  BY <1>1, <1>2, <1>3, <1>4, <1>5, <1>6, <1>7, <1>8, <1>9, <1>10, <1>11, <1>12 DEF Next, Run
------------------------------------------------------------------------------
(* Generating wallets hold their slots.                                     *)

\* A step that does no more for u than it takes away: u keeps its status or leaves
\* the two that matter, no task, timer or place in line is new, and u keeps its slot.
LEMMA HeldKept ==
  ASSUME NEW u \in Wallet, Held(u),
         status'[u] = status[u] \/ status'[u] \notin {"none", "generating"},
         cluster'[u] = cluster[u] \/ (cluster[u] # "idle" /\ cluster'[u] # "idle"),
         u \in timers' => u \in timers,
         u \in ToSet(queue'.pending) => u \in ToSet(queue.pending),
         \A step \in Steps : <<u, step>> \in tasks' => <<u, step>> \in tasks,
         u \in queue.inflight => u \in queue'.inflight
  PROVE  Held(u)'
BY DEF Held, Untouched, Working, Steps

\* A step that goes on with a wallet that was in hand: it adds no release, and the
\* wallet keeps its slot.
LEMMA HeldContinues ==
  ASSUME NEW u \in Wallet, Held(u),
         status'[u] = status[u],
         cluster[u] # "idle" \/ u \in timers \/ \E step \in Working : <<u, step>> \in tasks,
         <<u, "release">> \in tasks' => <<u, "release">> \in tasks \/ status[u] # "generating",
         u \in queue.inflight => u \in queue'.inflight
  PROVE  Held(u)'
BY DEF Held, Untouched, Working, Steps

\* What any step for the wallet w does to any wallet u, w included.
LEMMA NextHeldOf ==
  ASSUME TypeInv, NEW u \in Wallet, Held(u), NEW w \in Wallet, mode = "up", unreconciled = {},
         dbErrors = 0, dbErrors' = 0,
         provision(w) \/ OnKeygenFailed(w) \/ OnKeygen(w) \/ DeleteWallet(w) \/ Run(w)
  PROVE  Held(u)'
<1> USE DEF TypeInv, TypeOK
<1>0. ASSUME NEW new, SetWalletStatus(w, new)
      PROVE  status' = [status EXCEPT ![w] = IF @ = "gone" THEN @ ELSE new]
  BY <1>0 DEF SetWalletStatus
<1>1. CASE provision(w)
  <2>1. CASE u = w
    BY <1>1, <2>1 DEF provision, Held, Untouched, Working, Steps
  <2>2. CASE u # w
    BY <1>1, <2>2, HeldKept DEF provision
  <2> QED
    BY <2>1, <2>2
<1>2. CASE enqueueKeygen(w)
  <2>1. PICK next \in SUBSET Wallet :
          /\ queue'.inflight = queue.inflight \cup next
          /\ next \cup ToSet(queue'.pending) = ToSet(queue.pending) \cup {w}
          /\ tasks' = (tasks \ {<<w, "enqueue">>}) \cup (next \X {"dispatch"})
    BY <1>2, Enqueued
  <2>2. UNCHANGED <<status, timers, cluster>> /\ <<w, "enqueue">> \in tasks
    BY <1>2 DEF enqueueKeygen
  <2>3. status[w] # "none" \/ u # w
    BY <2>2 DEF Held, Untouched, Steps
  <2>4. CASE u \in next \/ u = w
    BY <2>1, <2>2, <2>3, <2>4 DEF Held, Untouched, Working, Steps
  <2>5. CASE u \notin next /\ u # w
    BY <2>1, <2>2, <2>5, HeldKept
  <2> QED
    BY <2>4, <2>5
<1>3. CASE keygenFinished(w)
  <2>1. PICK next \in SUBSET Wallet :
          /\ queue'.inflight = (queue.inflight \ {w}) \cup next
          /\ next \cup ToSet(queue'.pending) = ToSet(queue.pending)
          /\ tasks' = (tasks \ {<<w, "release">>}) \cup (next \X {"dispatch"})
    BY <1>3, Released
  <2>2. UNCHANGED <<status, timers, cluster>> /\ <<w, "release">> \in tasks
    BY <1>3 DEF keygenFinished
  <2>3. CASE u = w
    BY <2>1, <2>2, <2>3 DEF Held, Untouched, Steps
  <2>4. CASE u # w /\ u \in next
    BY <2>1, <2>2, <2>4 DEF Held, Untouched, Working, Steps
  <2>5. CASE u # w /\ u \notin next
    BY <2>1, <2>2, <2>5, HeldKept
  <2> QED
    BY <2>3, <2>4, <2>5
<1>4. CASE dispatchKeygen(w)
  <2>1. CASE u = w
    <3>1. <<u, "dispatch">> \in tasks /\ "dispatch" \in Working
      BY <1>4, <2>1 DEF dispatchKeygen, Working, Steps
    <3> QED
      BY <1>4, <2>1, <3>1, HeldContinues DEF dispatchKeygen, Continue
  <2>2. CASE u # w
    BY <1>4, <2>2, HeldKept DEF dispatchKeygen, Continue
  <2> QED
    BY <2>1, <2>2
<1>5. CASE CreateKey(w)
  <2>1. CASE u = w
    <3>1. <<u, "ask">> \in tasks /\ "ask" \in Working
      BY <1>5, <2>1 DEF CreateKey, Working, Steps
    <3> QED
      BY <1>5, <2>1, <3>1, HeldContinues DEF CreateKey, Continue
  <2>2. CASE u # w
    <3>1. cluster'[u] = cluster[u]
      BY <1>5, <2>2 DEF CreateKey, Asked
    <3> QED
      BY <1>5, <2>2, <3>1, HeldKept DEF CreateKey, Continue
  <2> QED
    BY <2>1, <2>2
<1>6. CASE failKeygen(w)
  <2>0. status' = [status EXCEPT ![w] = IF @ = "gone" THEN @ ELSE "failed"]
    BY <1>0, <1>6 DEF failKeygen
  <2>1. CASE u = w
    BY <1>6, <2>0, <2>1 DEF failKeygen, Held
  <2>2. CASE u # w
    BY <1>6, <2>0, <2>2, HeldKept DEF failKeygen, Continue
  <2> QED
    BY <2>1, <2>2
<1>7. CASE KeygenTimeout(w)
  <2>1. CASE u = w
    BY <1>7, <2>1, HeldContinues DEF KeygenTimeout
  <2>2. CASE u # w
    BY <1>7, <2>2, HeldKept DEF KeygenTimeout
  <2> QED
    BY <2>1, <2>2
<1>8. CASE OnKeygenFailed(w)
  <2>0. status' = [status EXCEPT ![w] = IF @ = "gone" THEN @ ELSE "failed"]
    BY <1>0, <1>8 DEF OnKeygenFailed
  <2>1. CASE u = w
    BY <1>8, <2>0, <2>1 DEF OnKeygenFailed, Held
  <2>2. CASE u # w
    BY <1>8, <2>0, <2>2, HeldKept DEF OnKeygenFailed, Answer
  <2> QED
    BY <2>1, <2>2
<1>9. CASE OnKeygen(w)
  <2>1. CASE u = w
    <3>1. cluster[u] # "idle"
      BY <1>9, <2>1 DEF OnKeygen, Answer
    <3>2. <<u, "release">> \in tasks' => <<u, "release">> \in tasks \/ status[u] # "generating"
      BY <1>9, <2>1 DEF OnKeygen
    <3> QED
      BY <1>9, <3>1, <3>2, HeldContinues DEF OnKeygen
  <2>2. CASE u # w
    BY <1>9, <2>2, HeldKept DEF OnKeygen, Answer
  <2> QED
    BY <2>1, <2>2
<1>10. CASE CompleteWalletKeygen(w)
  <2>0. status' = [status EXCEPT ![w] = IF @ = "gone" THEN @ ELSE "ready"]
    BY <1>0, <1>10 DEF CompleteWalletKeygen
  <2>1. CASE u = w
    BY <1>10, <2>0, <2>1 DEF CompleteWalletKeygen, Held
  <2>2. CASE u # w
    BY <1>10, <2>0, <2>2, HeldKept DEF CompleteWalletKeygen, Continue
  <2> QED
    BY <2>1, <2>2
<1>11. CASE DeleteWallet(w)
  BY <1>11, HeldKept DEF DeleteWallet
<1>12. ~ReconcilePending(w)
  BY DEF ReconcilePending
<1> QED
  BY <1>1, <1>2, <1>3, <1>4, <1>5, <1>6, <1>7, <1>8, <1>9, <1>10, <1>11, <1>12 DEF Run

\* No step takes a crash or a database error back.
LEMMA FaultsStay ==
  ASSUME TypeInv, [Next]_vars
  PROVE  crashes' = 0 /\ dbErrors' = 0 => crashes = 0 /\ dbErrors = 0
<1> USE KeygenAssumption DEF TypeInv, TypeOK, bounds
<1>1. ASSUME NEW w \in Wallet, NEW new \in Status, SetWalletStatus(w, new)
      PROVE  crashes' = 0 /\ dbErrors' = 0 => crashes = 0 /\ dbErrors = 0
  BY <1>1 DEF SetWalletStatus
<1>2. ASSUME NEW w \in Wallet,
             failKeygen(w) \/ OnKeygenFailed(w) \/ CompleteWalletKeygen(w) \/ ReconcilePending(w)
      PROVE  crashes' = 0 /\ dbErrors' = 0 => crashes = 0 /\ dbErrors = 0
  BY <1>1, <1>2
     DEF failKeygen, OnKeygenFailed, CompleteWalletKeygen, ReconcilePending, Status
<1>3. ASSUME NEW w \in Wallet,
             \/ provision(w) \/ enqueueKeygen(w) \/ dispatchKeygen(w) \/ CreateKey(w)
             \/ keygenFinished(w) \/ KeygenTimeout(w) \/ OnKeygen(w) \/ DeleteWallet(w)
      PROVE  crashes' = 0 /\ dbErrors' = 0 => crashes = 0 /\ dbErrors = 0
  BY <1>3 DEF provision, enqueueKeygen, dispatchKeygen, CreateKey, keygenFinished,
              KeygenTimeout, OnKeygen, DeleteWallet
<1>4. CASE Crash \/ Restart \/ Serve \/ UNCHANGED vars
  BY <1>4 DEF Crash, Restart, Serve, vars
<1> QED
  BY <1>2, <1>3, <1>4 DEF Next, Run

LEMMA NextHeld ==
  ASSUME TypeInv, HeldInv, [Next]_vars
  PROVE  HeldInv'
<1> SUFFICES ASSUME crashes' = 0, dbErrors' = 0
             PROVE  mode' = "up" /\ unreconciled' = {} /\ \A u \in Wallet : Held(u)'
  BY DEF HeldInv
<1>0. /\ crashes = 0 /\ dbErrors = 0
      /\ mode = "up" /\ unreconciled = {}
      /\ \A u \in Wallet : Held(u)
  BY FaultsStay DEF HeldInv
<1>1. ASSUME NEW w \in Wallet,
             provision(w) \/ OnKeygenFailed(w) \/ OnKeygen(w) \/ DeleteWallet(w) \/ Run(w)
      PROVE  mode' = "up" /\ unreconciled' = {} /\ \A u \in Wallet : Held(u)'
  <2>1. UNCHANGED <<mode, unreconciled>>
    BY <1>0, <1>1
       DEF provision, OnKeygenFailed, OnKeygen, DeleteWallet, Run, enqueueKeygen, dispatchKeygen,
           CreateKey, failKeygen, keygenFinished, KeygenTimeout, CompleteWalletKeygen,
           ReconcilePending
  <2>2. \A u \in Wallet : Held(u)'
    BY <1>0, <1>1, NextHeldOf
  <2> QED
    BY <1>0, <2>1, <2>2
<1>2. ~Crash /\ ~Restart /\ ~Serve
  BY <1>0 DEF Crash, Restart, Serve
<1>3. CASE UNCHANGED vars
  BY <1>0, <1>3 DEF vars, Held, Untouched
<1> QED
  BY <1>1, <1>2, <1>3 DEF Next
------------------------------------------------------------------------------
LEMMA InitIInv == Init => IInv
<1> SUFFICES ASSUME Init
             PROVE  IInv
  OBVIOUS
<1>1. queue.pending = <<>> /\ queue.inflight = {}
  BY EmptyQueueProperties, KeygenAssumption DEF Init
<1>2. ToSet(queue.pending) = {}
  BY <1>1 DEF ToSet
<1>3. SlotInv
  BY <1>1 DEF SlotInv
<1>4. KeyInv
  BY DEF Init, KeyInv, HasKey
<1>5. HeldInv
  BY <1>2 DEF Init, HeldInv, Held, Untouched
<1> QED
  BY <1>3, <1>4, <1>5, InitTypes DEF IInv

LEMMA Inductive == Spec => []IInv
<1>1. IInv /\ [Next]_vars => IInv'
  BY NextTypes, NextSlots, NextKeys, NextHeld DEF IInv
<1> QED
  BY InitIInv, <1>1, PTL DEF Spec

\* The variables keep their types.
THEOREM TypeCorrect == Spec => []TypeOK
<1>1. IInv => TypeOK
  BY DEF IInv, TypeInv
<1> QED
  BY <1>1, Inductive, PTL

\* Whatever holds a slot of the keygen queue has a timer or a goroutine left that
\* leads to keygenFinished, over deletions, timeouts, crashes and failing statements.
THEOREM SlotsComeBack == Spec => []NoSlotLeak
<1>1. IInv => NoSlotLeak
  BY DEF IInv, SlotInv, NoSlotLeak
<1> QED
  BY <1>1, Inductive, PTL

\* A ready wallet has a key in the cluster, over repeated and late answers,
\* timeouts, restarts and failing statements.
THEOREM ReadyWalletHasKey == Spec => []ReadyHasKey
<1>1. IInv => ReadyHasKey
  BY DEF IInv, KeyInv, HasKey, ReadyHasKey
<1> QED
  BY <1>1, Inductive, PTL

\* While neither the process nor the database has failed, the cluster works for no
\* more generating wallets than the queue has slots: each of them holds one.
THEOREM OneAtATime == Spec => []OneKeygenAtATime
<1>1. IInv => OneKeygenAtATime
  <2> SUFFICES ASSUME IInv, crashes = 0, dbErrors = 0
               PROVE  Cardinality({w \in Wallet : status[w] = "generating" /\ cluster[w] # "idle"})
                        <= EffectiveLimit(maxInflightKeygens)
    BY DEF OneKeygenAtATime
  <2> DEFINE busy == {w \in Wallet : status[w] = "generating" /\ cluster[w] # "idle"}
  <2>1. busy \subseteq queue.inflight
    BY DEF IInv, HeldInv, Held
  <2>2. /\ IsFiniteSet(queue.inflight)
        /\ Cardinality(queue.inflight) <= EffectiveLimit(maxInflightKeygens)
    BY DEF IInv, TypeInv, Queues
  <2> HIDE DEF busy
  <2>3. /\ Cardinality(busy) <= Cardinality(queue.inflight)
        /\ IsFiniteSet(busy)
    BY <2>1, <2>2, FS_Subset
  <2>4. /\ Cardinality(busy) \in Nat
        /\ Cardinality(queue.inflight) \in Nat
        /\ EffectiveLimit(maxInflightKeygens) \in Nat
    BY <2>2, <2>3, FS_CardinalityType, LimitIsPositive, KeygenAssumption
  <2>5. Cardinality(busy) <= EffectiveLimit(maxInflightKeygens)
    BY <2>2, <2>3, <2>4
  <2> QED
    BY <2>5 DEF busy
<1> QED
  BY <1>1, Inductive, PTL
==============================================================================
