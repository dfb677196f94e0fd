---------------------------- MODULE SigningProofs ----------------------------
(***************************************************************************)
(* For every set of transactions and wallets, every limit and any number   *)
(* of crashes and database errors, the signing service keeps its types and *)
(* the limit of its queue, leaks no slot, loses no queued job, submits no  *)
(* envelope twice and implements TransactionLifecycle.                     *)
(***************************************************************************)
EXTENDS Signing, DispatchQueueLemmas

\* Steps that only the goroutine that claimed the row takes.
Claimed == {"lookup", "submit", "confirm", "reject"}

TypeInv == TypeOK /\ queue \in Queues(Tx, maxInflightSigns)

\* NoSlotLeak made inductive: a transaction that is not yet in the queue has no
\* slot, so the steps before it joins cannot be what releases one.
SlotInv ==
  \A t \in queue.inflight :
    t \in timers \/ \E step \in Steps \ {"create", "enqueue"} : <<t, step>> \in tasks

\* What a claim means: one goroutine at a time is past it, only on a row that had
\* been signing and never will be again, and it has not submitted before.
Claims(t) ==
  /\ <<t, "create">> \in tasks => status[t] = "none"
  /\ status[t] \in {"none", "signing"} => t \notin signature
  /\ t \notin signature => submits[t] = 0
  /\ submits[t] <= 1
  /\ <<t, "lookup">> \in tasks \/ <<t, "submit">> \in tasks => submits[t] = 0
  /\ <<t, "confirm">> \in tasks => t \in ledger
  /\ \A step \in Claimed : <<t, step>> \in tasks =>
       /\ status[t] \in {"broadcast", "gone"}
       /\ t \in signature
       /\ \A other \in Claimed : <<t, other>> \in tasks => other = step

ClaimInv == \A t \in Tx : Claims(t)

\* Where the job of t is: it is put down before t can wait or hold a slot, and taken
\* by the one goroutine that dispatches t, which is not one of those that wait.
Job(t) ==
  /\ t \in ToSet(queue.pending) => t \in jobs /\ <<t, "dispatch">> \notin tasks
  /\ <<t, "dispatch">> \in tasks => t \in jobs
  /\ status[t] = "none" \/ <<t, "enqueue">> \in tasks =>
       /\ t \notin queue.inflight \cup ToSet(queue.pending)
       /\ <<t, "dispatch">> \notin tasks
  /\ status[t] = "none" => <<t, "enqueue">> \notin tasks

JobInv == NoRepeats(queue) /\ \A t \in Tx : Job(t)

IInv == TypeInv /\ SlotInv /\ ClaimInv /\ JobInv
------------------------------------------------------------------------------
(* Types and the limit of the queue.                                        *)

\* The two operations on the queue keep its type and its limit, and what they hand
\* out are transactions.
LEMMA QueueTypes ==
  ASSUME NEW t \in Tx, TypeInv
  PROVE  LET p == push(queue, maxInflightSigns, t)
             d == done(queue, maxInflightSigns, t)
         IN  /\ p.queue \in Queues(Tx, maxInflightSigns)
             /\ ToSet(p.next) \subseteq Tx
             /\ p.queue.inflight = queue.inflight \cup ToSet(p.next)
             /\ d.queue \in Queues(Tx, maxInflightSigns)
             /\ ToSet(d.next) \subseteq Tx
             /\ d.queue.inflight = (queue.inflight \ {t}) \cup ToSet(d.next)
<1> DEFINE p == push(queue, maxInflightSigns, t)
           d == done(queue, maxInflightSigns, t)
<1>1. Pushed(queue, t, p, Tx, maxInflightSigns)
  BY PushProperties, SigningAssumption DEF TypeInv
<1>2. Finished(queue, t, d, Tx, maxInflightSigns)
  BY DoneProperties, SigningAssumption DEF TypeInv
<1> HIDE DEF p, d
<1>3. ToSet(p.next) \subseteq Tx /\ ToSet(d.next) \subseteq Tx
  BY <1>1, <1>2, ToSetCardinality DEF Pushed, Finished
<1> QED
  BY <1>1, <1>2, <1>3 DEF Pushed, Finished, p, d

LEMMA InitTypes == Init => TypeInv
<1> SUFFICES ASSUME Init
             PROVE  TypeInv
  OBVIOUS
<1>1. EmptyQueue \in Queues(Tx, maxInflightSigns)
  BY EmptyQueueProperties, SigningAssumption
<1>2. EmptyQueue \in [pending : Seq(Tx), inflight : SUBSET Tx]
  BY <1>1 DEF Queues
<1> QED
  BY <1>1, <1>2, SigningAssumption DEF Init, TypeInv, TypeOK, Status

\* The statements of the database keep its types.
LEMMA DbTypes ==
  ASSUME NEW t \in Tx, TypeInv, FailSigning(t)
  PROVE  /\ status' \in [Tx -> Status]
         /\ signature' = signature
         /\ wallets' = wallets
         /\ crashes' = crashes
         /\ dbErrors' \in 0 .. MaxDbErrors
<1>1. /\ status \in [Tx -> Status]
      /\ dbErrors \in 0 .. MaxDbErrors
      /\ MaxDbErrors \in Nat
  BY SigningAssumption DEF TypeInv, TypeOK
<1>2. CASE /\ status' = IF status[t] = "signing" THEN [status EXCEPT ![t] = "failed"] ELSE status
           /\ UNCHANGED <<signature, wallets, bounds>>
  BY <1>1, <1>2 DEF bounds, Status
<1>3. CASE DbError /\ UNCHANGED crashes
  BY <1>1, <1>3 DEF DbError, db
<1> QED
  BY <1>2, <1>3 DEF FailSigning

LEMMA NextTypes ==
  ASSUME TypeInv, [Next]_vars
  PROVE  TypeInv'
<1> USE SigningAssumption DEF TypeInv, TypeOK, db, memory, outside, bounds
<1>1. ASSUME NEW t \in Tx, Create(t)
      PROVE  TypeInv'
  BY <1>1 DEF Create, Steps
<1>2. ASSUME NEW t \in Tx, CreateTransaction(t)
      PROVE  TypeInv'
  BY <1>2 DEF CreateTransaction, Continue, Steps, Status
<1>3. ASSUME NEW t \in Tx, enqueueSign(t)
      PROVE  TypeInv'
  <2>1. /\ queue' = push(queue, maxInflightSigns, t).queue
        /\ tasks' = (tasks \ {<<t, "enqueue">>})
                      \cup (ToSet(push(queue, maxInflightSigns, t).next) \X {"dispatch"})
    BY <1>3 DEF enqueueSign
  <2>2. queue' \in Queues(Tx, maxInflightSigns)
    BY <2>1, QueueTypes
  <2>3. tasks' \subseteq Tx \X Steps
    BY <2>1, QueueTypes DEF Steps
  <2> QED
    BY <1>3, <2>2, <2>3 DEF enqueueSign, Queues
<1>4. ASSUME NEW t \in Tx, dispatchSign(t)
      PROVE  TypeInv'
  BY <1>4 DEF dispatchSign, Continue, Steps
<1>5. ASSUME NEW t \in Tx, dispatchSignError(t)
      PROVE  TypeInv'
  <2>1. asked' \subseteq Tx /\ tasks' \subseteq Tx \X Steps
    BY <1>5 DEF dispatchSignError, Continue, Steps
  <2> QED
    BY <1>5, <2>1 DEF dispatchSignError
<1>5f. ASSUME NEW t \in Tx, failSigning(t)
       PROVE  TypeInv'
  <2>1. FailSigning(t) /\ tasks' \subseteq Tx \X Steps
    BY <1>5f DEF failSigning, Continue, Steps
  <2>2. /\ status' \in [Tx -> Status]
        /\ signature' = signature
        /\ wallets' = wallets
        /\ crashes' = crashes
        /\ dbErrors' \in 0 .. MaxDbErrors
    BY <2>1, DbTypes
  <2> QED
    BY <1>5f, <2>1, <2>2 DEF failSigning
<1>6. ASSUME NEW t \in Tx, signFinished(t)
      PROVE  TypeInv'
  <2>1. /\ queue' = done(queue, maxInflightSigns, t).queue
        /\ tasks' = (tasks \ {<<t, "release">>})
                      \cup (ToSet(done(queue, maxInflightSigns, t).next) \X {"dispatch"})
    BY <1>6 DEF signFinished
  <2>2. queue' \in Queues(Tx, maxInflightSigns)
    BY <2>1, QueueTypes
  <2>3. tasks' \subseteq Tx \X Steps
    BY <2>1, QueueTypes DEF Steps
  <2> QED
    BY <1>6, <2>2, <2>3 DEF signFinished, Queues
<1>7. ASSUME NEW t \in Tx, SignTimeout(t)
      PROVE  TypeInv'
  <2>1. FailSigning(t) /\ tasks' \subseteq Tx \X Steps
    BY <1>7 DEF SignTimeout, Steps
  <2>2. /\ status' \in [Tx -> Status]
        /\ signature' = signature
        /\ wallets' = wallets
        /\ crashes' = crashes
        /\ dbErrors' \in 0 .. MaxDbErrors
    BY <2>1, DbTypes
  <2> QED
    BY <1>7, <2>1, <2>2 DEF SignTimeout
<1>8. ASSUME NEW t \in Tx, OnSignFailed(t)
      PROVE  TypeInv'
  <2>1. FailSigning(t) /\ tasks' \subseteq Tx \X Steps
    BY <1>8 DEF OnSignFailed, Steps
  <2>2. /\ status' \in [Tx -> Status]
        /\ signature' = signature
        /\ wallets' = wallets
        /\ crashes' = crashes
        /\ dbErrors' \in 0 .. MaxDbErrors
    BY <2>1, DbTypes
  <2> QED
    BY <1>8, <2>1, <2>2 DEF OnSignFailed
<1>9. ASSUME NEW t \in Tx, ClaimSignature(t)
      PROVE  TypeInv'
  <2>1. tasks' \subseteq Tx \X Steps
    BY <1>9 DEF ClaimSignature, Steps
  <2>2. status' \in [Tx -> Status] /\ signature' \subseteq Tx /\ wallets' = wallets
    BY <1>9 DEF ClaimSignature, DbError, Status
  <2>3. crashes' = crashes /\ dbErrors' \in 0 .. MaxDbErrors
    BY <1>9 DEF ClaimSignature, DbError
  <2> QED
    BY <1>9, <2>1, <2>2, <2>3 DEF ClaimSignature
<1>10. ASSUME NEW t \in Tx, WalletLookup(t)
       PROVE  TypeInv'
  <2>1. tasks' \subseteq Tx \X Steps
    <3>1. (IF WalletOf[t] \in wallets THEN "submit" ELSE "reject") \in Steps
      BY DEF Steps
    <3> QED
      BY <1>10, <3>1 DEF WalletLookup, Continue
  <2> QED
    BY <1>10, <2>1 DEF WalletLookup
<1>11. ASSUME NEW t \in Tx, Submit(t)
       PROVE  TypeInv'
  <2>1. tasks' \subseteq Tx \X Steps
    BY <1>11 DEF Submit, Continue, Steps
  <2>2. submits' \in [Tx -> Nat]
    BY <1>11 DEF Submit
  <2>3. ledger' \subseteq Tx
    BY <1>11 DEF Submit
  <2> QED
    BY <1>11, <2>1, <2>2, <2>3 DEF Submit
<1>12. ASSUME NEW t \in Tx, ConfirmTransaction(t)
       PROVE  TypeInv'
  <2>1. tasks' \subseteq Tx \X Steps
    BY <1>12 DEF ConfirmTransaction, Continue, Steps
  <2>2. status' \in [Tx -> Status] /\ signature' = signature /\ wallets' = wallets
    BY <1>12 DEF ConfirmTransaction, SetStatus, DbError, Status
  <2>3. crashes' = crashes /\ dbErrors' \in 0 .. MaxDbErrors
    BY <1>12 DEF ConfirmTransaction, DbError
  <2> QED
    BY <1>12, <2>1, <2>2, <2>3 DEF ConfirmTransaction
<1>13. ASSUME NEW t \in Tx, FailTransaction(t)
       PROVE  TypeInv'
  <2>1. tasks' \subseteq Tx \X Steps
    BY <1>13 DEF FailTransaction, Continue, Steps
  <2>2. status' \in [Tx -> Status] /\ signature' = signature /\ wallets' = wallets
    BY <1>13 DEF FailTransaction, SetStatus, DbError, Status
  <2>3. crashes' = crashes /\ dbErrors' \in 0 .. MaxDbErrors
    BY <1>13 DEF FailTransaction, DbError
  <2> QED
    BY <1>13, <2>1, <2>2, <2>3 DEF FailTransaction
<1>14. ASSUME NEW t \in Tx, ReconcilePending(t)
       PROVE  TypeInv'
  <2>1. tasks' \subseteq Tx \X Steps
    BY <1>14 DEF ReconcilePending, Steps
  <2>2. /\ status' \in [Tx -> Status]
        /\ signature' = signature
        /\ wallets' = wallets
        /\ crashes' = crashes
        /\ dbErrors' \in 0 .. MaxDbErrors
    BY <1>14, DbTypes DEF ReconcilePending
  <2> QED
    BY <1>14, <2>1, <2>2 DEF ReconcilePending
<1>15. ASSUME NEW w \in Wallet, DeleteWallet(w)
       PROVE  TypeInv'
  BY <1>15 DEF DeleteWallet, Status
<1>16. CASE Crash
  <2>1. EmptyQueue \in Queues(Tx, maxInflightSigns)
    BY EmptyQueueProperties
  <2>2. EmptyQueue \in [pending : Seq(Tx), inflight : SUBSET Tx]
    BY <2>1 DEF Queues
  <2>3. crashes' \in 0 .. MaxCrashes
    BY <1>16 DEF Crash
  <2> QED
    BY <1>16, <2>1, <2>2, <2>3 DEF Crash
<1>17. CASE Restart \/ Serve
  BY <1>17 DEF Restart, Serve
<1>18. CASE UNCHANGED vars
  BY <1>18 DEF vars
<1> QED
  BY <1>1, <1>2, <1>3, <1>4, <1>5, <1>5f, <1>6, <1>7, <1>8, <1>9, <1>10, <1>11, <1>12, <1>13,
     <1>14, <1>15, <1>16, <1>17, <1>18 DEF Next, Dispatch
------------------------------------------------------------------------------
(* No slot leaks.                                                           *)

\* Whatever goes on from one step of its goroutine to a later one than enqueueing,
\* or gets a timer or another goroutine, keeps its claim on the slot.
LEMMA SlotsKept ==
  ASSUME SlotInv,
         queue' = queue,
         \A t \in queue.inflight : t \in timers => t \in timers' \/ <<t, "release">> \in tasks',
         \A t \in queue.inflight, step \in Steps \ {"create", "enqueue"} :
           <<t, step>> \in tasks =>
             t \in timers' \/ \E later \in Steps \ {"create", "enqueue"} : <<t, later>> \in tasks'
  PROVE  SlotInv'
BY DEF SlotInv, Steps

LEMMA NextSlots ==
  ASSUME TypeInv, SlotInv, [Next]_vars
  PROVE  SlotInv'
<1> USE DEF memory
<1>1. ASSUME NEW t \in Tx, Create(t)
      PROVE  SlotInv'
  BY <1>1, SlotsKept DEF Create
<1>2. ASSUME NEW t \in Tx, CreateTransaction(t)
      PROVE  SlotInv'
  BY <1>2, SlotsKept DEF CreateTransaction, Continue
<1>3. ASSUME NEW t \in Tx, enqueueSign(t)
      PROVE  SlotInv'
  <2> DEFINE next == push(queue, maxInflightSigns, t).next
  <2>1. /\ queue'.inflight = queue.inflight \cup ToSet(next)
        /\ tasks' = (tasks \ {<<t, "enqueue">>}) \cup (ToSet(next) \X {"dispatch"})
        /\ timers' = timers
    BY <1>3, QueueTypes DEF enqueueSign
  <2> HIDE DEF next
  <2> QED
    BY <2>1 DEF SlotInv, Steps
<1>4. ASSUME NEW t \in Tx, dispatchSign(t)
      PROVE  SlotInv'
  BY <1>4, SlotsKept DEF dispatchSign, Continue, Steps
<1>5. ASSUME NEW t \in Tx, dispatchSignError(t)
      PROVE  SlotInv'
  BY <1>5, SlotsKept DEF dispatchSignError, Continue, Steps
<1>5f. ASSUME NEW t \in Tx, failSigning(t)
       PROVE  SlotInv'
  BY <1>5f, SlotsKept DEF failSigning, Continue, Steps
<1>6. ASSUME NEW t \in Tx, signFinished(t)
      PROVE  SlotInv'
  <2> DEFINE next == done(queue, maxInflightSigns, t).next
  <2>1. /\ queue'.inflight = (queue.inflight \ {t}) \cup ToSet(next)
        /\ tasks' = (tasks \ {<<t, "release">>}) \cup (ToSet(next) \X {"dispatch"})
        /\ timers' = timers
    BY <1>6, QueueTypes DEF signFinished
  <2> HIDE DEF next
  <2> QED
    BY <2>1 DEF SlotInv, Steps
<1>7. ASSUME NEW t \in Tx, SignTimeout(t)
      PROVE  SlotInv'
  BY <1>7, SlotsKept DEF SignTimeout, Steps
<1>8. ASSUME NEW t \in Tx, OnSignFailed(t)
      PROVE  SlotInv'
  BY <1>8, SlotsKept DEF OnSignFailed, Steps
<1>9. ASSUME NEW t \in Tx, ClaimSignature(t)
      PROVE  SlotInv'
  BY <1>9, SlotsKept DEF ClaimSignature, Steps
<1>10. ASSUME NEW t \in Tx, WalletLookup(t)
       PROVE  SlotInv'
  BY <1>10, SlotsKept DEF WalletLookup, Continue, Steps
<1>11. ASSUME NEW t \in Tx, Submit(t)
       PROVE  SlotInv'
  BY <1>11, SlotsKept DEF Submit, Continue, Steps
<1>12. ASSUME NEW t \in Tx, ConfirmTransaction(t)
       PROVE  SlotInv'
  BY <1>12, SlotsKept DEF ConfirmTransaction, Continue, Steps
<1>13. ASSUME NEW t \in Tx, FailTransaction(t)
       PROVE  SlotInv'
  BY <1>13, SlotsKept DEF FailTransaction, Continue, Steps
<1>14. ASSUME NEW t \in Tx, ReconcilePending(t)
       PROVE  SlotInv'
  BY <1>14, SlotsKept DEF ReconcilePending, Steps
<1>15. ASSUME NEW w \in Wallet, DeleteWallet(w)
       PROVE  SlotInv'
  BY <1>15, SlotsKept DEF DeleteWallet
<1>16. CASE Crash
  <2>1. queue'.inflight = {}
    BY <1>16 DEF Crash, EmptyQueue
  <2> QED
    BY <2>1 DEF SlotInv
<1>17. CASE Restart \/ Serve
  BY <1>17, SlotsKept DEF Restart, Serve
<1>18. CASE UNCHANGED vars
  BY <1>18, SlotsKept DEF vars
<1> QED
  BY <1>1, <1>2, <1>3, <1>4, <1>5, <1>5f, <1>6, <1>7, <1>8, <1>9, <1>10, <1>11, <1>12, <1>13,
     <1>14, <1>15, <1>16, <1>17, <1>18 DEF Next, Dispatch
------------------------------------------------------------------------------
(* One claim, one submission.                                               *)

\* A step that neither touches the row of t nor lets a goroutine of t begin to
\* create, look up, submit, confirm or reject.
LEMMA ClaimsKept ==
  ASSUME NEW t \in Tx, Claims(t),
         status'[t] = status[t],
         t \in signature' <=> t \in signature,
         submits'[t] = submits[t],
         t \in ledger => t \in ledger',
         \A step \in Claimed \cup {"create"} : <<t, step>> \in tasks' => <<t, step>> \in tasks
  PROVE  Claims(t)'
BY DEF Claims, Claimed

\* FailSigning leaves a claimed row alone.
LEMMA ClaimsFail ==
  ASSUME NEW t \in Tx, NEW u \in Tx, TypeInv, Claims(u), FailSigning(t),
         UNCHANGED <<submits, ledger>>,
         \A step \in Claimed \cup {"create"} : <<u, step>> \in tasks' => <<u, step>> \in tasks
  PROVE  Claims(u)'
<1>1. signature' = signature
  BY DbTypes
<1>2. CASE status' = status
  BY <1>1, <1>2, ClaimsKept
<1>3. CASE status[t] = "signing" /\ status' = [status EXCEPT ![t] = "failed"]
  <2>1. CASE u = t
    BY <1>1, <1>3, <2>1 DEF Claims, Claimed, TypeInv, TypeOK
  <2>2. CASE u # t
    BY <1>1, <1>3, <2>2, ClaimsKept DEF TypeInv, TypeOK
  <2> QED
    BY <2>1, <2>2
<1> QED
  BY <1>2, <1>3 DEF FailSigning, DbError, db

LEMMA NextClaims ==
  ASSUME TypeInv, ClaimInv, [Next]_vars
  PROVE  ClaimInv'
<1> SUFFICES ASSUME NEW u \in Tx
             PROVE  Claims(u)'
  BY DEF ClaimInv
<1>0. Claims(u)
  BY DEF ClaimInv
<1> USE DEF db, memory, outside
<1>1. ASSUME NEW t \in Tx, Create(t)
      PROVE  Claims(u)'
  <2>1. CASE u = t
    BY <1>0, <1>1, <2>1 DEF Create, Claims, Claimed, TypeInv, TypeOK
  <2>2. CASE u # t
    BY <1>0, <1>1, <2>2, ClaimsKept DEF Create, Claimed, TypeInv, TypeOK
  <2> QED
    BY <2>1, <2>2
<1>2. ASSUME NEW t \in Tx, CreateTransaction(t)
      PROVE  Claims(u)'
  <2>1. CASE u = t
    BY <1>0, <1>2, <2>1 DEF CreateTransaction, Claims, Claimed, TypeInv, TypeOK, Continue
  <2>2. CASE u # t
    BY <1>0, <1>2, <2>2, ClaimsKept DEF CreateTransaction, Claimed, TypeInv, TypeOK, Continue
  <2> QED
    BY <2>1, <2>2
<1>3. ASSUME NEW t \in Tx, enqueueSign(t)
      PROVE  Claims(u)'
  BY <1>0, <1>3, ClaimsKept DEF enqueueSign, Claimed
<1>4. ASSUME NEW t \in Tx, dispatchSign(t)
      PROVE  Claims(u)'
  BY <1>0, <1>4, ClaimsKept DEF dispatchSign, Claimed, Continue
<1>5. ASSUME NEW t \in Tx, dispatchSignError(t)
      PROVE  Claims(u)'
  BY <1>0, <1>5, ClaimsKept DEF dispatchSignError, Claimed, Continue
<1>5f. ASSUME NEW t \in Tx, failSigning(t)
       PROVE  Claims(u)'
  BY <1>0, <1>5f, ClaimsFail DEF failSigning, Claimed, Continue
<1>6. ASSUME NEW t \in Tx, signFinished(t)
      PROVE  Claims(u)'
  BY <1>0, <1>6, ClaimsKept DEF signFinished, Claimed
<1>7. ASSUME NEW t \in Tx, SignTimeout(t)
      PROVE  Claims(u)'
  BY <1>0, <1>7, ClaimsFail DEF SignTimeout, Claimed
<1>8. ASSUME NEW t \in Tx, OnSignFailed(t)
      PROVE  Claims(u)'
  BY <1>0, <1>8, ClaimsFail DEF OnSignFailed, Claimed
<1>9. ASSUME NEW t \in Tx, ClaimSignature(t)
      PROVE  Claims(u)'
  <2>1. CASE u = t
    BY <1>0, <1>9, <2>1 DEF ClaimSignature, Claims, Claimed, TypeInv, TypeOK, DbError
  <2>2. CASE u # t
    BY <1>0, <1>9, <2>2, ClaimsKept DEF ClaimSignature, Claimed, TypeInv, TypeOK, DbError
  <2> QED
    BY <2>1, <2>2
<1>10. ASSUME NEW t \in Tx, WalletLookup(t)
       PROVE  Claims(u)'
  <2>1. CASE u = t
    BY <1>0, <1>10, <2>1 DEF WalletLookup, Claims, Claimed, TypeInv, TypeOK, Continue
  <2>2. CASE u # t
    BY <1>0, <1>10, <2>2, ClaimsKept DEF WalletLookup, Claimed, TypeInv, TypeOK, Continue
  <2> QED
    BY <2>1, <2>2
<1>11. ASSUME NEW t \in Tx, Submit(t)
       PROVE  Claims(u)'
  <2>1. CASE u = t
    BY <1>0, <1>11, <2>1 DEF Submit, Claims, Claimed, TypeInv, TypeOK, Continue
  <2>2. CASE u # t
    BY <1>0, <1>11, <2>2, ClaimsKept DEF Submit, Claimed, TypeInv, TypeOK, Continue
  <2> QED
    BY <2>1, <2>2
<1>12. ASSUME NEW t \in Tx, ConfirmTransaction(t)
       PROVE  Claims(u)'
  <2>1. CASE u = t
    BY <1>0, <1>12, <2>1 DEF ConfirmTransaction, Claims, Claimed, TypeInv, TypeOK, Continue, SetStatus, DbError
  <2>2. CASE u # t
    BY <1>0, <1>12, <2>2, ClaimsKept DEF ConfirmTransaction, Claimed, TypeInv, TypeOK, Continue, SetStatus, DbError
  <2> QED
    BY <2>1, <2>2
<1>13. ASSUME NEW t \in Tx, FailTransaction(t)
       PROVE  Claims(u)'
  <2>1. CASE u = t
    BY <1>0, <1>13, <2>1 DEF FailTransaction, Claims, Claimed, TypeInv, TypeOK, Continue, SetStatus, DbError
  <2>2. CASE u # t
    BY <1>0, <1>13, <2>2, ClaimsKept DEF FailTransaction, Claimed, TypeInv, TypeOK, Continue, SetStatus, DbError
  <2> QED
    BY <2>1, <2>2
<1>14. ASSUME NEW t \in Tx, ReconcilePending(t)
       PROVE  Claims(u)'
  <2>1. CASE UNCHANGED <<db, tasks>>
    BY <1>0, <1>14, <2>1, ClaimsKept DEF ReconcilePending
  <2>2. CASE FailSigning(t) /\ tasks' = tasks \cup {<<t, "release">>}
    BY <1>0, <1>14, <2>2, ClaimsFail DEF ReconcilePending, Claimed
  <2> QED
    BY <1>14, <2>1, <2>2 DEF ReconcilePending
<1>15. ASSUME NEW w \in Wallet, DeleteWallet(w)
       PROVE  Claims(u)'
  <2>1. /\ status'[u] = IF WalletOf[u] = w /\ status[u] # "none" THEN "gone" ELSE status[u]
        /\ UNCHANGED <<signature, submits, ledger, tasks>>
    BY <1>15 DEF DeleteWallet
  <2> QED
    BY <1>0, <2>1 DEF Claims, Claimed
<1>16. CASE Crash
  BY <1>0, <1>16, ClaimsKept DEF Crash
<1>17. CASE Restart \/ Serve
  BY <1>0, <1>17, ClaimsKept DEF Restart, Serve
<1>18. CASE UNCHANGED vars
  BY <1>0, <1>18, ClaimsKept DEF vars
<1> QED
  BY <1>1, <1>2, <1>3, <1>4, <1>5, <1>5f, <1>6, <1>7, <1>8, <1>9, <1>10, <1>11, <1>12, <1>13,
     <1>14, <1>15, <1>16, <1>17, <1>18 DEF Next, Dispatch
------------------------------------------------------------------------------
(* Whoever has a slot or waits for one has its job.                         *)

\* No transaction is in the queue twice, so what an operation hands out no longer
\* waits; what it hands out and what still waits is what waited before.
LEMMA QueueMoves ==
  ASSUME NEW t \in Tx, TypeInv, NoRepeats(queue)
  PROVE  LET p == push(queue, maxInflightSigns, t)
             d == done(queue, maxInflightSigns, t)
             Handed(r, waited) ==
               /\ NoRepeats(r.queue)
               /\ ToSet(r.next) \cup ToSet(r.queue.pending) = waited
               /\ r.queue.inflight \cap ToSet(r.queue.pending) = {}
         IN  /\ t \notin queue.inflight \cup ToSet(queue.pending)
                  => Handed(p, ToSet(queue.pending) \cup {t})
             /\ Handed(d, ToSet(queue.pending))
<1> DEFINE p == push(queue, maxInflightSigns, t)
           d == done(queue, maxInflightSigns, t)
<1>1. Pushed(queue, t, p, Tx, maxInflightSigns)
  BY PushProperties, SigningAssumption DEF TypeInv
<1>2. Finished(queue, t, d, Tx, maxInflightSigns)
  BY DoneProperties, SigningAssumption DEF TypeInv
<1> HIDE DEF p, d
<1>3. queue.pending \in Seq(Tx)
  BY DEF TypeInv, Queues
<1>4. /\ p.next \in Seq(Tx) /\ p.queue.pending \in Seq(Tx)
      /\ d.next \in Seq(Tx) /\ d.queue.pending \in Seq(Tx)
  BY <1>1, <1>2 DEF Pushed, Finished, Queues
<1>5. ToSet(p.next) \cup ToSet(p.queue.pending) = ToSet(queue.pending) \cup {t}
  <2>1. ToSet(p.next \o p.queue.pending) = ToSet(p.next) \cup ToSet(p.queue.pending)
    BY <1>4, ToSetConcat
  <2>2. ToSet(Append(queue.pending, t)) = ToSet(queue.pending) \cup {t}
    BY <1>3, ToSetAppend
  <2> QED
    BY <1>1, <2>1, <2>2 DEF Pushed
<1>6. ToSet(d.next) \cup ToSet(d.queue.pending) = ToSet(queue.pending)
  <2>1. ToSet(d.next \o d.queue.pending) = ToSet(d.next) \cup ToSet(d.queue.pending)
    BY <1>4, ToSetConcat
  <2> QED
    BY <1>2, <2>1 DEF Finished
<1>7. ASSUME NEW q, q.pending \in Seq(Tx), NoRepeats(q)
      PROVE  q.inflight \cap ToSet(q.pending) = {}
  <2>1. DOMAIN q.pending = 1 .. Len(q.pending)
    BY <1>7, LenProperties
  <2> QED
    BY <1>7, <2>1 DEF NoRepeats, ToSet
<1>8. NoRepeats(d.queue) /\ d.queue.inflight \cap ToSet(d.queue.pending) = {}
  BY <1>2, <1>4, <1>7 DEF Finished
<1>9. t \notin queue.inflight \cup ToSet(queue.pending)
        => NoRepeats(p.queue) /\ p.queue.inflight \cap ToSet(p.queue.pending) = {}
  BY <1>1, <1>4, <1>7 DEF Pushed
<1> QED
  BY <1>5, <1>6, <1>8, <1>9 DEF p, d

\* A step that leaves the queue and the job of t alone, lets no goroutine enqueue or
\* dispatch it, and makes no row of it disappear.
LEMMA JobKept ==
  ASSUME NEW t \in Tx, Job(t),
         queue' = queue,
         t \in jobs' <=> t \in jobs,
         status'[t] = "none" => status[t] = "none",
         \A step \in {"enqueue", "dispatch"} : <<t, step>> \in tasks' => <<t, step>> \in tasks
  PROVE  Job(t)'
BY DEF Job

\* FailSigning fails a row that is there.
LEMMA FailKeepsRows ==
  ASSUME NEW t \in Tx, NEW u \in Tx, TypeInv, FailSigning(t)
  PROVE  status'[u] = "none" => status[u] = "none"
BY DEF FailSigning, DbError, db, TypeInv, TypeOK

LEMMA NextJobs ==
  ASSUME TypeInv, ClaimInv, JobInv, [Next]_vars
  PROVE  JobInv'
<1>0. NoRepeats(queue) /\ \A u \in Tx : Job(u)
  BY DEF JobInv
<1> USE DEF db, memory, outside
<1>1. ASSUME NEW t \in Tx, Create(t)
      PROVE  JobInv'
  BY <1>0, <1>1, JobKept DEF JobInv, Create
<1>2. ASSUME NEW t \in Tx, CreateTransaction(t)
      PROVE  JobInv'
  <2>1. status[t] = "none" /\ UNCHANGED <<queue, jobs>>
    BY <1>2 DEF CreateTransaction, ClaimInv, Claims
  <2>2. Job(t)'
    BY <1>0, <1>2, <2>1 DEF CreateTransaction, Continue, Job, TypeInv, TypeOK
  <2>3. ASSUME NEW u \in Tx, u # t
        PROVE  Job(u)'
    BY <1>0, <1>2, <2>1, <2>3, JobKept DEF CreateTransaction, Continue, TypeInv, TypeOK
  <2> QED
    BY <1>0, <2>1, <2>2, <2>3 DEF JobInv
<1>3. ASSUME NEW t \in Tx, enqueueSign(t)
      PROVE  JobInv'
  <2> DEFINE r == push(queue, maxInflightSigns, t)
  <2>1. /\ queue' = r.queue
        /\ tasks' = (tasks \ {<<t, "enqueue">>}) \cup (ToSet(r.next) \X {"dispatch"})
        /\ jobs' = jobs \cup {t}
        /\ status' = status
    BY <1>3 DEF enqueueSign
  <2>2. r.queue.inflight = (queue.inflight) \cup ToSet(r.next)
    BY QueueTypes
  <2>3. /\ t \notin queue.inflight \cup ToSet(queue.pending)
        /\ <<t, "dispatch">> \notin tasks
        /\ status[t] # "none"
    BY <1>0, <1>3 DEF enqueueSign, Job
  <2>4. /\ NoRepeats(r.queue)
        /\ ToSet(r.next) \cup ToSet(r.queue.pending) = ToSet(queue.pending) \cup {t}
        /\ r.queue.inflight \cap ToSet(r.queue.pending) = {}
    BY <1>0, <2>3, QueueMoves
  <2> HIDE DEF r
  <2>5. ASSUME NEW u \in Tx
        PROVE  Job(u)'
    BY <1>0, <2>1, <2>2, <2>3, <2>4 DEF Job
  <2> QED
    BY <2>1, <2>4, <2>5 DEF JobInv
<1>4. ASSUME NEW t \in Tx, dispatchSign(t)
      PROVE  JobInv'
  <2>1. queue' = queue /\ jobs' = jobs \ {t} /\ <<t, "dispatch">> \in tasks
    BY <1>4 DEF dispatchSign
  <2>2. \A u \in Tx : status'[u] = "none" => status[u] = "none"
    BY <1>4, FailKeepsRows DEF dispatchSign
  <2>3. Job(t)'
    BY <1>0, <1>4, <2>1, <2>2 DEF dispatchSign, Continue, Job
  <2>4. ASSUME NEW u \in Tx, u # t
        PROVE  Job(u)'
    BY <1>0, <1>4, <2>1, <2>2, <2>4, JobKept DEF dispatchSign, Continue
  <2> QED
    BY <1>0, <2>1, <2>3, <2>4 DEF JobInv
<1>5. ASSUME NEW t \in Tx, dispatchSignError(t)
      PROVE  JobInv'
  <2>1. queue' = queue /\ jobs' = jobs \ {t} /\ <<t, "dispatch">> \in tasks
    BY <1>5 DEF dispatchSignError
  <2>2. \A u \in Tx : status'[u] = "none" => status[u] = "none"
    BY <1>5 DEF dispatchSignError
  <2>3. Job(t)'
    BY <1>0, <1>5, <2>1, <2>2 DEF dispatchSignError, Continue, Job
  <2>4. ASSUME NEW u \in Tx, u # t
        PROVE  Job(u)'
    BY <1>0, <1>5, <2>1, <2>2, <2>4, JobKept DEF dispatchSignError, Continue
  <2> QED
    BY <1>0, <2>1, <2>3, <2>4 DEF JobInv
<1>5f. ASSUME NEW t \in Tx, failSigning(t)
       PROVE  JobInv'
  <2>1. \A u \in Tx : status'[u] = "none" => status[u] = "none"
    BY <1>5f, FailKeepsRows DEF failSigning
  <2> QED
    BY <1>0, <1>5f, <2>1, JobKept DEF JobInv, failSigning, Continue
<1>6. ASSUME NEW t \in Tx, signFinished(t)
      PROVE  JobInv'
  <2> DEFINE r == done(queue, maxInflightSigns, t)
  <2>1. /\ queue' = r.queue
        /\ tasks' = (tasks \ {<<t, "release">>}) \cup (ToSet(r.next) \X {"dispatch"})
        /\ jobs' = jobs
        /\ status' = status
    BY <1>6 DEF signFinished
  <2>2. r.queue.inflight = (queue.inflight \ {t}) \cup ToSet(r.next)
    BY QueueTypes
  <2>4. /\ NoRepeats(r.queue)
        /\ ToSet(r.next) \cup ToSet(r.queue.pending) = ToSet(queue.pending)
        /\ r.queue.inflight \cap ToSet(r.queue.pending) = {}
    BY <1>0, QueueMoves
  <2> HIDE DEF r
  <2>5. ASSUME NEW u \in Tx
        PROVE  Job(u)'
    BY <1>0, <2>1, <2>2, <2>4 DEF Job
  <2> QED
    BY <2>1, <2>4, <2>5 DEF JobInv
<1>7. ASSUME NEW t \in Tx, SignTimeout(t)
      PROVE  JobInv'
  <2>1. \A u \in Tx : status'[u] = "none" => status[u] = "none"
    BY <1>7, FailKeepsRows DEF SignTimeout
  <2> QED
    BY <1>0, <1>7, <2>1, JobKept DEF JobInv, SignTimeout
<1>8. ASSUME NEW t \in Tx, OnSignFailed(t)
      PROVE  JobInv'
  <2>1. \A u \in Tx : status'[u] = "none" => status[u] = "none"
    BY <1>8, FailKeepsRows DEF OnSignFailed
  <2> QED
    BY <1>0, <1>8, <2>1, JobKept DEF JobInv, OnSignFailed
<1>9. ASSUME NEW t \in Tx, ClaimSignature(t)
      PROVE  JobInv'
  <2>1. \A u \in Tx : status'[u] = "none" => status[u] = "none"
    BY <1>9 DEF ClaimSignature, DbError, TypeInv, TypeOK
  <2> QED
    BY <1>0, <1>9, <2>1, JobKept DEF JobInv, ClaimSignature
<1>10. ASSUME NEW t \in Tx, WalletLookup(t)
       PROVE  JobInv'
  BY <1>0, <1>10, JobKept DEF JobInv, WalletLookup, Continue
<1>11. ASSUME NEW t \in Tx, Submit(t)
       PROVE  JobInv'
  BY <1>0, <1>11, JobKept DEF JobInv, Submit, Continue
<1>12. ASSUME NEW t \in Tx, ConfirmTransaction(t)
       PROVE  JobInv'
  <2>1. \A u \in Tx : status'[u] = "none" => status[u] = "none"
    BY <1>12 DEF ConfirmTransaction, SetStatus, DbError, TypeInv, TypeOK
  <2> QED
    BY <1>0, <1>12, <2>1, JobKept DEF JobInv, ConfirmTransaction, Continue
<1>13. ASSUME NEW t \in Tx, FailTransaction(t)
       PROVE  JobInv'
  <2>1. \A u \in Tx : status'[u] = "none" => status[u] = "none"
    BY <1>13 DEF FailTransaction, SetStatus, DbError, TypeInv, TypeOK
  <2> QED
    BY <1>0, <1>13, <2>1, JobKept DEF JobInv, FailTransaction, Continue
<1>14. ASSUME NEW t \in Tx, ReconcilePending(t)
       PROVE  JobInv'
  <2>1. \A u \in Tx : status'[u] = "none" => status[u] = "none"
    BY <1>14, FailKeepsRows DEF ReconcilePending
  <2> QED
    BY <1>0, <1>14, <2>1, JobKept DEF JobInv, ReconcilePending
<1>15. ASSUME NEW w \in Wallet, DeleteWallet(w)
       PROVE  JobInv'
  <2>1. \A u \in Tx : status'[u] = "none" => status[u] = "none"
    BY <1>15 DEF DeleteWallet
  <2> QED
    BY <1>0, <1>15, <2>1, JobKept DEF JobInv, DeleteWallet
<1>16. CASE Crash
  <2>1. queue' = EmptyQueue /\ tasks' = {}
    BY <1>16 DEF Crash
  <2>2. NoRepeats(EmptyQueue) /\ ToSet(EmptyQueue.pending) = {} /\ EmptyQueue.inflight = {}
    BY DEF NoRepeats, EmptyQueue, ToSet
  <2> QED
    BY <2>1, <2>2 DEF JobInv, Job
<1>17. CASE Restart \/ Serve
  BY <1>0, <1>17, JobKept DEF JobInv, Restart, Serve
<1>18. CASE UNCHANGED vars
  BY <1>0, <1>18, JobKept DEF JobInv, vars
<1> QED
  BY <1>1, <1>2, <1>3, <1>4, <1>5, <1>5f, <1>6, <1>7, <1>8, <1>9, <1>10, <1>11, <1>12, <1>13,
     <1>14, <1>15, <1>16, <1>17, <1>18 DEF Next, Dispatch
------------------------------------------------------------------------------
LEMMA InitIInv == Init => IInv
<1> SUFFICES ASSUME Init
             PROVE  IInv
  OBVIOUS
<1>1. SlotInv
  BY DEF Init, EmptyQueue, SlotInv
<1>2. ClaimInv
  BY DEF Init, ClaimInv, Claims
<1>3. JobInv
  BY DEF Init, EmptyQueue, ToSet, NoRepeats, JobInv, Job
<1> QED
  BY <1>1, <1>2, <1>3, InitTypes DEF IInv

LEMMA Inductive == Spec => []IInv
<1>1. IInv /\ [Next]_vars => IInv'
  BY NextTypes, NextSlots, NextClaims, NextJobs DEF IInv
<1> QED
  BY InitIInv, <1>1, PTL DEF Spec

\* The variables keep their types.
THEOREM TypeCorrect == Spec => []TypeOK
<1>1. IInv => TypeOK
  BY DEF IInv, TypeInv
<1> QED
  BY <1>1, Inductive, PTL

\* The sign queue stays within its slots, whatever interleaving of requests,
\* results, timers, dispatch errors, crashes and failing statements.
THEOREM NeverFlooded == Spec => []InflightWithinLimit
<1>1. IInv => InflightWithinLimit
  BY DEF IInv, TypeInv, Queues, InflightWithinLimit
<1> QED
  BY <1>1, Inductive, PTL

\* Whatever holds a slot of the sign queue has a timer or a goroutine left that
\* leads to signFinished.
THEOREM SlotsComeBack == Spec => []NoSlotLeak
<1>1. IInv => NoSlotLeak
  BY DEF IInv, SlotInv, NoSlotLeak
<1> QED
  BY <1>1, Inductive, PTL

\* The job of a transaction is there as long as the transaction waits for a slot or is
\* about to be dispatched, so dispatchSign drops none for want of its job: no id joins
\* the queue twice, and only the goroutine that dispatches an id takes its job.
THEOREM JobsAreKept == Spec => []QueuedHasJob
<1>1. IInv => QueuedHasJob
  BY DEF IInv, JobInv, Job, QueuedHasJob
<1> QED
  BY <1>1, Inductive, PTL

\* No envelope is submitted to Horizon twice: ClaimSignature has one winner over
\* duplicate and late results, timeouts, restarts and failing statements.
THEOREM NeverSubmittedTwice == Spec => []SubmittedAtMostOnce
<1>1. IInv => SubmittedAtMostOnce
  BY DEF IInv, ClaimInv, Claims, SubmittedAtMostOnce
<1> QED
  BY <1>1, Inductive, PTL
------------------------------------------------------------------------------
(* Refinement of TransactionLifecycle.                                      *)

LEMMA FailSigningAbandons ==
  ASSUME NEW t \in Tx, TypeInv, FailSigning(t), ledger' = ledger
  PROVE  [Lifecycle!Next]_(Lifecycle!vars)
<1>1. signature' = signature
  BY DbTypes
<1>2. CASE status' = status
  BY <1>1, <1>2 DEF Lifecycle!vars
<1>3. CASE status[t] = "signing" /\ status' = [status EXCEPT ![t] = "failed"]
  <2>1. Lifecycle!Abandon(t)
    BY <1>1, <1>3 DEF Lifecycle!Abandon, Lifecycle!Move
  <2> QED
    BY <2>1 DEF Lifecycle!Next
<1> QED
  BY <1>2, <1>3 DEF FailSigning, DbError, db

\* Every step of the service is a step of the lifecycle or leaves it unchanged.
LEMMA StepsRefine ==
  ASSUME IInv, [Next]_vars
  PROVE  [Lifecycle!Next]_(Lifecycle!vars)
<1> USE DEF db, memory, outside
<1>0. TypeInv /\ ClaimInv
  BY DEF IInv
<1>1. ASSUME NEW t \in Tx, CreateTransaction(t)
      PROVE  [Lifecycle!Next]_(Lifecycle!vars)
  <2>1. Lifecycle!Begin(t)
    BY <1>0, <1>1 DEF CreateTransaction, ClaimInv, Claims, Lifecycle!Begin, Lifecycle!Move
  <2> QED
    BY <2>1 DEF Lifecycle!Next
<1>2. ASSUME NEW t \in Tx, \/ failSigning(t) \/ SignTimeout(t) \/ OnSignFailed(t)
      PROVE  [Lifecycle!Next]_(Lifecycle!vars)
  BY <1>0, <1>2, FailSigningAbandons DEF failSigning, SignTimeout, OnSignFailed
<1>3. ASSUME NEW t \in Tx, ReconcilePending(t)
      PROVE  [Lifecycle!Next]_(Lifecycle!vars)
  <2>1. CASE UNCHANGED db
    BY <1>3, <2>1 DEF ReconcilePending, Lifecycle!vars
  <2>2. CASE FailSigning(t)
    BY <1>0, <1>3, <2>2, FailSigningAbandons DEF ReconcilePending
  <2> QED
    BY <1>3, <2>1, <2>2 DEF ReconcilePending
<1>4. ASSUME NEW t \in Tx, ClaimSignature(t)
      PROVE  [Lifecycle!Next]_(Lifecycle!vars)
  <2>1. CASE UNCHANGED <<status, signature>>
    BY <1>4, <2>1 DEF ClaimSignature, Lifecycle!vars
  <2>2. CASE /\ status[t] = "signing"
             /\ status' = [status EXCEPT ![t] = "broadcast"]
             /\ signature' = signature \cup {t}
    <3>1. Lifecycle!Sign(t)
      BY <1>4, <2>2 DEF ClaimSignature, Lifecycle!Sign, Lifecycle!Move
    <3> QED
      BY <3>1 DEF Lifecycle!Next
  <2> QED
    BY <1>4, <2>1, <2>2 DEF ClaimSignature, DbError
<1>5. ASSUME NEW t \in Tx, Submit(t)
      PROVE  [Lifecycle!Next]_(Lifecycle!vars)
  <2>1. CASE ledger' = ledger
    BY <1>5, <2>1 DEF Submit, Lifecycle!vars
  <2>2. CASE t \notin ledger /\ ledger' = ledger \cup {t}
    <3>1. t \in signature /\ status[t] \in {"broadcast", "gone"}
      BY <1>0, <1>5 DEF Submit, ClaimInv, Claims, Claimed
    <3>2. Lifecycle!Land(t)
      BY <1>5, <2>2, <3>1 DEF Submit, Lifecycle!Land
    <3> QED
      BY <3>2 DEF Lifecycle!Next
  <2> QED
    BY <1>5, <2>1, <2>2 DEF Submit
<1>6. ASSUME NEW t \in Tx, ConfirmTransaction(t)
      PROVE  [Lifecycle!Next]_(Lifecycle!vars)
  <2>1. CASE status' = status
    BY <1>6, <2>1 DEF ConfirmTransaction, DbError, Lifecycle!vars
  <2>2. CASE status' # status
    <3>0. /\ t \in ledger
          /\ status[t] \in {"broadcast", "gone"}
          /\ status \in [Tx -> Status]
      BY <1>0, <1>6 DEF ConfirmTransaction, ClaimInv, Claims, Claimed, TypeInv, TypeOK
    <3>1. /\ t \in ledger
          /\ status[t] = "broadcast"
          /\ status' = [status EXCEPT ![t] = "confirmed"]
          /\ UNCHANGED <<signature, ledger>>
      BY <1>6, <2>2, <3>0 DEF ConfirmTransaction, SetStatus, DbError
    <3>2. Lifecycle!Confirm(t)
      BY <3>1 DEF Lifecycle!Confirm, Lifecycle!Move
    <3> QED
      BY <3>2 DEF Lifecycle!Next
  <2> QED
    BY <2>1, <2>2
<1>7. ASSUME NEW t \in Tx, FailTransaction(t)
      PROVE  [Lifecycle!Next]_(Lifecycle!vars)
  <2>1. CASE status' = status
    BY <1>7, <2>1 DEF FailTransaction, DbError, Lifecycle!vars
  <2>2. CASE status' # status
    <3>0. status[t] \in {"broadcast", "gone"} /\ status \in [Tx -> Status]
      BY <1>0, <1>7 DEF FailTransaction, ClaimInv, Claims, Claimed, TypeInv, TypeOK
    <3>1. /\ status[t] = "broadcast"
          /\ status' = [status EXCEPT ![t] = "failed"]
          /\ UNCHANGED <<signature, ledger>>
      BY <1>7, <2>2, <3>0 DEF FailTransaction, SetStatus, DbError
    <3>2. Lifecycle!Reject(t)
      BY <3>1 DEF Lifecycle!Reject, Lifecycle!Move
    <3> QED
      BY <3>2 DEF Lifecycle!Next
  <2> QED
    BY <2>1, <2>2
<1>8. ASSUME NEW w \in Wallet, DeleteWallet(w)
      PROVE  [Lifecycle!Next]_(Lifecycle!vars)
  <2> DEFINE rows == {t \in Tx : WalletOf[t] = w /\ status[t] # "none"}
  <2>1. Lifecycle!Remove(rows)
    BY <1>8 DEF DeleteWallet, Lifecycle!Remove
  <2>2. rows \in SUBSET Tx
    OBVIOUS
  <2> QED
    BY <2>1, <2>2 DEF Lifecycle!Next
<1>9. ASSUME NEW t \in Tx, \/ Create(t) \/ enqueueSign(t) \/ dispatchSign(t)
                           \/ dispatchSignError(t) \/ signFinished(t) \/ WalletLookup(t)
      PROVE  [Lifecycle!Next]_(Lifecycle!vars)
  BY <1>9 DEF Create, enqueueSign, dispatchSign, dispatchSignError, signFinished, WalletLookup, Lifecycle!vars
<1>10. CASE Crash \/ Restart \/ Serve \/ UNCHANGED vars
  BY <1>10 DEF Crash, Restart, Serve, vars, Lifecycle!vars
<1> QED
  BY <1>1, <1>2, <1>3, <1>4, <1>5, <1>6, <1>7, <1>8, <1>9, <1>10 DEF Next, Dispatch

\* The signing service implements TransactionLifecycle: whatever the goroutines,
\* the cluster, Horizon, crashes and failing statements do, a status takes the
\* documented path, only what was claimed lands on the ledger, and what is
\* confirmed has landed.
THEOREM Refinement == Spec => ImplementsLifecycle
<1>1. Init => Lifecycle!Init
  BY DEF Init, Lifecycle!Init
<1>2. IInv /\ [Next]_vars => [Lifecycle!Next]_(Lifecycle!vars)
  BY StepsRefine
<1> QED
  BY <1>1, <1>2, Inductive, PTL DEF Spec, ImplementsLifecycle, Lifecycle!Spec
==============================================================================
