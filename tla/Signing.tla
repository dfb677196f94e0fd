------------------------------- MODULE Signing -------------------------------
(***************************************************************************)
(* How a transaction is signed and sent (service/transaction.go and        *)
(* service/sign_queue.go over repository/sqlite/transactions.go): the row  *)
(* is saved, its hash waits in the sign queue for one of the slots, the    *)
(* MPC cluster signs it, the callback claims the row and submits the       *)
(* envelope to Horizon.  Requests, MPC results, timers and slot releases   *)
(* are goroutines that interleave between SQL statements; the database     *)
(* keeps one connection, so a statement or SQL transaction is atomic.      *)
(*                                                                         *)
(* tasks holds what the running goroutines do next, as pairs <<id, step>>. *)
(* Two goroutines about to do the same step of the same transaction count  *)
(* once: the second one would find nothing left to do (conditional UPDATE, *)
(* slot already free), and results may be redelivered at any moment.       *)
(***************************************************************************)
EXTENDS DispatchQueue

CONSTANTS Tx,                \* transaction ids: one fresh UUID per payment, swap or trustline
          Wallet,            \* wallets
          WalletOf,          \* the wallet that sends each transaction
          maxInflightSigns,  \* the slots of the sign queue
          MaxCrashes,        \* bound on the process crashes of a behaviour
          MaxDbErrors        \* bound on the failing UPDATE statements of a behaviour

ASSUME SigningAssumption ==
  /\ WalletOf \in [Tx -> Wallet]
  /\ maxInflightSigns \in Int
  /\ MaxCrashes \in Nat
  /\ MaxDbErrors \in Nat

VARIABLES
  status,        \* DB: the status column; "none" without a row, "gone" once deleted
  signature,     \* DB: transactions whose signature column was ever written
  wallets,       \* DB: the wallets that exist
  queue, jobs,   \* memory: the sign queue and the jobs that wait in it
  tasks,         \* memory: next steps of the running goroutines
  timers,        \* memory: transactions with an armed sign timeout
  mode,          \* "up", "down", or "starting" while ReconcilePending runs
  unreconciled,  \* memory: rows ReconcilePending has read and not yet handled
  asked,         \* cluster: transactions it was asked to sign; it may answer at any time
  ledger,        \* Stellar: transactions that were applied
  submits,       \* how often each envelope was submitted to Horizon
  crashes, dbErrors

db      == <<status, signature, wallets>>
memory  == <<queue, jobs, timers, mode, unreconciled>>
outside == <<asked, ledger, submits>>
bounds  == <<crashes, dbErrors>>
vars    == <<db, memory, tasks, outside, bounds>>

Status == {"none", "signing", "broadcast", "confirmed", "failed", "gone"}
Steps  == {"create", "enqueue", "dispatch", "fail", "lookup", "submit", "confirm", "reject", "release"}

TypeOK ==
  /\ status \in [Tx -> Status]
  /\ signature \subseteq Tx
  /\ wallets \subseteq Wallet
  /\ queue \in [pending : Seq(Tx), inflight : SUBSET Tx]
  /\ jobs \subseteq Tx
  /\ tasks \subseteq Tx \X Steps
  /\ timers \subseteq Tx
  /\ mode \in {"up", "down", "starting"}
  /\ unreconciled \subseteq Tx
  /\ asked \subseteq Tx
  /\ ledger \subseteq Tx
  /\ submits \in [Tx -> Nat]
  /\ crashes \in 0 .. MaxCrashes
  /\ dbErrors \in 0 .. MaxDbErrors

Init ==
  /\ status = [t \in Tx |-> "none"]
  /\ signature = {}
  /\ wallets = Wallet
  /\ queue = EmptyQueue
  /\ jobs = {}
  /\ tasks = {}
  /\ timers = {}
  /\ mode = "up"
  /\ unreconciled = {}
  /\ asked = {}
  /\ ledger = {}
  /\ submits = [t \in Tx |-> 0]
  /\ crashes = 0
  /\ dbErrors = 0

\* A goroutine goes on from one step of t to the next.
Continue(t, from, to) == tasks' = (tasks \ {<<t, from>>}) \cup {<<t, to>>}

\* An UPDATE of a row by id alone: no effect on a row that was deleted.
SetStatus(t, new) == status' = [status EXCEPT ![t] = IF @ = "gone" THEN @ ELSE new]

\* The statement fails: nothing changes in the database.
DbError ==
  /\ dbErrors < MaxDbErrors
  /\ dbErrors' = dbErrors + 1
  /\ UNCHANGED db
------------------------------------------------------------------------------
(* A request sends a payment.                                              *)

\* Create has found the wallet and an online quorum, and has built the envelope.
Create(t) ==
  /\ mode = "up"
  /\ status[t] = "none"
  /\ \A step \in Steps : <<t, step>> \notin tasks
  /\ WalletOf[t] \in wallets
  /\ tasks' = tasks \cup {<<t, "create">>}
  /\ UNCHANGED <<db, memory, outside, bounds>>

\* transactions has no foreign key: the row is inserted even if its wallet is gone.
CreateTransaction(t) ==
  /\ <<t, "create">> \in tasks
  /\ status' = [status EXCEPT ![t] = "signing"]
  /\ Continue(t, "create", "enqueue")
  /\ UNCHANGED <<signature, wallets, memory, outside, bounds>>

\* Mutation: the job is kept only if it leaves at once.
enqueueSignLosesJob(t) ==
  /\ <<t, "enqueue">> \in tasks
  /\ LET result == push(queue, maxInflightSigns, t)
     IN  /\ queue' = result.queue
         /\ tasks' = (tasks \ {<<t, "enqueue">>}) \cup (ToSet(result.next) \X {"dispatch"})
         /\ jobs' = jobs \cup ({t} \cap ToSet(result.next))
  /\ UNCHANGED <<db, timers, mode, unreconciled, outside, bounds>>

\* The goroutine dispatches the ids that now have a slot, maybe its own among them.
enqueueSign(t) ==
  /\ <<t, "enqueue">> \in tasks
  /\ LET result == push(queue, maxInflightSigns, t)
     IN  /\ queue' = result.queue
         /\ tasks' = (tasks \ {<<t, "enqueue">>}) \cup (ToSet(result.next) \X {"dispatch"})
  /\ jobs' = jobs \cup {t}
  /\ UNCHANGED <<db, timers, mode, unreconciled, outside, bounds>>
------------------------------------------------------------------------------
(* Dispatch to the cluster and release of the slot.                        *)

\* Mutation: the UPDATE fails the row in whatever status it is.
FailSigningAnyStatus(t) ==
  \/ SetStatus(t, "failed") /\ UNCHANGED <<signature, wallets, bounds>>
  \/ DbError /\ UNCHANGED crashes

\* FailSigning fails the row only while it waits for its signature; the deferred
\* signFinished follows whether or not the statement changed a row.
FailSigning(t) ==
  \/ /\ status' = IF status[t] = "signing" THEN [status EXCEPT ![t] = "failed"] ELSE status
     /\ UNCHANGED <<signature, wallets, bounds>>
  \/ DbError /\ UNCHANGED crashes

\* Mutation: no timeout is armed for the dispatched transaction.
dispatchSignUnwatched(t) ==
  /\ <<t, "dispatch">> \in tasks
  /\ jobs' = jobs \ {t}
  /\ asked' = asked \cup {t}
  /\ tasks' = tasks \ {<<t, "dispatch">>}
  /\ UNCHANGED <<db, queue, timers, mode, unreconciled, ledger, submits, bounds>>

\* A job that is no longer there only frees its slot.
dispatchSign(t) ==
  /\ <<t, "dispatch">> \in tasks
  /\ jobs' = jobs \ {t}
  /\ IF t \in jobs
     THEN /\ asked' = asked \cup {t}
          /\ timers' = timers \cup {t}
          /\ tasks' = tasks \ {<<t, "dispatch">>}
     ELSE /\ Continue(t, "dispatch", "release")
          /\ UNCHANGED <<asked, timers>>
  /\ UNCHANGED <<db, queue, mode, unreconciled, ledger, submits, bounds>>

\* mpc.Sign reports an error; the request may still have reached the cluster.
dispatchSignError(t) ==
  /\ <<t, "dispatch">> \in tasks
  /\ t \in jobs
  /\ jobs' = jobs \ {t}
  /\ asked' \in {asked, asked \cup {t}}
  /\ Continue(t, "dispatch", "fail")
  /\ UNCHANGED <<db, queue, timers, mode, unreconciled, ledger, submits, bounds>>

\* The goroutine that got the error fails the row; a result may have come first.
failSigning(t) ==
  /\ <<t, "fail">> \in tasks
  /\ FailSigning(t)
  /\ Continue(t, "fail", "release")
  /\ UNCHANGED <<memory, outside>>

signFinished(t) ==
  /\ <<t, "release">> \in tasks
  /\ LET result == done(queue, maxInflightSigns, t)
     IN  /\ queue' = result.queue
         /\ tasks' = (tasks \ {<<t, "release">>}) \cup (ToSet(result.next) \X {"dispatch"})
  /\ UNCHANGED <<db, jobs, timers, mode, unreconciled, outside, bounds>>

\* The timer that WatchSignTimeout armed 60 s ago; nothing ever disarms it.
SignTimeout(t) ==
  /\ t \in timers
  /\ timers' = timers \ {t}
  /\ FailSigning(t)
  /\ tasks' = tasks \cup {<<t, "release">>}
  /\ UNCHANGED <<queue, jobs, mode, unreconciled, outside>>
------------------------------------------------------------------------------
(* The MPC callback.  The cluster may answer what it was asked at any time, *)
(* more than once, before a restart or after it.                            *)

OnSignFailed(t) ==
  /\ mode # "down"
  /\ t \in asked
  /\ FailSigning(t)
  /\ tasks' = tasks \cup {<<t, "release">>}
  /\ UNCHANGED <<memory, outside>>

\* Mutation: a second result claims the row again while the first is broadcast.
ClaimSignatureAgain(t) ==
  /\ mode # "down"
  /\ t \in asked
  /\ status[t] \in {"signing", "broadcast"}
  /\ status' = [status EXCEPT ![t] = "broadcast"]
  /\ signature' = signature \cup {t}
  /\ tasks' = tasks \cup {<<t, "lookup">>}
  /\ UNCHANGED <<wallets, memory, outside, bounds>>

\* ClaimSignature changes the row only while it is signing.
ClaimSignature(t) ==
  /\ mode # "down"
  /\ t \in asked
  /\ \/ /\ status[t] = "signing"
        /\ status' = [status EXCEPT ![t] = "broadcast"]
        /\ signature' = signature \cup {t}
        /\ tasks' = tasks \cup {<<t, "lookup">>}
        /\ UNCHANGED <<wallets, bounds>>
     \/ /\ status[t] # "signing"
        /\ tasks' = tasks \cup {<<t, "release">>}
        /\ UNCHANGED <<db, bounds>>
     \/ /\ DbError
        /\ tasks' = tasks \cup {<<t, "release">>}
        /\ UNCHANGED crashes
  /\ UNCHANGED <<memory, outside>>

WalletLookup(t) ==
  /\ <<t, "lookup">> \in tasks
  /\ Continue(t, "lookup", IF WalletOf[t] \in wallets THEN "submit" ELSE "reject")
  /\ UNCHANGED <<db, memory, outside, bounds>>

\* Mutation: an error of Horizon is logged and the row left as it is.
SubmitForgets(t) ==
  /\ <<t, "submit">> \in tasks
  /\ submits' = [submits EXCEPT ![t] = @ + 1]
  /\ \/ ledger' = ledger \cup {t} /\ Continue(t, "submit", "confirm")
     \/ UNCHANGED ledger /\ Continue(t, "submit", "release")
  /\ UNCHANGED <<db, memory, asked, bounds>>

\* Horizon applies the envelope or not; its answer may get lost on the way back.
Submit(t) ==
  /\ <<t, "submit">> \in tasks
  /\ submits' = [submits EXCEPT ![t] = @ + 1]
  /\ \/ /\ ledger' = ledger \cup {t}
        /\ \E answer \in {"confirm", "reject"} : Continue(t, "submit", answer)
     \/ /\ Continue(t, "submit", "reject")
        /\ UNCHANGED ledger
  /\ UNCHANGED <<db, memory, asked, bounds>>

\* Mutation: the row gets a status the program does not know.
ConfirmTransactionUnknown(t) ==
  /\ <<t, "confirm">> \in tasks
  /\ SetStatus(t, "executed")
  /\ Continue(t, "confirm", "release")
  /\ UNCHANGED <<signature, wallets, memory, outside, bounds>>

\* OnSign logs a failing ConfirmTransaction or FailTransaction and goes on.
ConfirmTransaction(t) ==
  /\ <<t, "confirm">> \in tasks
  /\ \/ SetStatus(t, "confirmed") /\ UNCHANGED <<signature, wallets, bounds>>
     \/ DbError /\ UNCHANGED crashes
  /\ Continue(t, "confirm", "release")
  /\ UNCHANGED <<memory, outside>>

FailTransaction(t) ==
  /\ <<t, "reject">> \in tasks
  /\ \/ SetStatus(t, "failed") /\ UNCHANGED <<signature, wallets, bounds>>
     \/ DbError /\ UNCHANGED crashes
  /\ Continue(t, "reject", "release")
  /\ UNCHANGED <<memory, outside>>
------------------------------------------------------------------------------
(* Deletion of a wallet; crash and restart of the process.                  *)

DeleteWallet(w) ==
  /\ mode = "up"
  /\ w \in wallets
  /\ wallets' = wallets \ {w}
  /\ status' = [t \in Tx |-> IF WalletOf[t] = w /\ status[t] # "none" THEN "gone" ELSE status[t]]
  /\ UNCHANGED <<signature, memory, tasks, outside, bounds>>

Crash ==
  /\ mode # "down"
  /\ crashes < MaxCrashes
  /\ crashes' = crashes + 1
  /\ mode' = "down"
  /\ queue' = EmptyQueue
  /\ jobs' = {}
  /\ tasks' = {}
  /\ timers' = {}
  /\ unreconciled' = {}
  /\ UNCHANGED <<db, outside, dbErrors>>

\* The callbacks are registered before Start reads the pending rows.
Restart ==
  /\ mode = "down"
  /\ mode' = "starting"
  /\ unreconciled' = {t \in Tx : status[t] = "signing"}
  /\ UNCHANGED <<db, queue, jobs, tasks, timers, outside, bounds>>

\* Mutation: a restart does not watch the rows it leaves waiting.
ReconcilePendingUnwatched(t) ==
  /\ t \in unreconciled
  /\ unreconciled' = unreconciled \ {t}
  /\ UNCHANGED <<db, queue, jobs, timers, mode, tasks, outside, bounds>>

\* With a quorum online the timeout starts anew, else the row fails.
ReconcilePending(t) ==
  /\ t \in unreconciled
  /\ unreconciled' = unreconciled \ {t}
  /\ \/ timers' = timers \cup {t} /\ UNCHANGED <<db, tasks, bounds>>
     \/ /\ FailSigning(t)
        /\ tasks' = tasks \cup {<<t, "release">>}
        /\ UNCHANGED timers
  /\ UNCHANGED <<queue, jobs, mode, outside>>

Serve ==
  /\ mode = "starting"
  /\ unreconciled = {}
  /\ mode' = "up"
  /\ UNCHANGED <<db, queue, jobs, timers, unreconciled, tasks, outside, bounds>>
------------------------------------------------------------------------------
Dispatch(t) == dispatchSign(t) \/ dispatchSignError(t)

Next ==
  \/ \E t \in Tx : \/ Create(t) \/ CreateTransaction(t) \/ enqueueSign(t)
                   \/ Dispatch(t) \/ failSigning(t) \/ signFinished(t) \/ SignTimeout(t)
                   \/ OnSignFailed(t) \/ ClaimSignature(t) \/ WalletLookup(t)
                   \/ Submit(t) \/ ConfirmTransaction(t) \/ FailTransaction(t)
                   \/ ReconcilePending(t)
  \/ \E w \in Wallet : DeleteWallet(w)
  \/ Crash \/ Restart \/ Serve

Spec == Init /\ [][Next]_vars

\* Every goroutine runs on, timers fire and a dead process is started again.
\* Nothing obliges a user to send, the cluster to answer or the process to crash.
Fairness ==
  /\ \A t \in Tx :
       /\ WF_vars(CreateTransaction(t)) /\ WF_vars(enqueueSign(t))
       /\ WF_vars(Dispatch(t)) /\ WF_vars(failSigning(t))
       /\ WF_vars(signFinished(t)) /\ WF_vars(SignTimeout(t))
       /\ WF_vars(WalletLookup(t)) /\ WF_vars(Submit(t))
       /\ WF_vars(ConfirmTransaction(t)) /\ WF_vars(FailTransaction(t))
       /\ WF_vars(ReconcilePending(t))
  /\ WF_vars(Restart) /\ WF_vars(Serve)

FairSpec == Spec /\ Fairness
------------------------------------------------------------------------------
(* Safety.                                                                 *)

\* The sign queue never has more requests in flight than it has slots, however
\* results, timers, dispatch errors and releases interleave.
InflightWithinLimit == Cardinality(queue.inflight) <= EffectiveLimit(maxInflightSigns)

\* No slot leaks: whatever holds one has a running goroutine or an armed timer
\* that will release it (dispatchSign arms the timer, every exit of OnSign,
\* failSigning and dispatchSign calls signFinished).
NoSlotLeak ==
  \A t \in queue.inflight : t \in timers \/ \E step \in Steps : <<t, step>> \in tasks

\* The job of a queued or dispatching transaction is still there, so dispatchSign
\* never drops a transaction silently.
QueuedHasJob ==
  \A t \in Tx : t \in ToSet(queue.pending) \/ <<t, "dispatch">> \in tasks => t \in jobs

\* An envelope is submitted at most once, over duplicate and late results, timers
\* and restarts: the conditional UPDATE of ClaimSignature has one winner.
SubmittedAtMostOnce == \A t \in Tx : submits[t] <= 1

\* Confirmed rows are on the ledger, final rows stay, a row takes the documented
\* path only: the service implements its abstract lifecycle.
Lifecycle == INSTANCE TransactionLifecycle WITH signed <- signature
ImplementsLifecycle == Lifecycle!Spec
------------------------------------------------------------------------------
(* Liveness.                                                               *)

\* While the database answers no transaction waits for its signature for ever, although
\* the cluster may never answer and the process may die: it gets a slot, and its timer
\* fails it, or the timer that ReconcilePending arms does.
SigningEnds ==
  \A t \in Tx : status[t] = "signing" ~> status[t] # "signing" \/ dbErrors > 0

\* While the process lives and the database answers, the goroutine that claimed a
\* transaction brings it to an end, whatever Horizon says and whoever deletes it.
ClaimedEnds ==
  \A t \in Tx :
    <<t, "lookup">> \in tasks
      ~> status[t] \in {"confirmed", "failed", "gone"} \/ mode = "down" \/ dbErrors > 0

\* A claimed transaction ends: "Status moves signing -> broadcast -> confirmed (or
\* failed)", "with timeouts and restart recovery" (backend/README.md).
BroadcastEnds == \A t \in Tx : status[t] = "broadcast" ~> status[t] # "broadcast"
==============================================================================
