------------------------------- MODULE Keygen --------------------------------
(***************************************************************************)
(* How a wallet gets its key (service/wallet.go, keygen_queue.go and       *)
(* mpc_policy.go): the row is saved as generating, waits in the keygen     *)
(* queue for a slot, the MPC cluster generates the key, and the callback   *)
(* completes the row.  Unlike the statements about transactions, those     *)
(* about wallets name the row only: SetWalletStatus and                    *)
(* CompleteWalletKeygen write whatever the row's status is by then.        *)
(*                                                                         *)
(* tasks holds what the running goroutines do next, as in Signing.  The    *)
(* cluster answers a request at any time, more than once, and always with  *)
(* the same result.                                                        *)
(***************************************************************************)
EXTENDS DispatchQueue

CONSTANTS Wallet,             \* wallet ids: one fresh UUID per request to create a wallet
          maxInflightKeygens, \* the slots of the keygen queue
          MaxCrashes,         \* bound on the process crashes of a behaviour
          MaxDbErrors         \* bound on the failing UPDATE statements of a behaviour

ASSUME KeygenAssumption ==
  maxInflightKeygens \in Int /\ MaxCrashes \in Nat /\ MaxDbErrors \in Nat

VARIABLES
  status,        \* DB: the status column; "none" without a row, "gone" once deleted
  queue,         \* memory: the keygen queue
  tasks,         \* memory: next steps <<wallet, step>> of the running goroutines
  timers,        \* memory: wallets with an armed keygen timeout
  mode,          \* "up", "down", or "starting" while ReconcilePending runs
  unreconciled,  \* memory: generating wallets ReconcilePending has still to handle
  cluster,       \* what the cluster made of each request
  crashes, dbErrors

bounds == <<crashes, dbErrors>>
vars   == <<status, queue, tasks, timers, mode, unreconciled, cluster, bounds>>

Status  == {"none", "generating", "ready", "failed", "gone"}
Steps   == {"enqueue", "dispatch", "ask", "fail", "timeout", "complete", "release"}
Results == {"success", "failure"}

TypeOK ==
  /\ status \in [Wallet -> Status]
  /\ queue \in [pending : Seq(Wallet), inflight : SUBSET Wallet]
  /\ tasks \subseteq Wallet \X Steps
  /\ timers \subseteq Wallet
  /\ mode \in {"up", "down", "starting"}
  /\ unreconciled \subseteq Wallet
  /\ cluster \in [Wallet -> {"idle", "asked"} \cup Results]
  /\ crashes \in 0 .. MaxCrashes
  /\ dbErrors \in 0 .. MaxDbErrors

Init ==
  /\ status = [w \in Wallet |-> "none"]
  /\ queue = EmptyQueue
  /\ tasks = {}
  /\ timers = {}
  /\ mode = "up"
  /\ unreconciled = {}
  /\ cluster = [w \in Wallet |-> "idle"]
  /\ crashes = 0
  /\ dbErrors = 0

Continue(w, from, to) == tasks' = (tasks \ {<<w, from>>}) \cup {<<w, to>>}

\* Mutation: the UPDATE looks for another status and misses the row.
SetWalletStatusMisses(w, new) ==
  \/ /\ status' = IF status[w] = new THEN [status EXCEPT ![w] = new] ELSE status
     /\ UNCHANGED bounds
  \/ /\ dbErrors < MaxDbErrors
     /\ dbErrors' = dbErrors + 1
     /\ UNCHANGED <<status, crashes>>

\* An UPDATE by id: no effect on a deleted row; its error is logged, no more.
SetWalletStatus(w, new) ==
  \/ /\ status' = [status EXCEPT ![w] = IF @ = "gone" THEN @ ELSE new]
     /\ UNCHANGED bounds
  \/ /\ dbErrors < MaxDbErrors
     /\ dbErrors' = dbErrors + 1
     /\ UNCHANGED <<status, crashes>>
------------------------------------------------------------------------------
\* An owner creates a wallet while the quorum for key generation is online.
provision(w) ==
  /\ mode = "up"
  /\ status[w] = "none"
  /\ status' = [status EXCEPT ![w] = "generating"]
  /\ tasks' = tasks \cup {<<w, "enqueue">>}
  /\ UNCHANGED <<queue, timers, mode, unreconciled, cluster, bounds>>

enqueueKeygen(w) ==
  /\ <<w, "enqueue">> \in tasks
  /\ LET result == push(queue, maxInflightKeygens, w)
     IN  /\ queue' = result.queue
         /\ tasks' = (tasks \ {<<w, "enqueue">>}) \cup (ToSet(result.next) \X {"dispatch"})
  /\ UNCHANGED <<status, timers, mode, unreconciled, cluster, bounds>>

\* Mutation: the wallet that is no longer wanted keeps its slot.
dispatchKeygenForgets(w) ==
  /\ <<w, "dispatch">> \in tasks
  /\ IF status[w] = "generating"
     THEN Continue(w, "dispatch", "ask")
     ELSE tasks' = tasks \ {<<w, "dispatch">>}
  /\ UNCHANGED <<status, queue, timers, mode, unreconciled, cluster, bounds>>

\* A wallet that was deleted or failed while it waited gives its slot back.
dispatchKeygen(w) ==
  /\ <<w, "dispatch">> \in tasks
  /\ Continue(w, "dispatch", IF status[w] = "generating" THEN "ask" ELSE "release")
  /\ UNCHANGED <<status, queue, timers, mode, unreconciled, cluster, bounds>>

Asked(w) == cluster' = [cluster EXCEPT ![w] = IF @ = "idle" THEN "asked" ELSE @]

\* The request reaches the cluster, or mpc.CreateWallet reports an error; it may
\* have reached the cluster nevertheless.
CreateKey(w) ==
  /\ <<w, "ask">> \in tasks
  /\ \/ /\ Asked(w)
        /\ tasks' = tasks \ {<<w, "ask">>}
        /\ timers' = timers \cup {w}
     \/ /\ Asked(w) \/ UNCHANGED cluster
        /\ Continue(w, "ask", "fail")
        /\ UNCHANGED timers
  /\ UNCHANGED <<status, queue, mode, unreconciled, bounds>>

\* After a dispatch error, or after the timeout has looked at the wallet.
failKeygen(w) ==
  /\ \E step \in {"fail", "timeout"} : <<w, step>> \in tasks /\ Continue(w, step, "release")
  /\ SetWalletStatus(w, "failed")
  /\ UNCHANGED <<queue, timers, mode, unreconciled, cluster>>

keygenFinished(w) ==
  /\ <<w, "release">> \in tasks
  /\ LET result == done(queue, maxInflightKeygens, w)
     IN  /\ queue' = result.queue
         /\ tasks' = (tasks \ {<<w, "release">>}) \cup (ToSet(result.next) \X {"dispatch"})
  /\ UNCHANGED <<status, timers, mode, unreconciled, cluster, bounds>>

\* Mutation: the timeout frees the slot of a wallet whose key is still awaited.
KeygenTimeoutEarly(w) ==
  /\ w \in timers
  /\ timers' = timers \ {w}
  /\ tasks' = tasks \cup {<<w, "release">>, <<w, "timeout">>}
  /\ UNCHANGED <<status, queue, mode, unreconciled, cluster, bounds>>

\* WatchKeygenTimeout, three minutes later: the wallet is looked at here, and failed
\* in a statement of its own (failKeygen).
KeygenTimeout(w) ==
  /\ w \in timers
  /\ timers' = timers \ {w}
  /\ tasks' = tasks \cup {<<w, IF status[w] = "generating" THEN "timeout" ELSE "release">>}
  /\ UNCHANGED <<status, queue, mode, unreconciled, cluster, bounds>>
------------------------------------------------------------------------------
(* The MPC callback.                                                       *)

Answer(w, result) ==
  /\ mode # "down"
  /\ cluster[w] \in {"asked", result}
  /\ cluster' = [cluster EXCEPT ![w] = result]

OnKeygenFailed(w) ==
  /\ Answer(w, "failure")
  /\ SetWalletStatus(w, "failed")
  /\ tasks' = tasks \cup {<<w, "release">>}
  /\ UNCHANGED <<queue, timers, mode, unreconciled>>

\* Mutation: a failed result completes the wallet as well.
OnKeygenAnyResult(w) ==
  /\ \E result \in Results : Answer(w, result)
  /\ tasks' = tasks \cup {<<w, IF status[w] # "gone" THEN "complete" ELSE "release">>}
  /\ UNCHANGED <<status, queue, timers, mode, unreconciled, bounds>>

OnKeygen(w) ==
  /\ Answer(w, "success")
  /\ tasks' = tasks \cup {<<w, IF status[w] # "gone" THEN "complete" ELSE "release">>}
  /\ UNCHANGED <<status, queue, timers, mode, unreconciled, bounds>>

\* Mutation: the row gets a status the program does not know.
CompleteWalletKeygenUnknown(w) ==
  /\ <<w, "complete">> \in tasks
  /\ SetWalletStatus(w, "completed")
  /\ Continue(w, "complete", "release")
  /\ UNCHANGED <<queue, timers, mode, unreconciled, cluster>>

\* A wallet that failed meanwhile becomes ready after all.
CompleteWalletKeygen(w) ==
  /\ <<w, "complete">> \in tasks
  /\ SetWalletStatus(w, "ready")
  /\ Continue(w, "complete", "release")
  /\ UNCHANGED <<queue, timers, mode, unreconciled, cluster>>
------------------------------------------------------------------------------
(* Deletion; crash and restart of the process.                             *)

DeleteWallet(w) ==
  /\ mode = "up"
  /\ status[w] \notin {"none", "gone"}
  /\ status' = [status EXCEPT ![w] = "gone"]
  /\ UNCHANGED <<queue, tasks, timers, mode, unreconciled, cluster, bounds>>

Crash ==
  /\ mode # "down"
  /\ crashes < MaxCrashes
  /\ crashes' = crashes + 1
  /\ mode' = "down"
  /\ queue' = EmptyQueue
  /\ tasks' = {}
  /\ timers' = {}
  /\ unreconciled' = {}
  /\ UNCHANGED <<status, cluster, dbErrors>>

\* The callbacks are registered before Start reads the generating wallets.
Restart ==
  /\ mode = "down"
  /\ mode' = "starting"
  /\ unreconciled' = {w \in Wallet : status[w] = "generating"}
  /\ UNCHANGED <<status, queue, tasks, timers, cluster, bounds>>

\* With the quorum online the timeout starts anew, else the wallet fails.
ReconcilePending(w) ==
  /\ w \in unreconciled
  /\ unreconciled' = unreconciled \ {w}
  /\ \/ timers' = timers \cup {w} /\ UNCHANGED <<status, bounds>>
     \/ SetWalletStatus(w, "failed") /\ UNCHANGED timers
  /\ UNCHANGED <<queue, tasks, mode, cluster>>

Serve ==
  /\ mode = "starting"
  /\ unreconciled = {}
  /\ mode' = "up"
  /\ UNCHANGED <<status, queue, tasks, timers, unreconciled, cluster, bounds>>
------------------------------------------------------------------------------
\* What runs on by itself: goroutines and timers.
Run(w) ==
  \/ enqueueKeygen(w) \/ dispatchKeygen(w) \/ CreateKey(w) \/ failKeygen(w)
  \/ keygenFinished(w) \/ KeygenTimeout(w) \/ CompleteWalletKeygen(w) \/ ReconcilePending(w)

Next ==
  \/ \E w \in Wallet : \/ provision(w) \/ OnKeygenFailed(w) \/ OnKeygen(w)
                       \/ DeleteWallet(w) \/ Run(w)
  \/ Crash \/ Restart \/ Serve

Spec == Init /\ [][Next]_vars

\* Nothing obliges a user to create a wallet, the cluster to answer or the process
\* to crash; each goroutine runs on, whatever another one of the wallet does.
Fairness ==
  /\ \A w \in Wallet :
       /\ WF_vars(enqueueKeygen(w)) /\ WF_vars(dispatchKeygen(w)) /\ WF_vars(CreateKey(w))
       /\ WF_vars(failKeygen(w)) /\ WF_vars(keygenFinished(w)) /\ WF_vars(KeygenTimeout(w))
       /\ WF_vars(CompleteWalletKeygen(w)) /\ WF_vars(ReconcilePending(w))
  /\ WF_vars(Restart) /\ WF_vars(Serve)

FairSpec == Spec /\ Fairness
------------------------------------------------------------------------------
\* "one keygen at a time" (backend/README.md): within one process life, while the
\* database answers, the cluster works for no more generating wallets than there
\* are slots, whichever timeouts, errors and deletions freed the slots.
OneKeygenAtATime ==
  crashes = 0 /\ dbErrors = 0 =>
    Cardinality({w \in Wallet : status[w] = "generating" /\ cluster[w] # "idle"})
      <= EffectiveLimit(maxInflightKeygens)

\* Every slot that is taken has a goroutine or a timer that will free it, that of a
\* wallet deleted in line or under way included.
NoSlotLeak ==
  \A w \in queue.inflight : w \in timers \/ \E step \in Steps : <<w, step>> \in tasks

\* A wallet that can receive money has a key: the cluster generated it, over
\* timeouts, restarts and results that come twice.
ReadyHasKey == \A w \in Wallet : status[w] = "ready" => cluster[w] = "success"

\* No wallet generates for ever, although the cluster may never answer and the
\* process may die; a failing statement is the exception, until the next restart.
GeneratingEnds ==
  \A w \in Wallet : status[w] = "generating" ~> status[w] # "generating" \/ dbErrors > 0

\* "WatchKeygenTimeout fails a wallet still generating after the timeout"
\* (mpc_policy.go): no timeout fails a wallet that is ready.
TimeoutFailsGenerating ==
  [][\A w \in Wallet :
       <<w, "timeout">> \in tasks \ tasks' /\ status[w] = "ready" => status'[w] = "ready"]_vars
==============================================================================
