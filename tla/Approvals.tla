------------------------------ MODULE Approvals ------------------------------
(***************************************************************************)
(* Payment requests of a team workspace: a held payment collects votes,    *)
(* the last approval claims it, and the goroutine that claimed it sends    *)
(* the payment (service/payment_request.go over                            *)
(* repository/sqlite/payment_requests.go).  Members changes roles and      *)
(* policy meanwhile.  The life of the transaction that a request sends is  *)
(* the one TransactionLifecycle promises, with the step that reports an    *)
(* end to the request (settle) and the errors that dispatch returns.       *)
(*                                                                         *)
(* Each request stands for the one transaction it assigns; sends counts    *)
(* the rows that were created for it.  One wallet sends all of them.       *)
(***************************************************************************)
EXTENDS Members

CONSTANTS Request,     \* payment request ids
          MaxCalls,    \* bound on the votes and cancellations that are handled at once
          MaxEvents,   \* bound on the changes of members and policy and the crashes together
          MaxCrashes   \* bound on the process crashes of a behaviour

ASSUME ApprovalsAssumption == MaxCalls \in Nat /\ MaxEvents \in Nat /\ MaxCrashes \in Nat

VARIABLES
  reqStatus,    \* DB: status of each request, "none" without a row
  initiator,    \* DB: who started the payment
  required,     \* DB: required_approvals, copied from the policy by hold
  votes,        \* DB: each user's vote on each request, "none" without a row
  expired,      \* requests whose expires_at has passed
  assigned,     \* DB: requests whose transaction_id is set
  txStatus,     \* DB: status of the request's transaction
  signature,    \* DB: requests whose transaction ever got its signature
  walletExists, \* DB: the wallet the requests spend from
  tasks,        \* memory: next steps <<request, step>> of goroutines
  ballots,      \* memory: votes <<user, request, decision>> of handlers that looked at the
                \* request and read the clock
  cancels,      \* memory: requests of which a handler of Cancel did
  mode,         \* "up", "down", or "starting" until ReconcileExecuting is through
  unreconciled, \* memory: executing requests ReconcileExecuting has still to settle
  asked,        \* cluster: transactions it was asked to sign
  ledger,       \* Stellar: transactions that were applied
  sends,        \* how many transaction rows each request created
  unsent,       \* requests a restart failed as "restarted before this payment was sent"
  changes, crashes

requestVars == <<reqStatus, initiator, required, votes, expired, assigned>>
txVars      == <<txStatus, signature, asked, ledger, sends>>
voteVars    == <<ballots, cancels>>
memoryVars  == <<voteVars, mode, unreconciled>>
restVars    == <<walletExists, unsent, changes, crashes>>
vars == <<memberVars, requestVars, txVars, tasks, memoryVars, restVars>>

TxStatus  == {"none", "signing", "broadcast", "confirmed", "failed", "gone"}
Closed    == {"executed", "failed", "rejected", "cancelled"}
ReqStatus == {"none", "pending", "executing"} \cup Closed
Steps     == {"count", "insert", "execute", "role", "assign", "send", "dispatch", "queued",
              "abandon", "failsign", "fail", "lookup", "submit", "confirm", "reject",
              "settle", "executed", "failed"}

TypeOK ==
  /\ MembersTypeOK
  /\ reqStatus \in [Request -> ReqStatus]
  /\ initiator \in [Request -> User]
  /\ required \in [Request -> 0 .. Cardinality(User)]
  /\ votes \in [Request -> [User -> {"none", "approve", "reject"}]]
  /\ expired \subseteq Request
  /\ assigned \subseteq Request
  /\ txStatus \in [Request -> TxStatus]
  /\ signature \subseteq Request
  /\ walletExists \in BOOLEAN
  /\ tasks \subseteq Request \X Steps
  /\ ballots \subseteq User \X Request \X {"approve", "reject"}
  /\ cancels \subseteq Request
  /\ mode \in {"up", "down", "starting"}
  /\ unreconciled \subseteq Request
  /\ asked \subseteq Request
  /\ ledger \subseteq Request
  /\ sends \in [Request -> Nat]
  /\ unsent \subseteq Request
  /\ changes \in 0 .. MaxEvents
  /\ crashes \in 0 .. MaxCrashes

Init ==
  /\ MembersInit
  /\ reqStatus = [r \in Request |-> "none"]
  /\ initiator \in [Request -> {u \in User : CanSend(role[u])}]
  /\ required = [r \in Request |-> 0]
  /\ votes = [r \in Request |-> [u \in User |-> "none"]]
  /\ expired = {}
  /\ assigned = {}
  /\ txStatus = [r \in Request |-> "none"]
  /\ signature = {}
  /\ walletExists = TRUE
  /\ tasks = {}
  /\ ballots = {}
  /\ cancels = {}
  /\ mode = "up"
  /\ unreconciled = {}
  /\ asked = {}
  /\ ledger = {}
  /\ sends = [r \in Request |-> 0]
  /\ unsent = {}
  /\ changes = 0
  /\ crashes = 0

Continue(r, from, to) == tasks' = (tasks \ {<<r, from>>}) \cup {<<r, to>>}
Finish(r, from) == tasks' = tasks \ {<<r, from>>}

\* Mutation: the UPDATE does not look at the status it leaves.
TransitionAlways(r, from, to) == reqStatus' = [reqStatus EXCEPT ![r] = to]

\* The conditional UPDATEs of payment_requests: no effect on another status.
Transition(r, from, to) ==
  reqStatus' = IF reqStatus[r] = from THEN [reqStatus EXCEPT ![r] = to] ELSE reqStatus
------------------------------------------------------------------------------
(* A payment is held.  The statements of hold run one after the other.      *)

\* The sender and the wallet have been checked, and the policy asks for approval.
hold(r) ==
  /\ mode = "up"
  /\ reqStatus[r] = "none"
  /\ \A step \in Steps : <<r, step>> \notin tasks
  /\ walletExists
  /\ CanSend(role[initiator[r]])
  /\ policy # 0
  /\ required' = [required EXCEPT ![r] = policy]
  /\ tasks' = tasks \cup {<<r, "count">>}
  /\ UNCHANGED <<memberVars, reqStatus, initiator, votes, expired, assigned, txVars,
                 memoryVars, restVars>>

\* Without enough approvers the payment is refused.
CountApprovers(r) ==
  /\ <<r, "count">> \in tasks
  /\ IF required[r] <= maxApprovals THEN Continue(r, "count", "insert") ELSE Finish(r, "count")
  /\ UNCHANGED <<memberVars, requestVars, txVars, memoryVars, restVars>>

CreatePaymentRequest(r) ==
  /\ <<r, "insert">> \in tasks
  /\ reqStatus' = [reqStatus EXCEPT ![r] = "pending"]
  /\ Finish(r, "insert")
  /\ UNCHANGED <<memberVars, initiator, required, votes, expired, assigned, txVars,
                 memoryVars, restVars>>

\* Seven days pass.
Expire(r) ==
  /\ reqStatus[r] = "pending"
  /\ r \notin expired
  /\ expired' = expired \cup {r}
  /\ UNCHANGED <<memberVars, reqStatus, initiator, required, votes, assigned, txVars,
                 tasks, memoryVars, restVars>>
------------------------------------------------------------------------------
(* Votes and cancellation.                                                 *)

\* Handlers run as many at once as requests arrive; MaxCalls bounds them.
CanCall == Cardinality(ballots) + Cardinality(cancels) < MaxCalls

\* Mutation: nobody compares the clock with the end of the request.
OpenEver(r) == reqStatus[r] = "pending"

Open(r) == reqStatus[r] = "pending" /\ r \notin expired

\* Mutation: initiators may vote on their own payments.
votableRequestBySelf(u, r, decision) ==
  /\ mode = "up"
  /\ CanCall
  /\ CanSend(role[u])
  /\ Open(r)
  /\ votes[r][u] = "none"
  /\ ballots' = ballots \cup {<<u, r, decision>>}
  /\ UNCHANGED <<memberVars, requestVars, txVars, tasks, cancels, mode, unreconciled, restVars>>

\* Approve and Reject look at the request, then read the clock (now).  Only a clock from
\* before the end lets them go on, so that the look and the clock are one step: what
\* ends between the two comes to nothing, like a vote that never looked.
votableRequest(u, r, decision) ==
  /\ mode = "up"
  /\ CanCall
  /\ CanSend(role[u])
  /\ initiator[r] # u
  /\ Open(r)
  /\ votes[r][u] = "none"
  /\ ballots' = ballots \cup {<<u, r, decision>>}
  /\ UNCHANGED <<memberVars, requestVars, txVars, tasks, cancels, mode, unreconciled, restVars>>

\* Mutation: every approval counts, whoever cast it since left.
CountedEver(vote) == {u \in User : vote[u] = "approve"}

\* The approvals that count: those of the current owners and operators.
Counted(vote) == {u \in User : vote[u] = "approve" /\ CanSend(role[u])}

\* Mutation: the transaction relies on the earlier look at the status.
RecordableClosed(u, r) == votes[r][u] = "none"

\* insertVote: the vote enters a pending request, one for each user, or rolls back; the
\* clock it compares expires_at with is the one that was read before.
Recordable(u, r) == reqStatus[r] = "pending" /\ votes[r][u] = "none"
insertVote(u, r, decision) == votes' = [votes EXCEPT ![r][u] = decision]

\* They vote in a second SQL transaction, which claims the request when the
\* approvals suffice.
RecordApproval(u, r) ==
  /\ <<u, r, "approve">> \in ballots
  /\ ballots' = ballots \ {<<u, r, "approve">>}
  /\ \/ /\ Recordable(u, r)
        /\ insertVote(u, r, "approve")
        /\ IF required[r] <= Cardinality(Counted(votes'[r]))
           THEN /\ Transition(r, "pending", "executing")
                /\ tasks' = tasks \cup {<<r, "execute">>}
           ELSE UNCHANGED <<reqStatus, tasks>>
     \/ ~Recordable(u, r) /\ UNCHANGED <<votes, reqStatus, tasks>>
  /\ UNCHANGED <<memberVars, initiator, required, expired, assigned, txVars,
                 cancels, mode, unreconciled, restVars>>

RecordRejection(u, r) ==
  /\ <<u, r, "reject">> \in ballots
  /\ ballots' = ballots \ {<<u, r, "reject">>}
  /\ \/ Recordable(u, r) /\ insertVote(u, r, "reject") /\ Transition(r, "pending", "rejected")
     \/ ~Recordable(u, r) /\ UNCHANGED <<votes, reqStatus>>
  /\ UNCHANGED <<memberVars, initiator, required, expired, assigned, txVars, tasks,
                 cancels, mode, unreconciled, restVars>>

\* The initiator or an owner, and there always is one, asks for a cancellation and
\* reads the clock; after the seven days, or of a closed request, that changes nothing.
Cancel(r) ==
  /\ mode = "up"
  /\ CanCall
  /\ Open(r)
  /\ cancels' = cancels \cup {r}
  /\ UNCHANGED <<memberVars, requestVars, txVars, tasks, ballots, mode, unreconciled,
                 restVars>>

CancelPaymentRequest(r) ==
  /\ r \in cancels
  /\ cancels' = cancels \ {r}
  /\ Transition(r, "pending", "cancelled")
  /\ UNCHANGED <<memberVars, initiator, required, votes, expired, assigned, txVars, tasks,
                 ballots, mode, unreconciled, restVars>>
------------------------------------------------------------------------------
(* execute: the goroutine that claimed the request sends the payment.      *)

sentElsewhere == <<memberVars, initiator, required, votes, expired, memoryVars, restVars>>

\* fail ends the goroutine; FailPaymentRequest changes an executing request only.
fail(r, from) ==
  /\ Transition(r, "executing", "failed")
  /\ Finish(r, from)

CheckWallet(r) ==
  /\ <<r, "execute">> \in tasks
  /\ IF walletExists
     THEN Continue(r, "execute", "role") /\ UNCHANGED reqStatus
     ELSE fail(r, "execute")
  /\ UNCHANGED <<assigned, txVars, sentElsewhere>>

CheckInitiator(r) ==
  /\ <<r, "role">> \in tasks
  /\ IF CanSend(role[initiator[r]])
     THEN Continue(r, "role", "assign") /\ UNCHANGED reqStatus
     ELSE fail(r, "role")
  /\ UNCHANGED <<assigned, txVars, sentElsewhere>>

\* The id of the transaction is saved before its row, or the request fails.
AssignTransaction(r) ==
  /\ <<r, "assign">> \in tasks
  /\ \/ /\ assigned' = IF reqStatus[r] = "executing" THEN assigned \cup {r} ELSE assigned
        /\ Continue(r, "assign", "send")
        /\ UNCHANGED reqStatus
     \/ fail(r, "assign") /\ UNCHANGED assigned
  /\ UNCHANGED <<txVars, sentElsewhere>>

\* sendPayment saves the row, or cannot build the envelope or save it.
sendPayment(r) ==
  /\ <<r, "send">> \in tasks
  /\ \/ /\ txStatus' = [txStatus EXCEPT ![r] = "signing"]
        /\ sends' = [sends EXCEPT ![r] = @ + 1]
        /\ Continue(r, "send", "dispatch")
        /\ UNCHANGED <<reqStatus, signature, asked, ledger>>
     \/ fail(r, "send") /\ UNCHANGED txVars
  /\ UNCHANGED <<assigned, sentElsewhere>>

\* Mutation: the failed row is not published, so nobody settles its request.
FailSigningSilently(r, from, to) ==
  /\ txStatus' = IF txStatus[r] = "signing" THEN [txStatus EXCEPT ![r] = "failed"] ELSE txStatus
  /\ tasks' = (tasks \ {<<r, from>>}) \cup {<<r, step>> : step \in to}

\* FailSigning changes a row that is still signing, which is then settled.
FailSigning(r, from, to) ==
  IF txStatus[r] = "signing"
  THEN /\ txStatus' = [txStatus EXCEPT ![r] = "failed"]
       /\ tasks' = (tasks \ {<<r, from>>}) \cup {<<r, step>> : step \in to \cup {"settle"}}
  ELSE /\ tasks' = (tasks \ {<<r, from>>}) \cup {<<r, step>> : step \in to}
       /\ UNCHANGED txStatus

\* The transaction gets a slot at once or waits in line for another goroutine to
\* dispatch it.  mpc.Sign may report an error although the request got through;
\* only execute, when it dispatched itself, learns of the error.
enqueueSign(r) ==
  /\ <<r, "dispatch">> \in tasks
  /\ \/ Finish(r, "dispatch") /\ asked' = asked \cup {r}
     \/ Continue(r, "dispatch", "queued") /\ UNCHANGED asked
     \/ Continue(r, "dispatch", "failsign") /\ asked' \in {asked, asked \cup {r}}
  /\ UNCHANGED <<reqStatus, assigned, txStatus, signature, ledger, sends, sentElsewhere>>

dispatchQueued(r) ==
  /\ <<r, "queued">> \in tasks
  /\ \/ Finish(r, "queued") /\ asked' = asked \cup {r}
     \/ Continue(r, "queued", "abandon") /\ asked' \in {asked, asked \cup {r}}
  /\ UNCHANGED <<reqStatus, assigned, txStatus, signature, ledger, sends, sentElsewhere>>

\* failSigning after a dispatch error; execute then gets the error and fails the
\* request, whatever became of the row.
failSigning(r) ==
  /\ \/ <<r, "failsign">> \in tasks /\ FailSigning(r, "failsign", {"fail"})
     \/ <<r, "abandon">> \in tasks /\ FailSigning(r, "abandon", {})
  /\ UNCHANGED <<reqStatus, assigned, signature, asked, ledger, sends, sentElsewhere>>

FailPaymentRequest(r) ==
  /\ <<r, "fail">> \in tasks
  /\ fail(r, "fail")
  /\ UNCHANGED <<assigned, txVars, sentElsewhere>>
------------------------------------------------------------------------------
(* The transaction of a request, as TransactionLifecycle has it.            *)

Dispatching(r) == \E step \in {"dispatch", "queued", "failsign", "abandon"} : <<r, step>> \in tasks

\* The cluster refuses, or the timer of a dispatched or reconciled row expires.
Abandon(r) ==
  /\ mode # "down"
  /\ txStatus[r] = "signing"
  /\ r \in asked \/ ~Dispatching(r)
  /\ FailSigning(r, "abandon", {})
  /\ UNCHANGED <<reqStatus, assigned, signature, asked, ledger, sends, sentElsewhere>>

ClaimSignature(r) ==
  /\ mode # "down"
  /\ r \in asked
  /\ txStatus[r] = "signing"
  /\ txStatus' = [txStatus EXCEPT ![r] = "broadcast"]
  /\ signature' = signature \cup {r}
  /\ tasks' = tasks \cup {<<r, "lookup">>}
  /\ UNCHANGED <<reqStatus, assigned, asked, ledger, sends, sentElsewhere>>

WalletLookup(r) ==
  /\ <<r, "lookup">> \in tasks
  /\ Continue(r, "lookup", IF walletExists THEN "submit" ELSE "reject")
  /\ UNCHANGED <<reqStatus, assigned, txVars, sentElsewhere>>

\* Horizon applies the envelope or not; its answer may get lost on the way back.
Submit(r) ==
  /\ <<r, "submit">> \in tasks
  /\ \/ /\ ledger' = ledger \cup {r}
        /\ \E answer \in {"confirm", "reject"} : Continue(r, "submit", answer)
     \/ Continue(r, "submit", "reject") /\ UNCHANGED ledger
  /\ UNCHANGED <<reqStatus, assigned, txStatus, signature, asked, sends, sentElsewhere>>

\* ConfirmTransaction and FailTransaction: UPDATEs of a row that may be gone.
End(r, from, new) ==
  /\ <<r, from>> \in tasks
  /\ txStatus' = [txStatus EXCEPT ![r] = IF @ = "gone" THEN @ ELSE new]
  /\ Continue(r, from, "settle")
  /\ UNCHANGED <<reqStatus, assigned, signature, asked, ledger, sends, sentElsewhere>>

\* Mutations: a status the table does not know, and a refused envelope confirmed.
ConfirmTransactionUnknown(r) == End(r, "confirm", "executed")
FailTransactionConfirms(r) == End(r, "reject", "confirmed")

ConfirmTransaction(r) == End(r, "confirm", "confirmed")
FailTransaction(r)    == End(r, "reject", "failed")

\* publishTransactionByID reads the row, and settle closes the request that owns it.
settle(r) ==
  /\ <<r, "settle">> \in tasks
  /\ \/ txStatus[r] = "confirmed" /\ Continue(r, "settle", "executed")
     \/ txStatus[r] = "failed" /\ Continue(r, "settle", "failed")
     \/ txStatus[r] \notin {"confirmed", "failed"} /\ Finish(r, "settle")
  /\ UNCHANGED <<reqStatus, assigned, txVars, sentElsewhere>>

SettleByTransaction(r) ==
  /\ \E end \in {"executed", "failed"} :
       /\ <<r, end>> \in tasks
       /\ Finish(r, end)
       /\ IF r \in assigned THEN Transition(r, "executing", end) ELSE UNCHANGED reqStatus
  /\ UNCHANGED <<assigned, txVars, sentElsewhere>>
------------------------------------------------------------------------------
(* Members, deletion of the wallet, crash and restart.                      *)

ChangeMembers ==
  /\ mode = "up"
  /\ changes + crashes < MaxEvents
  /\ changes' = changes + 1
  /\ MembersNext
  /\ UNCHANGED <<requestVars, txVars, tasks, memoryVars, walletExists, unsent, crashes>>

\* The wallet goes with its transactions; payment requests have no foreign key to it.
DeleteWallet ==
  /\ mode = "up"
  /\ walletExists
  /\ walletExists' = FALSE
  /\ txStatus' = [r \in Request |-> IF txStatus[r] = "none" THEN "none" ELSE "gone"]
  /\ UNCHANGED <<memberVars, requestVars, signature, asked, ledger, sends, tasks,
                 memoryVars, unsent, changes, crashes>>

Crash ==
  /\ mode # "down"
  /\ crashes < MaxCrashes /\ changes + crashes < MaxEvents
  /\ crashes' = crashes + 1
  /\ mode' = "down"
  /\ tasks' = {}
  /\ ballots' = {}
  /\ cancels' = {}
  /\ policySaves' = {}
  /\ unreconciled' = {}
  /\ UNCHANGED <<role, policy, requestVars, txVars, walletExists, unsent, changes>>

\* Signatures that are still under way are awaited anew (TransactionService's
\* ReconcilePending) before ReconcileExecuting reads the executing requests.
Restart ==
  /\ mode = "down"
  /\ mode' = "starting"
  /\ unreconciled' = {r \in Request : reqStatus[r] = "executing"}
  /\ UNCHANGED <<memberVars, requestVars, txVars, tasks, voteVars, restVars>>

\* A request without a transaction row was not sent; the others are settled.
ReconcileExecuting(r) ==
  /\ r \in unreconciled
  /\ unreconciled' = unreconciled \ {r}
  /\ \/ /\ r \notin assigned \/ txStatus[r] \in {"none", "gone"}
        /\ Transition(r, "executing", "failed")
        /\ unsent' = IF reqStatus[r] = "executing" THEN unsent \cup {r} ELSE unsent
        /\ UNCHANGED tasks
     \/ /\ r \in assigned /\ txStatus[r] \notin {"none", "gone"}
        /\ tasks' = tasks \cup {<<r, "settle">>}
        /\ UNCHANGED <<reqStatus, unsent>>
  /\ UNCHANGED <<memberVars, initiator, required, votes, expired, assigned, txVars,
                 voteVars, mode, walletExists, changes, crashes>>

Serve ==
  /\ mode = "starting"
  /\ unreconciled = {}
  /\ mode' = "up"
  /\ UNCHANGED <<memberVars, requestVars, txVars, tasks, voteVars, unreconciled, restVars>>
------------------------------------------------------------------------------
\* What runs on without anybody's doing: goroutines, timers, the restarted process.
Run(r) ==
  \/ CountApprovers(r) \/ CreatePaymentRequest(r)
  \/ CheckWallet(r) \/ CheckInitiator(r) \/ AssignTransaction(r) \/ sendPayment(r)
  \/ enqueueSign(r) \/ dispatchQueued(r) \/ failSigning(r) \/ FailPaymentRequest(r)
  \/ WalletLookup(r) \/ Submit(r) \/ ConfirmTransaction(r) \/ FailTransaction(r)
  \/ settle(r) \/ SettleByTransaction(r) \/ ReconcileExecuting(r)

Next ==
  \/ \E r \in Request : \/ hold(r) \/ Expire(r) \/ Cancel(r) \/ CancelPaymentRequest(r)
                        \/ Abandon(r) \/ ClaimSignature(r) \/ Run(r)
  \/ \E u \in User, r \in Request :
       \/ \E decision \in {"approve", "reject"} : votableRequest(u, r, decision)
       \/ RecordApproval(u, r) \/ RecordRejection(u, r)
  \/ ChangeMembers \/ DeleteWallet \/ Crash \/ Restart \/ Serve

Spec == Init /\ [][Next]_vars

\* Signing shows that a transaction that waits for its signature leaves that status
\* (SigningEnds), which Abandon does here; users and the cluster owe nothing.
Fairness ==
  /\ \A r \in Request :
       /\ WF_vars(Run(r)) /\ WF_vars(Abandon(r)) /\ WF_vars(CancelPaymentRequest(r))
       /\ \A u \in User : WF_vars(RecordApproval(u, r) \/ RecordRejection(u, r))
  /\ WF_vars(Restart) /\ WF_vars(Serve)

FairSpec == Spec /\ Fairness
------------------------------------------------------------------------------
\* A payment is sent only on enough approvals of people other than its initiator,
\* over concurrent votes, stale looks at the request and changes of members.
EnoughApprovers ==
  \A r \in Request : sends[r] > 0 =>
    /\ required[r] > 0
    /\ Cardinality({u \in User \ {initiator[r]} : votes[r][u] = "approve"}) >= required[r]

\* Only approvals of members who may send at that moment claim a request: those
\* who approved and were demoted or removed since do not count (RecordApproval).
ClaimedByCurrentApprovers ==
  [][\A r \in Request : reqStatus[r] = "pending" /\ reqStatus'[r] = "executing" =>
       Cardinality({u \in User \ {initiator[r]} : votes'[r][u] = "approve" /\ CanSend(role[u])})
         >= required[r]]_vars

\* "a payment is sent at most once" (payment_request.go), also when the last two
\* approvals arrive together and when the process restarts in between.
SentAtMostOnce == \A r \in Request : sends[r] <= 1

\* What was rejected or cancelled, and what expired while nobody had begun an approval
\* with a clock from before the end: such an approval may still be recorded after it.
Stopped(r) ==
  \/ reqStatus[r] \in {"rejected", "cancelled"}
  \/ \E u \in User : votes[r][u] = "reject"
  \/ /\ reqStatus[r] = "pending" /\ r \in expired
     /\ \A u \in User : <<u, r, "approve">> \notin ballots

\* One rejection that was accepted or a cancellation stops the payment for good, whatever
\* was looked at before it; so does the end of the seven days, but for an approval whose
\* handler read the clock before it and has not recorded it yet.
StoppedNeverSent == [][\A r \in Request : Stopped(r) => Stopped(r)' /\ sends'[r] = 0]_vars

\* An executed request is a payment the ledger holds (part of ImplementsRequest).
ExecutedIsOnLedger == \A r \in Request : reqStatus[r] = "executed" => r \in ledger

\* A closed request stays as it is: late votes, settlements, dispatch errors and
\* restarts find the status they want to leave already left (part of ImplementsRequest).
ClosedStaysClosed ==
  [][\A r \in Request : reqStatus[r] \in Closed => reqStatus'[r] = reqStatus[r]]_vars

\* Without restarts and while its wallet exists, an executing request closes.
ExecutingCloses ==
  \A r \in Request : reqStatus[r] = "executing" ~> reqStatus[r] \in Closed \/ ~walletExists

\* Requests keep the promise of PaymentRequest, and the transactions they send take the
\* path of TransactionLifecycle, which is also the one that Signing implements.
HeldRequired  == [r \in Request |-> IF reqStatus[r] = "none" THEN 0 ELSE required[r]]
HeldApprovals == [r \in Request |-> {u \in User : votes[r][u] = "approve"}]
HeldSent      == {r \in Request : sends[r] > 0}
HeldApproving == [r \in Request |-> {u \in User : <<u, r, "approve">> \in ballots}]
HeldStopping  == cancels \cup {r \in Request : \E u \in User : <<u, r, "reject">> \in ballots}
Held == INSTANCE PaymentRequest WITH status <- reqStatus, required <- HeldRequired,
                                     approvals <- HeldApprovals, sent <- HeldSent, paid <- ledger,
                                     approving <- HeldApproving, stopping <- HeldStopping
Lifecycle == INSTANCE TransactionLifecycle WITH
               Tx <- Request, status <- txStatus, signed <- signature

\* A request is held, approved by enough others who decided before its end, sent once,
\* paid and closed, in this order and in no other, over votes that overtake each other, the goroutines of its
\* payment, a deleted wallet and restarts.
ImplementsRequest == Held!Spec

\* Only what a request sent and the cluster signed is applied or confirmed, and a
\* final row stays, although dispatch errors, timers and results race for the row.
ImplementsLifecycle == Lifecycle!Spec

\* "The transaction id is recorded before signing starts, so a restart can tell a
\* sent payment from an unsent one" (payment_request.go): what a restart reports
\* as not sent is not on the ledger.
RestartTellsSent == \A r \in unsent : r \notin ledger
==============================================================================
