---------------------------- MODULE PaymentRequest ---------------------------
(***************************************************************************)
(* What a held payment promises its team (service/payment_request.go),     *)
(* without statements, goroutines, stale looks, transaction rows or        *)
(* restarts.  It collects the approvals of people other than its           *)
(* initiator who decided before its end, also those that arrive after it,  *)
(* begins to execute when they are as many as it requires, is sent once    *)
(* and only while it executes, is executed only if it was paid, and stays  *)
(* closed.                                                                 *)
(***************************************************************************)
EXTENDS Integers, FiniteSets

CONSTANTS User, Request

VARIABLES status,     \* what the team sees; "none" before the payment is held
          initiator,  \* who started each payment
          required,   \* the approvals each request was held with
          approvals,  \* who approved each request
          approving,  \* who decided to approve each request before its end
          stopping,   \* requests somebody decided before their end to reject or cancel
          expired,    \* requests whose seven days are over
          sent,       \* requests for which a transaction was created
          paid        \* requests whose payment the ledger applied

requestVars == <<status, required, approvals, expired>>
decisions == <<approving, stopping>>
vars == <<requestVars, decisions, initiator, sent, paid>>

Init ==
  /\ status = [r \in Request |-> "none"]
  /\ initiator \in [Request -> User]
  /\ required = [r \in Request |-> 0]
  /\ approvals = [r \in Request |-> {}]
  /\ approving = [r \in Request |-> {}]
  /\ stopping = {}
  /\ expired = {}
  /\ sent = {}
  /\ paid = {}

Move(r, from, to) == status[r] = from /\ status' = [status EXCEPT ![r] = to]

Hold(r) ==
  /\ Move(r, "none", "pending")
  /\ \E n \in 1 .. Cardinality(User) : required' = [required EXCEPT ![r] = n]
  /\ UNCHANGED <<decisions, initiator, approvals, expired, sent, paid>>

Expire(r) ==
  /\ status[r] = "pending"
  /\ expired' = expired \cup {r}
  /\ UNCHANGED <<decisions, status, initiator, required, approvals, sent, paid>>

\* Nobody decides on a request whose seven days are over.
Decide(r) ==
  /\ status[r] = "pending"
  /\ r \notin expired
  /\ \/ /\ \E u \in User : approving' = [approving EXCEPT ![r] = @ \cup {u}]
        /\ UNCHANGED stopping
     \/ stopping' = stopping \cup {r} /\ UNCHANGED approving
  /\ UNCHANGED <<requestVars, initiator, sent, paid>>

\* A decision comes to nothing: somebody else's was first, or the process stopped.
Fewer == (\A r \in Request : approving'[r] \subseteq approving[r]) /\ stopping' \subseteq stopping
Withdraw == Fewer /\ UNCHANGED <<requestVars, initiator, sent, paid>>

\* The approval that makes them enough may begin the execution; whose approvals
\* count is a matter of the members, whom this module does not know.
Approve(u, r) ==
  /\ status[r] = "pending"
  /\ u \in approving[r] \ (approvals[r] \cup {initiator[r]})
  /\ approvals' = [approvals EXCEPT ![r] = @ \cup {u}]
  /\ \/ UNCHANGED status
     \/ Cardinality(approvals'[r]) >= required[r] /\ Move(r, "pending", "executing")
  /\ Fewer
  /\ UNCHANGED <<initiator, required, expired, sent, paid>>

\* One rejection or a cancellation.
Stop(r) ==
  /\ r \in stopping
  /\ \E end \in {"rejected", "cancelled"} : Move(r, "pending", end)
  /\ Fewer
  /\ UNCHANGED <<initiator, required, approvals, expired, sent, paid>>

Send(r) ==
  /\ status[r] = "executing"
  /\ r \notin sent
  /\ sent' = sent \cup {r}
  /\ UNCHANGED <<requestVars, decisions, initiator, paid>>

\* The ledger may apply the payment whatever became of the request that sent it.
Pay(r) ==
  /\ r \in sent \ paid
  /\ paid' = paid \cup {r}
  /\ UNCHANGED <<requestVars, decisions, initiator, sent>>

Close(r) ==
  /\ \/ r \in paid /\ Move(r, "executing", "executed")
     \/ Move(r, "executing", "failed")
  /\ UNCHANGED <<decisions, initiator, required, approvals, expired, sent, paid>>

Next ==
  \/ Withdraw
  \/ \E r \in Request :
       \/ Hold(r) \/ Expire(r) \/ Decide(r) \/ Stop(r) \/ Send(r) \/ Pay(r) \/ Close(r)
       \/ \E u \in User : Approve(u, r)

Spec == Init /\ [][Next]_vars
==============================================================================
