--------------------------- MODULE ApprovalsProofs ---------------------------
(***************************************************************************)
(* For any team, any number of requests, of changes of members and of      *)
(* crashes: a payment is sent at most once, on enough approvals of others, *)
(* and never after it was stopped, where an approval that read its clock   *)
(* before the end may come after it; a closed request stays as it is, and  *)
(* an executed one is on the ledger.  Requests implement PaymentRequest    *)
(* and their transactions TransactionLifecycle.  A team always has an      *)
(* owner, and no change of members takes the approvers below what the      *)
(* policy in force requires.                                               *)
(***************************************************************************)
EXTENDS Approvals, FiniteSetTheorems, TLAPS
------------------------------------------------------------------------------
(* The team.                                                                *)

Owners == {u \in User : role[u] = "owner"}

LEMMA SendersFinite == IsFiniteSet(Senders)
<1>1. Senders \subseteq User
  BY DEF Senders
<1> QED
  BY <1>1, UserAssumption, FS_Subset

\* A workspace never has more approvers than users.
LEMMA ApproversBounded == maxApprovals \in 0 .. Cardinality(User)
<1>1. IsFiniteSet(User) /\ Senders \subseteq User
  BY UserAssumption DEF Senders
<1>2. Cardinality(User) \in Nat /\ CountSenders \in Nat /\ CountSenders <= Cardinality(User)
  BY <1>1, FS_Subset, FS_CardinalityType DEF CountSenders
<1> QED
  BY <1>2 DEF maxApprovals

\* With another owner there, one of them is not u.
LEMMA OtherOwner ==
  ASSUME NEW u \in User, requireAnotherOwner
  PROVE  \E v \in User \ {u} : role[v] = "owner"
<1>1. IsFiniteSet(Owners) /\ Cardinality(Owners) > 1
  BY UserAssumption, FS_Subset DEF Owners, requireAnotherOwner
<1>2. /\ IsFiniteSet(Owners \ {u})
      /\ Cardinality(Owners \ {u}) = IF u \in Owners THEN Cardinality(Owners) - 1
                                     ELSE Cardinality(Owners)
      /\ Cardinality(Owners) \in Nat
  BY <1>1, FS_RemoveElement, FS_CardinalityType
<1>3. Cardinality(Owners \ {u}) # 0
  BY <1>1, <1>2
<1>4. Owners \ {u} # {}
  BY <1>3, FS_EmptySet
<1> QED
  BY <1>4 DEF Owners

MembersInv == MembersTypeOK /\ HasOwner

LEMMA InitMembers == MembersInit => MembersInv
<1> SUFFICES ASSUME MembersInit
             PROVE  MembersInv
  OBVIOUS
<1>1. policy \in 0 .. Cardinality(User)
  BY ApproversBounded, UserAssumption, FS_CardinalityType DEF MembersInit
<1>2. HasOwner
  BY DEF MembersInit, HasOwner
<1> QED
  BY <1>1, <1>2 DEF MembersInit, MembersInv, MembersTypeOK

LEMMA NextMembers ==
  ASSUME MembersInv, [MembersNext]_memberVars
  PROVE  MembersInv'
<1> USE DEF MembersInv, MembersTypeOK
<1>1. ASSUME NEW u \in User, RemoveMember(u)
      PROVE  MembersInv'
  <2>1. \E v \in User \ {u} : role[v] = "owner"
    BY <1>1, OtherOwner DEF RemoveMember, HasOwner
  <2>2. HasOwner'
    BY <1>1, <2>1 DEF RemoveMember, HasOwner
  <2> QED
    BY <1>1, <2>2 DEF RemoveMember
<1>2. ASSUME NEW u \in User, NEW new \in Valid, UpdateMemberRole(u, new)
      PROVE  MembersInv'
  <2>1. HasOwner'
    <3>1. CASE new = "owner"
      BY <1>2, <3>1 DEF UpdateMemberRole, HasOwner
    <3>2. CASE new # "owner"
      <4>1. \E v \in User \ {u} : role[v] = "owner"
        BY <1>2, <3>2, OtherOwner DEF UpdateMemberRole, HasOwner
      <4> QED
        BY <1>2, <4>1 DEF UpdateMemberRole, HasOwner
    <3> QED
      BY <3>1, <3>2
  <2> QED
    BY <1>2, <2>1 DEF UpdateMemberRole
<1>3. ASSUME NEW u \in User, NEW new \in Valid, AddMember(u, new)
      PROVE  MembersInv'
  <2>1. HasOwner'
    BY <1>3 DEF AddMember, HasOwner
  <2> QED
    BY <1>3, <2>1 DEF AddMember
<1>4. ASSUME NEW n \in 1 .. Cardinality(User), CheckApprovalPolicy(n)
      PROVE  MembersInv'
  BY <1>4 DEF CheckApprovalPolicy, HasOwner
<1>5. ASSUME NEW n \in 1 .. Cardinality(User), SaveApprovalPolicy(n)
      PROVE  MembersInv'
  <2>1. policy' \in 0 .. Cardinality(User)
    BY <1>5, UserAssumption, FS_CardinalityType DEF SaveApprovalPolicy
  <2> QED
    BY <1>5, <2>1 DEF SaveApprovalPolicy, HasOwner
<1>6. CASE DeleteApprovalPolicy
  <2>1. policy' \in 0 .. Cardinality(User)
    BY <1>6, UserAssumption, FS_CardinalityType DEF DeleteApprovalPolicy
  <2> QED
    BY <1>6, <2>1 DEF DeleteApprovalPolicy, HasOwner
<1>7. CASE UNCHANGED memberVars
  BY <1>7 DEF memberVars, HasOwner
<1> QED
  BY <1>1, <1>2, <1>3, <1>4, <1>5, <1>6, <1>7 DEF MembersNext

LEMMA MembersInductive == MembersSpec => []MembersInv
  BY InitMembers, NextMembers, PTL DEF MembersSpec

\* "A workspace always keeps at least one owner" (docs/workspaces.md): removals and
\* demotions check for another owner in the transaction that makes them.
THEOREM AlwaysAnOwner == MembersSpec => []HasOwner
<1>1. MembersInv => HasOwner
  BY DEF MembersInv
<1> QED
  BY <1>1, MembersInductive, PTL

\* The rows only hold roles and policies the program knows.
THEOREM MembersTypeCorrect == MembersSpec => []MembersTypeOK
<1>1. MembersInv => MembersTypeOK
  BY DEF MembersInv
<1> QED
  BY <1>1, MembersInductive, PTL

\* A policy within what the senders allow stays there when there are no fewer of them.
LEMMA NoFewerSenders ==
  ASSUME NEW p \in Nat, NEW old \in Nat, NEW new \in Nat, p < old, old <= new
  PROVE  p <= (IF new = 0 THEN 0 ELSE new - 1)
  OBVIOUS

LEMMA OneSenderMore ==
  ASSUME NEW p \in Nat, NEW new \in Nat, p <= new - 1
  PROVE  p <= (IF new = 0 THEN 0 ELSE new - 1)
  OBVIOUS

\* No step leaves too few approvers for a policy that stays as it is.
LEMMA StepKeepsApprovers ==
  ASSUME MembersInv, [MembersNext]_memberVars,
         policy' = policy, policy # 0, policy <= maxApprovals
  PROVE  policy <= maxApprovals'
<1>1. policy \in Nat /\ CountSenders \in Nat /\ CountSenders' \in Nat
  <2>1. policy \in Nat
    BY UserAssumption, FS_CardinalityType DEF MembersInv, MembersTypeOK
  <2>2. CountSenders \in Nat
    BY SendersFinite, FS_CardinalityType DEF CountSenders
  <2>3. IsFiniteSet(Senders')
    <3>1. Senders' \subseteq User
      BY DEF Senders
    <3> QED
      BY <3>1, UserAssumption, FS_Subset
  <2>4. CountSenders' \in Nat
    BY <2>3, FS_CardinalityType DEF CountSenders
  <2> QED
    BY <2>1, <2>2, <2>4
<1>2. policy < CountSenders
  BY <1>1 DEF maxApprovals
<1>3. maxApprovals' = IF CountSenders' = 0 THEN 0 ELSE CountSenders' - 1
  BY DEF maxApprovals
<1>4. CASE role' = role
  <2>1. CountSenders' = CountSenders
    BY <1>4 DEF CountSenders, Senders
  <2> QED
    BY <1>1, <1>2, <2>1 DEF maxApprovals
<1>5. CASE requireApprovers
  <2>1. policy <= CountSenders' - 1
    BY <1>5 DEF requireApprovers
  <2> QED
    BY <1>3, <1>1, <2>1, OneSenderMore, Zenon
<1>6. ASSUME NEW u \in User, NEW new \in Valid, AddMember(u, new)
      PROVE  policy <= maxApprovals'
  <2>1. Senders \subseteq Senders' /\ IsFiniteSet(Senders')
    <3>1. Senders \subseteq Senders' /\ Senders' \subseteq User
      BY <1>6 DEF AddMember, Senders, CanSend, MembersInv, MembersTypeOK
    <3> QED
      BY <3>1, UserAssumption, FS_Subset
  <2>2. CountSenders <= CountSenders'
    BY <2>1, FS_Subset DEF CountSenders
  <2> QED
    BY <1>3, <1>1, <1>2, <2>2, NoFewerSenders, Zenon
<1> QED
  BY <1>4, <1>5, <1>6
     DEF MembersNext, RemoveMember, UpdateMemberRole, CheckApprovalPolicy, SaveApprovalPolicy,
         DeleteApprovalPolicy, memberVars

\* requireApprovers, evaluated after each change in its transaction: as long as the
\* policy stays the same and can be met, no removal or demotion makes it unmeetable.
THEOREM ApproversKept == MembersSpec => MembersKeepApprovers
<1>1. MembersInv /\ [MembersNext]_memberVars
        => [policy' = policy /\ policy # 0 /\ policy <= maxApprovals
              => policy <= maxApprovals']_memberVars
  BY StepKeepsApprovers
<1> QED
  BY <1>1, MembersInductive, PTL DEF MembersSpec, MembersKeepApprovers
------------------------------------------------------------------------------
(* Payment requests.                                                        *)

\* The steps of hold, those of the goroutine that claimed a request until its row is
\* saved, and all that come after; of these, those of the goroutine that claimed the row.
Before  == {"count", "insert"}
Going   == {"execute", "role", "assign", "send"}
Sent    == Steps \ (Before \cup Going)
Claimed == {"lookup", "submit", "confirm", "reject"}

\* A request that has been claimed by its last approval.
Running == {"executing", "executed", "failed"}

Approvers(r) == {u \in User \ {initiator[r]} : votes[r][u] = "approve"}

\* Until the process serves again nobody votes, holds or sends.
ProcessInv ==
  /\ mode = "down" => tasks = {}
  /\ mode # "up" => ballots = {}
  /\ mode # "up" => \A r \in Request, step \in Before \cup Going : <<r, step>> \notin tasks
  /\ unreconciled # {} => mode = "starting"

\* What the votes on a request mean: none is its initiator's, a rejection has stopped it,
\* and whatever was claimed had enough approvals.
Votes(r) ==
  /\ votes[r][initiator[r]] = "none"
  /\ \A decision \in {"approve", "reject"} : <<initiator[r], r, decision>> \notin ballots
  /\ (\E u \in User : votes[r][u] = "reject") => reqStatus[r] = "rejected"
  /\ reqStatus[r] # "none" => required[r] > 0
  /\ reqStatus[r] \in Running => Cardinality(Approvers(r)) >= required[r]

\* What a claim means: one goroutine at a time is between the claim and the row, it has
\* not saved a row yet and the request is executing; whoever is past it finds one row.
Claim(r) ==
  /\ \A step \in Before : <<r, step>> \in tasks => reqStatus[r] = "none" /\ required[r] > 0
  /\ \A step \in Going : <<r, step>> \in tasks => reqStatus[r] = "executing" /\ sends[r] = 0
  /\ \A step \in Sent : <<r, step>> \in tasks => sends[r] = 1
  /\ \A step, other \in Before \cup Going :
       <<r, step>> \in tasks /\ <<r, other>> \in tasks => step = other
  /\ sends[r] \in {0, 1}
  /\ sends[r] = 0 <=> txStatus[r] = "none"
  /\ sends[r] = 1 => reqStatus[r] \in Running

\* What the transaction of a request says about the ledger; one goroutine at a time is
\* past the claim of the row, which is broadcast until that goroutine ends it or gone.
Transaction(r) ==
  /\ \/ <<r, "confirm">> \in tasks
     \/ txStatus[r] = "confirmed"
     \/ <<r, "executed">> \in tasks
     \/ reqStatus[r] = "executed"
     => r \in ledger
  /\ \A step \in Claimed : <<r, step>> \in tasks =>
       /\ txStatus[r] \in {"broadcast", "gone"}
       /\ r \in signature
       /\ \A other \in Claimed : <<r, other>> \in tasks => other = step

VoteInv        == \A r \in Request : Votes(r)
ClaimInv       == \A r \in Request : Claim(r)
TransactionInv == \A r \in Request : Transaction(r)

TypeInv == TypeOK /\ HasOwner

IInv == TypeInv /\ ProcessInv /\ VoteInv /\ ClaimInv /\ TransactionInv
------------------------------------------------------------------------------
(* Types, and the owner.                                                    *)

LEMMA PolicyIsInt == TypeInv => policy \in Nat /\ Cardinality(User) \in Nat
  BY UserAssumption, FS_CardinalityType DEF TypeInv, TypeOK, MembersTypeOK

LEMMA InitTypes == Init => TypeInv
<1> SUFFICES ASSUME Init
             PROVE  TypeInv
  OBVIOUS
<1>1. MembersInv
  BY InitMembers DEF Init
<1>2. 0 \in 0 .. Cardinality(User)
  BY UserAssumption, FS_CardinalityType
<1> QED
  BY <1>1, <1>2, ApprovalsAssumption
     DEF Init, TypeInv, TypeOK, MembersInv, ReqStatus, TxStatus, Closed

\* What the statements and the goroutines of a request write has its type.
LEMMA StepTypes ==
  ASSUME NEW r \in Request, TypeOK
  PROVE  /\ \A from, to \in Steps : Continue(r, from, to) => tasks' \subseteq Request \X Steps
         /\ \A from \in Steps : Finish(r, from) => tasks' \subseteq Request \X Steps
         /\ \A from, to \in ReqStatus :
              Transition(r, from, to) => reqStatus' \in [Request -> ReqStatus]
         /\ \A from \in Steps : fail(r, from) =>
              tasks' \subseteq Request \X Steps /\ reqStatus' \in [Request -> ReqStatus]
<1>1. tasks \subseteq Request \X Steps /\ reqStatus \in [Request -> ReqStatus]
  BY DEF TypeOK
<1>2. \A from, to \in Steps : Continue(r, from, to) => tasks' \subseteq Request \X Steps
  BY <1>1 DEF Continue
<1>3. \A from \in Steps : Finish(r, from) => tasks' \subseteq Request \X Steps
  BY <1>1 DEF Finish
<1>4. \A from, to \in ReqStatus :
        Transition(r, from, to) => reqStatus' \in [Request -> ReqStatus]
  BY <1>1 DEF Transition
<1>5. \A from \in Steps : fail(r, from) =>
        tasks' \subseteq Request \X Steps /\ reqStatus' \in [Request -> ReqStatus]
  BY <1>3, <1>4 DEF fail, ReqStatus, Closed
<1> QED
  BY <1>2, <1>3, <1>4, <1>5

\* One vote more.
LEMMA VoteTypes ==
  ASSUME NEW u \in User, NEW r \in Request, NEW decision \in {"approve", "reject"},
         TypeOK, insertVote(u, r, decision)
  PROVE  /\ votes' \in [Request -> [User -> {"none", "approve", "reject"}]]
         /\ votes'[r] = [votes[r] EXCEPT ![u] = decision]
         /\ \A q \in Request \ {r} : votes'[q] = votes[q]
<1> DEFINE Vote == [User -> {"none", "approve", "reject"}]
<1>1. votes \in [Request -> Vote] /\ votes[r] \in Vote
  BY DEF TypeOK
<1>2. votes' = [votes EXCEPT ![r] = [votes[r] EXCEPT ![u] = decision]]
  BY DEF insertVote
<1>3. [votes[r] EXCEPT ![u] = decision] \in Vote
  BY <1>1
<1> HIDE DEF Vote
<1>4. votes' \in [Request -> Vote]
  BY <1>1, <1>2, <1>3
<1> QED
  BY <1>1, <1>2, <1>4 DEF Vote

LEMMA NextTypes ==
  ASSUME TypeInv, [Next]_vars
  PROVE  TypeInv'
<1> USE ApprovalsAssumption
    DEF TypeInv, TypeOK, requestVars, txVars, voteVars, memoryVars, restVars, sentElsewhere
<1>0. /\ MembersInv
      /\ UNCHANGED memberVars => MembersInv'
  BY NextMembers DEF MembersInv
<1>1. ASSUME NEW r \in Request, hold(r)
      PROVE  TypeInv'
  <2>1. required' \in [Request -> 0 .. Cardinality(User)]
    BY <1>0, <1>1 DEF hold, MembersInv, MembersTypeOK
  <2> QED
    BY <1>0, <1>1, <2>1 DEF hold, MembersInv, Steps
<1>2. ASSUME NEW r \in Request, CountApprovers(r) \/ CreatePaymentRequest(r) \/ Expire(r)
      PROVE  TypeInv'
  <2>1. CASE CountApprovers(r)
    BY <1>0, <2>1, StepTypes DEF CountApprovers, MembersInv, Steps
  <2>2. CASE CreatePaymentRequest(r)
    BY <1>0, <2>2, StepTypes DEF CreatePaymentRequest, MembersInv, Steps, ReqStatus
  <2>3. CASE Expire(r)
    BY <1>0, <2>3 DEF Expire, MembersInv
  <2> QED
    BY <1>2, <2>1, <2>2, <2>3
<1>3. ASSUME NEW u \in User, NEW r \in Request, NEW decision \in {"approve", "reject"},
             votableRequest(u, r, decision)
      PROVE  TypeInv'
  BY <1>0, <1>3 DEF votableRequest, MembersInv
<1>4. ASSUME NEW u \in User, NEW r \in Request, RecordApproval(u, r)
      PROVE  TypeInv'
  <2>1. votes' \in [Request -> [User -> {"none", "approve", "reject"}]]
    BY <1>4, VoteTypes DEF RecordApproval
  <2>2. reqStatus' \in [Request -> ReqStatus] /\ tasks' \subseteq Request \X Steps
    <3>1. \/ Transition(r, "pending", "executing") /\ tasks' = tasks \cup {<<r, "execute">>}
          \/ reqStatus' = reqStatus /\ tasks' = tasks
      BY <1>4, Zenon DEF RecordApproval
    <3>2. "pending" \in ReqStatus /\ "executing" \in ReqStatus
      BY DEF ReqStatus
    <3>3. reqStatus' \in [Request -> ReqStatus]
      BY <3>1, <3>2, StepTypes, Zenon
    <3>4. tasks' \subseteq Request \X Steps
      BY <3>1 DEF Steps
    <3> QED
      BY <3>3, <3>4
  <2> QED
    BY <1>0, <1>4, <2>1, <2>2 DEF RecordApproval, MembersInv
<1>5. ASSUME NEW u \in User, NEW r \in Request, RecordRejection(u, r)
      PROVE  TypeInv'
  <2>1. votes' \in [Request -> [User -> {"none", "approve", "reject"}]]
    BY <1>5, VoteTypes DEF RecordRejection
  <2>2. reqStatus' \in [Request -> ReqStatus]
    BY <1>5, StepTypes DEF RecordRejection, ReqStatus, Closed
  <2> QED
    BY <1>0, <1>5, <2>1, <2>2 DEF RecordRejection, MembersInv
<1>6. ASSUME NEW r \in Request, Cancel(r) \/ CancelPaymentRequest(r)
      PROVE  TypeInv'
  BY <1>0, <1>6 DEF Cancel, CancelPaymentRequest, Transition, MembersInv, ReqStatus, Closed
<1>7. ASSUME NEW r \in Request, CheckWallet(r) \/ CheckInitiator(r) \/ AssignTransaction(r)
      PROVE  TypeInv'
  <2>1. reqStatus' \in [Request -> ReqStatus] /\ tasks' \subseteq Request \X Steps
    BY <1>7, StepTypes DEF CheckWallet, CheckInitiator, AssignTransaction, Steps
  <2>2. assigned' \subseteq Request
    BY <1>7 DEF CheckWallet, CheckInitiator, AssignTransaction
  <2> QED
    BY <1>0, <1>7, <2>1, <2>2 DEF CheckWallet, CheckInitiator, AssignTransaction, MembersInv
<1>8. ASSUME NEW r \in Request, sendPayment(r)
      PROVE  TypeInv'
  <2>1. reqStatus' \in [Request -> ReqStatus] /\ tasks' \subseteq Request \X Steps
    BY <1>8, StepTypes DEF sendPayment, Steps
  <2>2. /\ txStatus' = txStatus \/ txStatus' = [txStatus EXCEPT ![r] = "signing"]
        /\ sends' = sends \/ sends' = [sends EXCEPT ![r] = sends[r] + 1]
        /\ UNCHANGED <<signature, asked, ledger>>
    BY <1>8 DEF sendPayment
  <2>3. txStatus' \in [Request -> TxStatus]
    BY <2>2 DEF TxStatus
  <2>4. sends' \in [Request -> Nat]
    BY <2>2
  <2> QED
    BY <1>0, <1>8, <2>1, <2>2, <2>3, <2>4 DEF sendPayment, MembersInv
<1>9. ASSUME NEW r \in Request, enqueueSign(r) \/ dispatchQueued(r)
      PROVE  TypeInv'
  BY <1>0, <1>9 DEF enqueueSign, dispatchQueued, Continue, Finish, MembersInv, Steps
<1>10. ASSUME NEW r \in Request, failSigning(r) \/ Abandon(r)
       PROVE  TypeInv'
  BY <1>0, <1>10 DEF failSigning, Abandon, FailSigning, MembersInv, Steps, TxStatus
<1>11. ASSUME NEW r \in Request, FailPaymentRequest(r) \/ SettleByTransaction(r)
       PROVE  TypeInv'
  BY <1>0, <1>11
     DEF FailPaymentRequest, SettleByTransaction, fail, Finish, Transition, MembersInv,
         ReqStatus, Closed
<1>12. ASSUME NEW r \in Request, ClaimSignature(r)
       PROVE  TypeInv'
  BY <1>0, <1>12 DEF ClaimSignature, MembersInv, Steps, TxStatus
<1>13. ASSUME NEW r \in Request, WalletLookup(r) \/ Submit(r)
       PROVE  TypeInv'
  BY <1>0, <1>13 DEF WalletLookup, Submit, Continue, MembersInv, Steps
<1>14. ASSUME NEW r \in Request, ConfirmTransaction(r) \/ FailTransaction(r)
       PROVE  TypeInv'
  <2>1. txStatus' \in [Request -> TxStatus] /\ tasks' \subseteq Request \X Steps
    BY <1>14, StepTypes DEF ConfirmTransaction, FailTransaction, End, Steps, TxStatus
  <2> QED
    BY <1>0, <1>14, <2>1 DEF ConfirmTransaction, FailTransaction, End, MembersInv
<1>15. ASSUME NEW r \in Request, settle(r)
       PROVE  TypeInv'
  BY <1>0, <1>15 DEF settle, Continue, Finish, MembersInv, Steps
<1>16. CASE ChangeMembers
  <2>1. MembersInv'
    BY <1>0, <1>16, NextMembers DEF ChangeMembers
  <2> QED
    BY <1>16, <2>1 DEF ChangeMembers, MembersInv
<1>17. CASE DeleteWallet
  BY <1>0, <1>17 DEF DeleteWallet, MembersInv, TxStatus
<1>18. CASE Crash
  BY <1>18 DEF Crash, MembersTypeOK, HasOwner
<1>19. CASE Restart \/ Serve
  BY <1>0, <1>19 DEF Restart, Serve, MembersInv
<1>20. ASSUME NEW r \in Request, ReconcileExecuting(r)
       PROVE  TypeInv'
  BY <1>0, <1>20 DEF ReconcileExecuting, Transition, MembersInv, Steps, ReqStatus, Closed
<1>21. CASE UNCHANGED vars
  BY <1>0, <1>21 DEF vars, MembersInv
<1> QED
  BY <1>1, <1>2, <1>3, <1>4, <1>5, <1>6, <1>7, <1>8, <1>9, <1>10, <1>11, <1>12, <1>13, <1>14,
     <1>15, <1>16, <1>17, <1>18, <1>19, <1>20, <1>21 DEF Next, Run
------------------------------------------------------------------------------
(* What runs while the process serves, starts or is down.                    *)

\* A goroutine goes on, ends, or the outside world adds a step that comes after the row.
LEMMA ProcessKept ==
  ASSUME ProcessInv,
         UNCHANGED mode,
         mode = "down" => tasks' = tasks,
         mode # "up" => ballots' \subseteq ballots,
         mode # "up" => \A r \in Request, step \in Before \cup Going :
                           <<r, step>> \in tasks' => <<r, step>> \in tasks,
         unreconciled' \subseteq unreconciled
  PROVE  ProcessInv'
  BY DEF ProcessInv

\* The steps that need the row of the transaction.
AfterRow(r) ==
  \/ enqueueSign(r) \/ dispatchQueued(r) \/ failSigning(r) \/ FailPaymentRequest(r)
  \/ Abandon(r) \/ ClaimSignature(r) \/ WalletLookup(r) \/ Submit(r)
  \/ ConfirmTransaction(r) \/ FailTransaction(r) \/ settle(r) \/ SettleByTransaction(r)

\* They lead to steps of the same kind and send nothing; only execute's own goroutine and
\* settle close the request.
LEMMA AfterRowSteps ==
  ASSUME NEW r \in Request, TypeInv, ProcessInv, AfterRow(r)
  PROVE  /\ mode # "down"
         /\ tasks' \subseteq tasks \cup ({r} \X Sent)
         /\ UNCHANGED <<memberVars, initiator, required, votes, expired, assigned, sends,
                        memoryVars, restVars>>
         /\ \/ UNCHANGED reqStatus
            \/ Transition(r, "executing", "executed")
            \/ Transition(r, "executing", "failed")
<1> USE DEF txVars, sentElsewhere
<1>0. \A step \in Sent : <<r, step>> \in tasks => mode # "down"
  BY DEF ProcessInv
<1>1. CASE enqueueSign(r) \/ dispatchQueued(r)
  BY <1>0, <1>1 DEF enqueueSign, dispatchQueued, Continue, Finish, Sent, Steps, Before, Going
<1>2. CASE failSigning(r)
  BY <1>0, <1>2 DEF failSigning, FailSigning, Sent, Steps, Before, Going
<1>3. CASE FailPaymentRequest(r)
  BY <1>0, <1>3 DEF FailPaymentRequest, fail, Finish, Sent, Steps, Before, Going
<1>4. CASE Abandon(r)
  BY <1>0, <1>4 DEF Abandon, FailSigning, Sent, Steps, Before, Going
<1>5. CASE ClaimSignature(r)
  BY <1>0, <1>5 DEF ClaimSignature, Sent, Steps, Before, Going
<1>6. CASE WalletLookup(r) \/ Submit(r)
  BY <1>0, <1>6 DEF WalletLookup, Submit, Continue, Sent, Steps, Before, Going
<1>7. CASE ConfirmTransaction(r) \/ FailTransaction(r)
  BY <1>0, <1>7
     DEF ConfirmTransaction, FailTransaction, End, Continue, Sent, Steps, Before, Going
<1>8. CASE settle(r)
  BY <1>0, <1>8 DEF settle, Continue, Finish, Sent, Steps, Before, Going
<1>9. CASE SettleByTransaction(r)
  BY <1>0, <1>9 DEF SettleByTransaction, Finish, Sent, Steps, Before, Going
<1> QED
  BY <1>1, <1>2, <1>3, <1>4, <1>5, <1>6, <1>7, <1>8, <1>9 DEF AfterRow

LEMMA NextProcess ==
  ASSUME TypeInv, ProcessInv, [Next]_vars
  PROVE  ProcessInv'
<1> USE DEF requestVars, txVars, voteVars, memoryVars, restVars, sentElsewhere
<1>1. ASSUME NEW r \in Request, hold(r)
      PROVE  ProcessInv'
  BY <1>1, ProcessKept DEF hold
<1>2. ASSUME NEW r \in Request, CountApprovers(r)
      PROVE  ProcessInv'
  BY <1>2 DEF CountApprovers, ProcessInv, Continue, Finish, Before
<1>3. ASSUME NEW r \in Request, \/ CreatePaymentRequest(r) \/ Expire(r)
                               \/ Cancel(r) \/ CancelPaymentRequest(r)
      PROVE  ProcessInv'
  BY <1>3, ProcessKept DEF CreatePaymentRequest, Expire, Cancel, CancelPaymentRequest, Finish, ProcessInv
<1>4. ASSUME NEW u \in User, NEW r \in Request, NEW decision \in {"approve", "reject"},
             votableRequest(u, r, decision)
      PROVE  ProcessInv'
  BY <1>4, ProcessKept DEF votableRequest
<1>5. ASSUME NEW u \in User, NEW r \in Request, RecordApproval(u, r) \/ RecordRejection(u, r)
      PROVE  ProcessInv'
  <2>1. mode = "up"
    BY <1>5 DEF RecordApproval, RecordRejection, ProcessInv, TypeInv, TypeOK
  <2> QED
    BY <1>5, <2>1, ProcessKept DEF RecordApproval, RecordRejection
<1>6. ASSUME NEW r \in Request, CheckWallet(r) \/ CheckInitiator(r) \/ AssignTransaction(r)
      PROVE  ProcessInv'
  <2>1. mode = "up"
    BY <1>6 DEF CheckWallet, CheckInitiator, AssignTransaction, ProcessInv, Going
  <2> QED
    BY <1>6, <2>1, ProcessKept DEF CheckWallet, CheckInitiator, AssignTransaction
<1>7. ASSUME NEW r \in Request, sendPayment(r)
      PROVE  ProcessInv'
  <2>1. mode = "up"
    BY <1>7 DEF sendPayment, ProcessInv, Going
  <2> QED
    BY <1>7, <2>1, ProcessKept DEF sendPayment
<1>8. ASSUME NEW r \in Request, AfterRow(r)
      PROVE  ProcessInv'
  <2>1. mode # "down" /\ UNCHANGED memoryVars /\ tasks' \subseteq tasks \cup ({r} \X Sent)
    BY <1>8, AfterRowSteps
  <2>2. \A q \in Request, step \in Before \cup Going : <<q, step>> \in tasks' => <<q, step>> \in tasks
    BY <2>1 DEF Sent
  <2> QED
    BY <2>1, <2>2, ProcessKept
<1>9. CASE ChangeMembers \/ DeleteWallet
  BY <1>9, ProcessKept DEF ChangeMembers, DeleteWallet
<1>10. CASE Crash
  BY <1>10 DEF Crash, ProcessInv
<1>11. CASE Restart
  BY <1>11 DEF Restart, ProcessInv
<1>12. CASE Serve
  BY <1>12 DEF Serve, ProcessInv
<1>13. ASSUME NEW r \in Request, ReconcileExecuting(r)
       PROVE  ProcessInv'
  <2>1. /\ mode = "starting" /\ mode' = mode /\ ballots' = ballots
        /\ tasks' \subseteq tasks \cup {<<r, "settle">>}
        /\ unreconciled' \subseteq unreconciled
    BY <1>13 DEF ReconcileExecuting, ProcessInv
  <2> QED
    BY <2>1, ProcessKept DEF Before, Going
<1>14. CASE UNCHANGED vars
  BY <1>14, ProcessKept DEF vars
<1> QED
  BY <1>1, <1>2, <1>3, <1>4, <1>5, <1>6, <1>7, <1>8, <1>9, <1>10, <1>11, <1>12, <1>13, <1>14
     DEF Next, Run, AfterRow
------------------------------------------------------------------------------
(* One claim, one row.                                                       *)

\* A step that touches neither the request q nor its row, and begins nothing for it.
LEMMA ClaimKept ==
  ASSUME NEW q \in Request, Claim(q),
         reqStatus'[q] = reqStatus[q],
         required'[q] = required[q],
         sends'[q] = sends[q],
         txStatus'[q] = txStatus[q],
         \A step \in Steps : <<q, step>> \in tasks' => <<q, step>> \in tasks
  PROVE  Claim(q)'
<1>1. Before \cup Going \cup Sent = Steps
  BY DEF Before, Going, Sent, Steps
<1> QED
  BY <1>1 DEF Claim

\* Whoever is past the row finds that it was saved, once, and leaves it there.
LEMMA AfterRowFindsIt ==
  ASSUME NEW r \in Request, TypeInv, ClaimInv, AfterRow(r)
  PROVE  /\ sends[r] = 1
         /\ txStatus[r] # "none"
         /\ txStatus'[r] # "none"
         /\ \A q \in Request \ {r} : txStatus'[q] = txStatus[q]
<1> USE DEF txVars, sentElsewhere
<1>0. /\ txStatus \in [Request -> TxStatus]
      /\ sends[r] = 1 <=> txStatus[r] # "none"
      /\ \A step \in Sent : <<r, step>> \in tasks => sends[r] = 1
  BY DEF TypeInv, TypeOK, ClaimInv, Claim
<1>1. CASE enqueueSign(r) \/ dispatchQueued(r)
  BY <1>0, <1>1 DEF enqueueSign, dispatchQueued, Sent, Steps, Before, Going
<1>2. CASE failSigning(r)
  BY <1>0, <1>2 DEF failSigning, FailSigning, Sent, Steps, Before, Going
<1>3. CASE FailPaymentRequest(r)
  BY <1>0, <1>3 DEF FailPaymentRequest, Sent, Steps, Before, Going
<1>4. CASE Abandon(r)
  BY <1>0, <1>4 DEF Abandon, FailSigning
<1>5. CASE ClaimSignature(r)
  BY <1>0, <1>5 DEF ClaimSignature
<1>6. CASE WalletLookup(r) \/ Submit(r)
  BY <1>0, <1>6 DEF WalletLookup, Submit, Sent, Steps, Before, Going
<1>7. CASE ConfirmTransaction(r) \/ FailTransaction(r)
  BY <1>0, <1>7 DEF ConfirmTransaction, FailTransaction, End, Sent, Steps, Before, Going
<1>8. CASE settle(r)
  BY <1>0, <1>8 DEF settle, Sent, Steps, Before, Going
<1>9. CASE SettleByTransaction(r)
  BY <1>0, <1>9 DEF SettleByTransaction, Sent, Steps, Before, Going
<1> QED
  BY <1>1, <1>2, <1>3, <1>4, <1>5, <1>6, <1>7, <1>8, <1>9 DEF AfterRow

LEMMA NextClaim ==
  ASSUME TypeInv, ProcessInv, ClaimInv, [Next]_vars
  PROVE  ClaimInv'
<1> SUFFICES ASSUME NEW q \in Request
             PROVE  Claim(q)'
  BY DEF ClaimInv
<1>0. Claim(q) /\ reqStatus \in [Request -> ReqStatus] /\ tasks \subseteq Request \X Steps
  BY DEF ClaimInv, TypeInv, TypeOK
<1> USE DEF requestVars, txVars, voteVars, memoryVars, restVars, sentElsewhere
<1>1. ASSUME NEW r \in Request, hold(r)
      PROVE  Claim(q)'
  <2>1. CASE q = r
    <3>1. required'[q] > 0
      BY <1>1, <2>1, PolicyIsInt DEF hold, TypeInv, TypeOK
    <3>2. \A step \in Steps : <<q, step>> \in tasks' => step = "count"
      BY <1>1, <2>1 DEF hold
    <3> QED
      BY <1>0, <1>1, <2>1, <3>1, <3>2 DEF hold, Claim, Before, Going, Sent, Steps
  <2>2. CASE q # r
    BY <1>0, <1>1, <2>2, ClaimKept DEF hold, TypeInv, TypeOK
  <2> QED
    BY <2>1, <2>2
<1>2. ASSUME NEW r \in Request, CountApprovers(r)
      PROVE  Claim(q)'
  <2>1. CASE q = r
    BY <1>0, <1>2, <2>1 DEF CountApprovers, Continue, Finish, Claim, Before, Going, Sent, Steps
  <2>2. CASE q # r
    BY <1>0, <1>2, <2>2, ClaimKept DEF CountApprovers, Continue, Finish
  <2> QED
    BY <2>1, <2>2
<1>3. ASSUME NEW r \in Request, CreatePaymentRequest(r)
      PROVE  Claim(q)'
  <2>1. CASE q = r
    BY <1>0, <1>3, <2>1 DEF CreatePaymentRequest, Finish, Claim, Before, Going, Sent, Steps, Running
  <2>2. CASE q # r
    BY <1>0, <1>3, <2>2, ClaimKept DEF CreatePaymentRequest, Finish
  <2> QED
    BY <2>1, <2>2
<1>4. ASSUME NEW r \in Request, Expire(r)
      PROVE  Claim(q)'
  BY <1>0, <1>4, ClaimKept DEF Expire
<1>5. ASSUME NEW u \in User, NEW r \in Request, NEW decision \in {"approve", "reject"},
             votableRequest(u, r, decision)
      PROVE  Claim(q)'
  BY <1>0, <1>5, ClaimKept DEF votableRequest
<1>6. ASSUME NEW u \in User, NEW r \in Request, RecordApproval(u, r)
      PROVE  Claim(q)'
  <2>1. /\ mode = "up"
        /\ UNCHANGED <<required, sends, txStatus>>
        /\ \/ UNCHANGED <<reqStatus, tasks>>
           \/ /\ reqStatus[r] = "pending"
              /\ Transition(r, "pending", "executing")
              /\ tasks' = tasks \cup {<<r, "execute">>}
    BY <1>6 DEF RecordApproval, Recordable, ProcessInv, TypeInv, TypeOK
  <2>2. CASE UNCHANGED <<reqStatus, tasks>>
    BY <1>0, <2>1, <2>2, ClaimKept
  <2>3. CASE q # r
    BY <1>0, <2>1, <2>3, ClaimKept DEF Transition
  <2>4. CASE /\ q = r
             /\ reqStatus[r] = "pending"
             /\ Transition(r, "pending", "executing")
             /\ tasks' = tasks \cup {<<r, "execute">>}
    <3>1. sends[q] = 0 /\ \A step \in Before \cup Going : <<q, step>> \notin tasks
      BY <1>0, <2>4 DEF Claim, Running
    <3>2. reqStatus'[q] = "executing"
      BY <1>0, <2>4 DEF Transition
    <3>3. \A step \in Steps : <<q, step>> \in tasks' => step = "execute"
      BY <1>0, <2>4, <3>1 DEF Claim, Sent, Before, Going, Steps
    <3> QED
      BY <1>0, <2>1, <3>1, <3>2, <3>3 DEF Claim, Sent, Before, Going, Steps, Running
  <2> QED
    BY <2>1, <2>2, <2>3, <2>4
<1>7. ASSUME NEW u \in User, NEW r \in Request, RecordRejection(u, r)
      PROVE  Claim(q)'
  <2>1. /\ UNCHANGED <<required, sends, txStatus, tasks>>
        /\ UNCHANGED reqStatus \/ (reqStatus[r] = "pending" /\ Transition(r, "pending", "rejected"))
    BY <1>7 DEF RecordRejection, Recordable
  <2> QED
    BY <1>0, <2>1, ClaimKept DEF Transition, Claim, Running
<1>8. ASSUME NEW r \in Request, Cancel(r) \/ CancelPaymentRequest(r)
      PROVE  Claim(q)'
  <2>1. /\ UNCHANGED <<required, sends, txStatus, tasks>>
        /\ UNCHANGED reqStatus \/ Transition(r, "pending", "cancelled")
    BY <1>8 DEF Cancel, CancelPaymentRequest
  <2> QED
    BY <1>0, <2>1, ClaimKept DEF Transition, Claim, Running
<1>9. ASSUME NEW r \in Request, CheckWallet(r)
      PROVE  Claim(q)'
  <2>1. CASE q = r
    BY <1>0, <1>9, <2>1 DEF CheckWallet, fail, Continue, Finish, Transition, Claim, Before, Going, Sent, Steps, Running
  <2>2. CASE q # r
    BY <1>0, <1>9, <2>2, ClaimKept DEF CheckWallet, fail, Continue, Finish, Transition
  <2> QED
    BY <2>1, <2>2
<1>10. ASSUME NEW r \in Request, CheckInitiator(r)
       PROVE  Claim(q)'
  <2>1. CASE q = r
    BY <1>0, <1>10, <2>1 DEF CheckInitiator, fail, Continue, Finish, Transition, Claim, Before, Going, Sent, Steps, Running
  <2>2. CASE q # r
    BY <1>0, <1>10, <2>2, ClaimKept DEF CheckInitiator, fail, Continue, Finish, Transition
  <2> QED
    BY <2>1, <2>2
<1>11. ASSUME NEW r \in Request, AssignTransaction(r)
       PROVE  Claim(q)'
  <2>1. CASE q = r
    BY <1>0, <1>11, <2>1 DEF AssignTransaction, fail, Continue, Finish, Transition, Claim, Before, Going, Sent, Steps, Running
  <2>2. CASE q # r
    BY <1>0, <1>11, <2>2, ClaimKept DEF AssignTransaction, fail, Continue, Finish, Transition
  <2> QED
    BY <2>1, <2>2
<1>12. ASSUME NEW r \in Request, sendPayment(r)
       PROVE  Claim(q)'
  <2>1. CASE q = r
    BY <1>0, <1>12, <2>1 DEF sendPayment, TypeInv, TypeOK, fail, Continue, Finish, Transition, Claim, Before, Going, Sent, Steps, Running
  <2>2. CASE q # r
    BY <1>0, <1>12, <2>2, ClaimKept DEF sendPayment, TypeInv, TypeOK, fail, Continue, Finish, Transition
  <2> QED
    BY <2>1, <2>2
<1>13. ASSUME NEW r \in Request, AfterRow(r)
       PROVE  Claim(q)'
  <2>1. /\ tasks' \subseteq tasks \cup ({r} \X Sent)
        /\ UNCHANGED <<required, sends>>
        /\ \/ UNCHANGED reqStatus
           \/ Transition(r, "executing", "executed")
           \/ Transition(r, "executing", "failed")
    BY <1>13, AfterRowSteps
  <2>2. /\ sends[r] = 1 /\ txStatus[r] # "none" /\ txStatus'[r] # "none"
        /\ \A p \in Request \ {r} : txStatus'[p] = txStatus[p]
    BY <1>13, AfterRowFindsIt
  <2>3. CASE q = r
    <3>1. reqStatus[q] \in Running /\ reqStatus'[q] \in Running
      BY <1>0, <2>1, <2>2, <2>3 DEF Claim, Running, Transition
    <3>2. \A step \in Before \cup Going : <<q, step>> \notin tasks'
      BY <1>0, <2>1, <2>2, <2>3, <3>1 DEF Claim, Sent, Running
    <3> QED
      BY <1>0, <2>1, <2>2, <2>3, <3>1, <3>2 DEF Claim
  <2>4. CASE q # r
    BY <1>0, <2>1, <2>2, <2>4, ClaimKept DEF Transition
  <2> QED
    BY <2>3, <2>4
<1>14. CASE ChangeMembers
  BY <1>0, <1>14, ClaimKept DEF ChangeMembers
<1>15. CASE DeleteWallet
  <2>1. txStatus'[q] = "none" <=> txStatus[q] = "none"
    BY <1>15 DEF DeleteWallet
  <2> QED
    BY <1>0, <1>15, <2>1 DEF DeleteWallet, Claim
<1>16. CASE Crash
  BY <1>0, <1>16, ClaimKept DEF Crash
<1>17. CASE Restart \/ Serve
  BY <1>0, <1>17, ClaimKept DEF Restart, Serve
<1>18. ASSUME NEW r \in Request, ReconcileExecuting(r)
       PROVE  Claim(q)'
  <2>1. \A step \in Before \cup Going : <<q, step>> \notin tasks
    BY <1>18 DEF ReconcileExecuting, ProcessInv
  <2>2. UNCHANGED <<required, sends, txStatus>>
    BY <1>18 DEF ReconcileExecuting
  <2>3. CASE Transition(r, "executing", "failed") /\ UNCHANGED tasks
    BY <1>0, <2>1, <2>2, <2>3 DEF Transition, Claim, Running
  <2>4. CASE /\ txStatus[r] # "none"
             /\ tasks' = tasks \cup {<<r, "settle">>}
             /\ UNCHANGED reqStatus
    <3>1. CASE q = r
      BY <1>0, <2>1, <2>2, <2>4, <3>1 DEF Claim, Before, Going, Sent, Steps
    <3>2. CASE q # r
      BY <1>0, <2>2, <2>4, <3>2, ClaimKept
    <3> QED
      BY <3>1, <3>2
  <2> QED
    BY <1>18, <2>3, <2>4 DEF ReconcileExecuting
<1>19. CASE UNCHANGED vars
  BY <1>0, <1>19, ClaimKept DEF vars
<1> QED
  BY <1>1, <1>2, <1>3, <1>4, <1>5, <1>6, <1>7, <1>8, <1>9, <1>10, <1>11, <1>12, <1>13, <1>14,
     <1>15, <1>16, <1>17, <1>18, <1>19 DEF Next, Run, AfterRow
------------------------------------------------------------------------------
(* Enough approvals of others, none after a rejection, none too late.        *)

LEMMA VotesKept ==
  ASSUME NEW q \in Request, Votes(q),
         \/ reqStatus'[q] = reqStatus[q]
         \/ reqStatus[q] = "executing" /\ reqStatus'[q] \in Running,
         required'[q] = required[q],
         votes'[q] = votes[q],
         initiator'[q] = initiator[q],
         \A decision \in {"approve", "reject"} :
           <<initiator[q], q, decision>> \in ballots' => <<initiator[q], q, decision>> \in ballots
  PROVE  Votes(q)'
<1>1. Approvers(q)' = Approvers(q)
  BY DEF Approvers
<1> QED
  BY <1>1 DEF Votes, Running

\* The approvals that count are some of those that others gave.
LEMMA CountedAreApprovers ==
  ASSUME NEW r \in Request, votes'[r][initiator[r]] = "none", initiator' = initiator
  PROVE  /\ Counted(votes'[r]) \subseteq Approvers(r)'
         /\ Cardinality(Counted(votes'[r])) \in Nat
         /\ Cardinality(Approvers(r)') \in Nat
         /\ Cardinality(Counted(votes'[r])) <= Cardinality(Approvers(r)')
<1>1. Counted(votes'[r]) \subseteq Approvers(r)' /\ Approvers(r)' \subseteq User
  BY DEF Counted, Approvers
<1>2. IsFiniteSet(Approvers(r)')
  BY <1>1, UserAssumption, FS_Subset
<1> QED
  BY <1>1, <1>2, FS_Subset, FS_CardinalityType

LEMMA NextVotes ==
  ASSUME TypeInv, ProcessInv, ClaimInv, VoteInv, [Next]_vars
  PROVE  VoteInv'
<1> SUFFICES ASSUME NEW q \in Request
             PROVE  Votes(q)'
  BY DEF VoteInv
<1>0. /\ Votes(q) /\ Claim(q)
      /\ reqStatus \in [Request -> ReqStatus]
      /\ required \in [Request -> 0 .. Cardinality(User)]
      /\ initiator \in [Request -> User]
  BY DEF ClaimInv, VoteInv, TypeInv, TypeOK
<1> USE DEF requestVars, txVars, voteVars, memoryVars, restVars, sentElsewhere
<1>1. ASSUME NEW r \in Request, hold(r)
      PROVE  Votes(q)'
  <2>1. CASE q = r
    BY <1>0, <1>1, <2>1 DEF hold, Votes, Running
  <2>2. CASE q # r
    BY <1>0, <1>1, <2>2, VotesKept DEF hold
  <2> QED
    BY <2>1, <2>2
<1>2. ASSUME NEW r \in Request, CountApprovers(r)
      PROVE  Votes(q)'
  BY <1>0, <1>2, VotesKept DEF CountApprovers
<1>3. ASSUME NEW r \in Request, CreatePaymentRequest(r)
      PROVE  Votes(q)'
  <2>1. CASE q = r
    BY <1>0, <1>3, <2>1 DEF CreatePaymentRequest, Votes, Claim, Before, Running
  <2>2. CASE q # r
    BY <1>0, <1>3, <2>2, VotesKept DEF CreatePaymentRequest
  <2> QED
    BY <2>1, <2>2
<1>4. ASSUME NEW r \in Request, Expire(r)
      PROVE  Votes(q)'
  BY <1>0, <1>4, VotesKept DEF Expire
<1>5. ASSUME NEW u \in User, NEW r \in Request, NEW decision \in {"approve", "reject"},
             votableRequest(u, r, decision)
      PROVE  Votes(q)'
  BY <1>0, <1>5, VotesKept DEF votableRequest
<1>6. ASSUME NEW u \in User, NEW r \in Request, RecordApproval(u, r)
      PROVE  Votes(q)'
  <2>0. /\ UNCHANGED <<initiator, required>>
        /\ ballots' \subseteq ballots
        /\ Votes(r)
    BY <1>6 DEF RecordApproval, VoteInv
  <2>1. CASE UNCHANGED <<votes, reqStatus>>
    BY <1>0, <2>0, <2>1, VotesKept
  <2>2. CASE Recordable(u, r) /\ insertVote(u, r, "approve")
    <3>1. /\ votes'[r] = [votes[r] EXCEPT ![u] = "approve"]
          /\ votes[r] \in [User -> {"none", "approve", "reject"}]
          /\ \A p \in Request \ {r} : votes'[p] = votes[p]
      BY <2>2, VoteTypes DEF TypeInv, TypeOK
    <3>2. u # initiator[r]
      BY <1>6, <2>0 DEF RecordApproval, Votes
    <3>3. /\ reqStatus[r] = "pending"
          /\ \A v \in User : votes'[r][v] # "reject"
          /\ votes'[r][initiator[r]] = "none"
      BY <1>0, <2>0, <2>2, <3>1, <3>2 DEF Recordable, Votes
    <3>4. /\ \A p \in Request \ {r} : reqStatus'[p] = reqStatus[p]
          /\ \/ reqStatus'[r] = "pending"
             \/ reqStatus'[r] = "executing" /\ required[r] <= Cardinality(Counted(votes'[r]))
      <4>1. CASE required[r] <= Cardinality(Counted(votes'[r])) /\ Transition(r, "pending", "executing")
        BY <1>0, <3>3, <4>1 DEF Transition
      <4>2. CASE UNCHANGED reqStatus
        BY <3>3, <4>2
      <4> QED
        BY <1>6, <4>1, <4>2, Zenon DEF RecordApproval
    <3>5. CASE q # r
      BY <1>0, <2>0, <3>1, <3>4, <3>5, VotesKept
    <3>6. CASE q = r
      <4>1. reqStatus'[r] = "executing" => Cardinality(Approvers(r)') >= required[r]
        <5>1. required[r] \in Nat
          BY <1>0, PolicyIsInt
        <5> QED
          BY <2>0, <3>3, <3>4, <5>1, CountedAreApprovers
      <4> QED
        BY <1>0, <2>0, <3>3, <3>4, <3>6, <4>1 DEF Votes, Running
    <3> QED
      BY <3>5, <3>6
  <2> QED
    BY <1>6, <2>1, <2>2, Zenon DEF RecordApproval
<1>7. ASSUME NEW u \in User, NEW r \in Request, RecordRejection(u, r)
      PROVE  Votes(q)'
  <2>0. /\ UNCHANGED <<initiator, required>>
        /\ ballots' \subseteq ballots
        /\ Votes(r)
    BY <1>7 DEF RecordRejection, VoteInv
  <2>1. CASE UNCHANGED <<votes, reqStatus>>
    BY <1>0, <2>0, <2>1, VotesKept
  <2>2. CASE Recordable(u, r) /\ insertVote(u, r, "reject") /\ Transition(r, "pending", "rejected")
    <3>1. /\ votes'[r] = [votes[r] EXCEPT ![u] = "reject"]
          /\ votes[r] \in [User -> {"none", "approve", "reject"}]
          /\ \A p \in Request \ {r} : votes'[p] = votes[p]
      BY <2>2, VoteTypes DEF TypeInv, TypeOK
    <3>2. u # initiator[r]
      BY <1>7, <2>0 DEF RecordRejection, Votes
    <3>3. reqStatus[r] = "pending" /\ reqStatus'[r] = "rejected"
      BY <1>0, <2>2 DEF Recordable, Transition
    <3>4. CASE q # r
      BY <1>0, <2>0, <2>2, <3>1, <3>4, VotesKept DEF Transition
    <3>5. CASE q = r
      BY <1>0, <2>0, <3>1, <3>2, <3>3, <3>5 DEF Votes, Running
    <3> QED
      BY <3>4, <3>5
  <2> QED
    BY <1>7, <2>1, <2>2 DEF RecordRejection
<1>8. ASSUME NEW r \in Request, Cancel(r) \/ CancelPaymentRequest(r)
      PROVE  Votes(q)'
  <2>1. /\ UNCHANGED <<initiator, required, votes, ballots>>
        /\ UNCHANGED reqStatus \/ (reqStatus[r] = "pending" /\ Transition(r, "pending", "cancelled"))
    BY <1>8 DEF Cancel, CancelPaymentRequest, Transition
  <2>2. CASE UNCHANGED reqStatus
    BY <1>0, <2>1, <2>2, VotesKept
  <2>3. CASE q = r /\ reqStatus[r] = "pending" /\ Transition(r, "pending", "cancelled")
    BY <1>0, <2>1, <2>3 DEF Transition, Votes, Running, Approvers
  <2>4. CASE q # r
    BY <1>0, <2>1, <2>4, VotesKept DEF Transition
  <2> QED
    BY <2>1, <2>2, <2>3, <2>4
<1>9. ASSUME NEW r \in Request, \/ CheckWallet(r) \/ CheckInitiator(r)
                                \/ AssignTransaction(r) \/ sendPayment(r)
      PROVE  Votes(q)'
  <2>1. UNCHANGED reqStatus \/ Transition(r, "executing", "failed")
    BY <1>9 DEF CheckWallet, CheckInitiator, AssignTransaction, sendPayment, fail
  <2>2. UNCHANGED <<initiator, required, votes, ballots>>
    BY <1>9 DEF CheckWallet, CheckInitiator, AssignTransaction, sendPayment
  <2> QED
    BY <1>0, <2>1, <2>2, VotesKept DEF Transition, Running
<1>10. ASSUME NEW r \in Request, AfterRow(r)
       PROVE  Votes(q)'
  <2>1. /\ UNCHANGED <<initiator, required, votes, ballots>>
        /\ \/ UNCHANGED reqStatus
           \/ Transition(r, "executing", "executed")
           \/ Transition(r, "executing", "failed")
    BY <1>10, AfterRowSteps
  <2> QED
    BY <1>0, <2>1, VotesKept DEF Transition, Running
<1>11. CASE ChangeMembers \/ DeleteWallet
  BY <1>0, <1>11, VotesKept DEF ChangeMembers, DeleteWallet
<1>12. CASE Crash
  BY <1>0, <1>12, VotesKept DEF Crash
<1>13. CASE Restart \/ Serve
  BY <1>0, <1>13, VotesKept DEF Restart, Serve
<1>14. ASSUME NEW r \in Request, ReconcileExecuting(r)
       PROVE  Votes(q)'
  BY <1>0, <1>14, VotesKept DEF ReconcileExecuting, Transition, Running
<1>15. CASE UNCHANGED vars
  BY <1>0, <1>15, VotesKept DEF vars
<1> QED
  BY <1>1, <1>2, <1>3, <1>4, <1>5, <1>6, <1>7, <1>8, <1>9, <1>10, <1>11, <1>12, <1>13, <1>14,
     <1>15 DEF Next, Run, AfterRow
------------------------------------------------------------------------------
(* The row, the ledger and what the request is told of them.                 *)

LEMMA TransactionKept ==
  ASSUME NEW q \in Request, Transaction(q),
         reqStatus'[q] = "executed" => reqStatus[q] = "executed",
         txStatus'[q] = txStatus[q],
         q \in ledger => q \in ledger',
         q \in signature => q \in signature',
         \A step \in Claimed \cup {"executed"} : <<q, step>> \in tasks' => <<q, step>> \in tasks
  PROVE  Transaction(q)'
  BY DEF Transaction, Claimed

\* FailSigning leaves a row alone that was claimed.
LEMMA TransactionFails ==
  ASSUME NEW r \in Request, NEW q \in Request, TypeInv, Transaction(q),
         NEW from \in Steps, NEW to, to \subseteq {"fail"}, FailSigning(r, from, to),
         UNCHANGED <<reqStatus, ledger, signature>>
  PROVE  Transaction(q)'
<1>1. \A step \in Claimed \cup {"executed"} : <<q, step>> \in tasks' => <<q, step>> \in tasks
  BY DEF FailSigning, Claimed
<1>2. CASE UNCHANGED txStatus
  BY <1>1, <1>2, TransactionKept
<1>3. CASE txStatus[r] = "signing" /\ txStatus' = [txStatus EXCEPT ![r] = "failed"]
  <2>1. CASE q = r
    BY <1>1, <1>3, <2>1 DEF Transaction, Claimed, TypeInv, TypeOK
  <2>2. CASE q # r
    BY <1>1, <1>3, <2>2, TransactionKept DEF TypeInv, TypeOK
  <2> QED
    BY <2>1, <2>2
<1> QED
  BY <1>2, <1>3 DEF FailSigning

LEMMA NextTransaction ==
  ASSUME TypeInv, ClaimInv, TransactionInv, [Next]_vars
  PROVE  TransactionInv'
<1> SUFFICES ASSUME NEW q \in Request
             PROVE  Transaction(q)'
  BY DEF TransactionInv
<1>0. Transaction(q) /\ Claim(q) /\ reqStatus \in [Request -> ReqStatus]
  BY DEF TransactionInv, ClaimInv, TypeInv, TypeOK
<1> USE DEF requestVars, txVars, voteVars, memoryVars, restVars, sentElsewhere
<1>1. ASSUME NEW r \in Request, \/ hold(r) \/ CountApprovers(r) \/ Expire(r)
      PROVE  Transaction(q)'
  BY <1>0, <1>1, TransactionKept
     DEF hold, CountApprovers, Expire, Continue, Finish, Claimed
<1>2. ASSUME NEW r \in Request, CreatePaymentRequest(r)
      PROVE  Transaction(q)'
  BY <1>0, <1>2, TransactionKept DEF CreatePaymentRequest, Finish
<1>3. ASSUME NEW u \in User, NEW r \in Request, NEW decision \in {"approve", "reject"},
             votableRequest(u, r, decision)
      PROVE  Transaction(q)'
  BY <1>0, <1>3, TransactionKept DEF votableRequest
<1>4. ASSUME NEW u \in User, NEW r \in Request, RecordApproval(u, r)
      PROVE  Transaction(q)'
  <2>1. /\ UNCHANGED <<txStatus, signature, ledger>>
        /\ UNCHANGED reqStatus \/ Transition(r, "pending", "executing")
        /\ tasks' \subseteq tasks \cup {<<r, "execute">>}
    BY <1>4 DEF RecordApproval
  <2> QED
    BY <1>0, <2>1, TransactionKept DEF Transition, Claimed
<1>5. ASSUME NEW u \in User, NEW r \in Request, RecordRejection(u, r)
      PROVE  Transaction(q)'
  BY <1>0, <1>5, TransactionKept DEF RecordRejection, Transition
<1>6. ASSUME NEW r \in Request, Cancel(r) \/ CancelPaymentRequest(r)
      PROVE  Transaction(q)'
  BY <1>0, <1>6, TransactionKept DEF Cancel, CancelPaymentRequest, Transition
<1>7. ASSUME NEW r \in Request, CheckWallet(r) \/ CheckInitiator(r) \/ AssignTransaction(r)
      PROVE  Transaction(q)'
  BY <1>0, <1>7, TransactionKept
     DEF CheckWallet, CheckInitiator, AssignTransaction, fail, Continue, Finish, Transition, Claimed
<1>8. ASSUME NEW r \in Request, sendPayment(r)
      PROVE  Transaction(q)'
  <2>1. CASE q = r
    BY <1>0, <1>8, <2>1 DEF sendPayment, fail, Continue, Finish, Transition, Transaction, Claim, Going, Claimed, TypeInv, TypeOK
  <2>2. CASE q # r
    BY <1>0, <1>8, <2>2, TransactionKept DEF sendPayment, fail, Continue, Finish, Transition, Claimed, TypeInv, TypeOK
  <2> QED
    BY <2>1, <2>2
<1>9. ASSUME NEW r \in Request, enqueueSign(r) \/ dispatchQueued(r)
      PROVE  Transaction(q)'
  BY <1>0, <1>9, TransactionKept DEF enqueueSign, dispatchQueued, Continue, Finish, Claimed
<1>10. ASSUME NEW r \in Request, failSigning(r) \/ Abandon(r)
       PROVE  Transaction(q)'
  BY <1>0, <1>10, TransactionFails DEF failSigning, Abandon, Steps
<1>11. ASSUME NEW r \in Request, FailPaymentRequest(r)
       PROVE  Transaction(q)'
  BY <1>0, <1>11, TransactionKept DEF FailPaymentRequest, fail, Finish, Transition
<1>12. ASSUME NEW r \in Request, ClaimSignature(r)
       PROVE  Transaction(q)'
  <2>1. CASE q = r
    BY <1>0, <1>12, <2>1 DEF ClaimSignature, Transaction, Claimed, TypeInv, TypeOK
  <2>2. CASE q # r
    BY <1>0, <1>12, <2>2, TransactionKept DEF ClaimSignature, Claimed, TypeInv, TypeOK
  <2> QED
    BY <2>1, <2>2
<1>13. ASSUME NEW r \in Request, WalletLookup(r)
       PROVE  Transaction(q)'
  <2>1. CASE q = r
    BY <1>0, <1>13, <2>1 DEF WalletLookup, Continue, Transaction, Claimed, TypeInv, TypeOK
  <2>2. CASE q # r
    BY <1>0, <1>13, <2>2, TransactionKept DEF WalletLookup, Continue, Claimed, TypeInv, TypeOK
  <2> QED
    BY <2>1, <2>2
<1>14. ASSUME NEW r \in Request, Submit(r)
       PROVE  Transaction(q)'
  <2>1. CASE q = r
    BY <1>0, <1>14, <2>1 DEF Submit, Continue, Transaction, Claimed, TypeInv, TypeOK
  <2>2. CASE q # r
    BY <1>0, <1>14, <2>2, TransactionKept DEF Submit, Continue, Claimed, TypeInv, TypeOK
  <2> QED
    BY <2>1, <2>2
<1>15. ASSUME NEW r \in Request, ConfirmTransaction(r)
       PROVE  Transaction(q)'
  <2>1. CASE q = r
    BY <1>0, <1>15, <2>1 DEF ConfirmTransaction, End, Continue, Transaction, Claimed, TypeInv, TypeOK
  <2>2. CASE q # r
    BY <1>0, <1>15, <2>2, TransactionKept DEF ConfirmTransaction, End, Continue, Claimed, TypeInv, TypeOK
  <2> QED
    BY <2>1, <2>2
<1>16. ASSUME NEW r \in Request, FailTransaction(r)
       PROVE  Transaction(q)'
  <2>1. CASE q = r
    BY <1>0, <1>16, <2>1 DEF FailTransaction, End, Continue, Transaction, Claimed, TypeInv, TypeOK
  <2>2. CASE q # r
    BY <1>0, <1>16, <2>2, TransactionKept DEF FailTransaction, End, Continue, Claimed, TypeInv, TypeOK
  <2> QED
    BY <2>1, <2>2
<1>17. ASSUME NEW r \in Request, settle(r)
       PROVE  Transaction(q)'
  <2>1. CASE q = r
    BY <1>0, <1>17, <2>1 DEF settle, Continue, Finish, Transaction, Claimed, TypeInv, TypeOK
  <2>2. CASE q # r
    BY <1>0, <1>17, <2>2, TransactionKept DEF settle, Continue, Finish, Claimed, TypeInv, TypeOK
  <2> QED
    BY <2>1, <2>2
<1>18. ASSUME NEW r \in Request, SettleByTransaction(r)
       PROVE  Transaction(q)'
  <2>1. CASE q = r
    BY <1>0, <1>18, <2>1
       DEF SettleByTransaction, Finish, Transition, Transaction, Claimed, TypeInv, TypeOK
  <2>2. CASE q # r
    BY <1>0, <1>18, <2>2, TransactionKept DEF SettleByTransaction, Finish, Transition
  <2> QED
    BY <2>1, <2>2
<1>19. CASE ChangeMembers
  BY <1>0, <1>19, TransactionKept DEF ChangeMembers
<1>20. CASE DeleteWallet
  <2>1. txStatus'[q] = IF txStatus[q] = "none" THEN "none" ELSE "gone"
    BY <1>20 DEF DeleteWallet
  <2> QED
    BY <1>0, <1>20, <2>1 DEF DeleteWallet, Transaction, Claimed
<1>21. CASE Crash
  BY <1>0, <1>21, TransactionKept DEF Crash
<1>22. CASE Restart \/ Serve
  BY <1>0, <1>22, TransactionKept DEF Restart, Serve
<1>23. ASSUME NEW r \in Request, ReconcileExecuting(r)
       PROVE  Transaction(q)'
  BY <1>0, <1>23, TransactionKept DEF ReconcileExecuting, Transition, Claimed
<1>24. CASE UNCHANGED vars
  BY <1>0, <1>24, TransactionKept DEF vars
<1> QED
  BY <1>1, <1>2, <1>3, <1>4, <1>5, <1>6, <1>7, <1>8, <1>9, <1>10, <1>11, <1>12, <1>13, <1>14,
     <1>15, <1>16, <1>17, <1>18, <1>19, <1>20, <1>21, <1>22, <1>23, <1>24 DEF Next, Run
------------------------------------------------------------------------------
LEMMA InitIInv == Init => IInv
<1> SUFFICES ASSUME Init
             PROVE  IInv
  OBVIOUS
<1>1. ProcessInv
  BY DEF Init, ProcessInv
<1>2. \A r \in Request : initiator[r] \in User
  BY DEF Init
<1>3. VoteInv
  BY <1>2 DEF Init, VoteInv, Votes, Running
<1>4. ClaimInv
  BY DEF Init, ClaimInv, Claim, Running
<1>5. TransactionInv
  BY DEF Init, TransactionInv, Transaction
<1> QED
  BY <1>1, <1>3, <1>4, <1>5, InitTypes DEF IInv

LEMMA ApprovalsInductive == Spec => []IInv
<1>1. IInv /\ [Next]_vars => IInv'
  BY NextTypes, NextProcess, NextVotes, NextClaim, NextTransaction DEF IInv
<1> QED
  BY <1>1, InitIInv, PTL DEF Spec

\* The state of payment requests keeps its type for any team, any number of requests,
\* of changes of members and of crashes.
THEOREM TypeCorrect == Spec => []TypeOK
<1>1. IInv => TypeOK
  BY DEF IInv, TypeInv
<1> QED
  BY <1>1, ApprovalsInductive, PTL

\* "a payment is sent at most once": one approval claims a request, in one UPDATE of a
\* row that is pending, and the goroutine that made it saves one row and no other does.
THEOREM NeverSentTwice == Spec => []SentAtMostOnce
<1>1. IInv => SentAtMostOnce
  BY DEF IInv, ClaimInv, Claim, SentAtMostOnce
<1> QED
  BY <1>1, ApprovalsInductive, PTL

\* A payment is sent only on as many approvals of others as it required when it was
\* held, although each vote is recorded after a look that may be stale.
THEOREM SentOnEnoughApprovals == Spec => []EnoughApprovers
<1>1. ASSUME IInv, NEW r \in Request, sends[r] > 0
      PROVE  /\ required[r] > 0
             /\ Cardinality({u \in User \ {initiator[r]} : votes[r][u] = "approve"}) >= required[r]
  <2>1. reqStatus[r] \in Running
    BY <1>1 DEF IInv, ClaimInv, Claim
  <2> QED
    BY <1>1, <2>1 DEF IInv, VoteInv, Votes, Approvers, Running
<1>2. IInv => EnoughApprovers
  BY <1>1 DEF EnoughApprovers
<1> QED
  BY <1>2, ApprovalsInductive, PTL

\* A request that its team sees as executed was paid.
THEOREM ExecutedWasPaid == Spec => []ExecutedIsOnLedger
<1>1. IInv => ExecutedIsOnLedger
  BY DEF IInv, TransactionInv, Transaction, ExecutedIsOnLedger
<1> QED
  BY <1>1, ApprovalsInductive, PTL

\* The team always has an owner, whatever happens to its payments and the process.
THEOREM TeamHasOwner == Spec => []HasOwner
<1>1. IInv => HasOwner
  BY DEF IInv, TypeInv
<1> QED
  BY <1>1, ApprovalsInductive, PTL
------------------------------------------------------------------------------
(* Refinement of PaymentRequest.                                             *)

\* PaymentRequest counts as this module does.
LEMMA HeldCardinality == ASSUME NEW S PROVE Held!Cardinality(S) = Cardinality(S)
  BY DEF Held!Cardinality, Cardinality

LEMMA HeldVars ==
  ASSUME UNCHANGED <<reqStatus, initiator, votes, expired, sends, ledger, voteVars>>,
         \A r \in Request : reqStatus[r] = "none" \/ required'[r] = required[r]
  PROVE  UNCHANGED Held!vars
<1>1. HeldRequired' = HeldRequired
  BY DEF HeldRequired
<1>2. UNCHANGED <<HeldApproving, HeldStopping>>
  BY DEF voteVars, HeldApproving, HeldStopping
<1>3. UNCHANGED <<reqStatus, initiator, HeldRequired, HeldApprovals, expired, HeldSent, ledger>>
  BY <1>1 DEF HeldApprovals, HeldSent
<1> QED
  BY <1>2, <1>3 DEF Held!vars, Held!requestVars, Held!decisions

\* No vote or cancellation more is under way.
LEMMA HeldFewer ==
  ASSUME ballots' \subseteq ballots, cancels' \subseteq cancels
  PROVE  Held!Fewer
<1>1. \A r \in Request : HeldApproving'[r] \subseteq HeldApproving[r]
  BY DEF HeldApproving
<1>2. HeldStopping' \subseteq HeldStopping
  BY DEF HeldStopping
<1> QED
  BY <1>1, <1>2 DEF Held!Fewer

\* A handler ends without effect, or all of them with the process.
LEMMA WithdrawRefines ==
  ASSUME UNCHANGED <<reqStatus, initiator, required, votes, expired, sends, ledger>>,
         ballots' \subseteq ballots, cancels' \subseteq cancels
  PROVE  Held!Next
<1>1. UNCHANGED <<reqStatus, initiator, HeldRequired, HeldApprovals, expired, HeldSent, ledger>>
  BY DEF HeldRequired, HeldApprovals, HeldSent
<1>2. Held!Withdraw
  BY <1>1, HeldFewer DEF Held!Withdraw, Held!requestVars
<1> QED
  BY <1>2 DEF Held!Next

\* A handler has looked at the request and read the clock before the end.
LEMMA DecideRefines ==
  ASSUME NEW r \in Request, Open(r),
         UNCHANGED <<reqStatus, initiator, required, votes, expired, sends, ledger>>,
         \/ \E u \in User : \/ ballots' = ballots \cup {<<u, r, "approve">>}
                           \/ ballots' = ballots \cup {<<u, r, "reject">>}
         \/ UNCHANGED ballots,
         \/ cancels' = cancels \cup {r} /\ UNCHANGED ballots
         \/ UNCHANGED cancels /\ ~UNCHANGED ballots
  PROVE  Held!Next
<1>1. UNCHANGED <<reqStatus, initiator, HeldRequired, HeldApprovals, expired, HeldSent, ledger>>
  BY DEF HeldRequired, HeldApprovals, HeldSent
<1>2. CASE cancels' = cancels \cup {r} /\ UNCHANGED ballots
  <2>1. HeldStopping' = HeldStopping \cup {r} /\ UNCHANGED HeldApproving
    BY <1>2 DEF HeldStopping, HeldApproving
  <2>2. Held!Decide(r)
    BY <1>1, <2>1 DEF Open, Held!Decide, Held!requestVars
  <2> QED
    BY <2>2 DEF Held!Next
<1>3. ASSUME NEW u \in User, ballots' = ballots \cup {<<u, r, "approve">>}, UNCHANGED cancels
      PROVE  Held!Next
  <2>1. HeldApproving' = [HeldApproving EXCEPT ![r] = @ \cup {u}]
    BY <1>3 DEF HeldApproving
  <2>2. UNCHANGED HeldStopping
    BY <1>3 DEF HeldStopping
  <2>3. Held!Decide(r)
    BY <1>1, <2>1, <2>2 DEF Open, Held!Decide, Held!requestVars
  <2> QED
    BY <2>3 DEF Held!Next
<1>4. ASSUME NEW u \in User, ballots' = ballots \cup {<<u, r, "reject">>}, UNCHANGED cancels
      PROVE  Held!Next
  <2>1. HeldStopping' = HeldStopping \cup {r}
    BY <1>4 DEF HeldStopping
  <2>2. UNCHANGED HeldApproving
    BY <1>4 DEF HeldApproving
  <2>3. Held!Decide(r)
    BY <1>1, <2>1, <2>2 DEF Open, Held!Decide, Held!requestVars
  <2> QED
    BY <2>3 DEF Held!Next
<1> QED
  BY <1>2, <1>3, <1>4

\* A conditional UPDATE that closes an executing request.
LEMMA CloseRefines ==
  ASSUME TypeInv, NEW r \in Request, NEW end,
         end = "failed" \/ (end = "executed" /\ r \in ledger),
         Transition(r, "executing", end),
         UNCHANGED <<initiator, required, votes, expired, sends, ledger, voteVars>>
  PROVE  [Held!Next]_(Held!vars)
<1>1. CASE UNCHANGED reqStatus
  BY <1>1, HeldVars
<1>2. CASE reqStatus[r] = "executing" /\ reqStatus' = [reqStatus EXCEPT ![r] = end]
  <2>1. UNCHANGED <<HeldRequired, HeldApprovals, HeldSent>>
    BY <1>2 DEF HeldRequired, HeldApprovals, HeldSent, TypeInv, TypeOK
  <2>2. UNCHANGED <<HeldApproving, HeldStopping>>
    BY DEF voteVars, HeldApproving, HeldStopping
  <2>3. Held!Close(r)
    BY <1>2, <2>1, <2>2 DEF Held!Close, Held!Move, Held!decisions
  <2> QED
    BY <2>3 DEF Held!Next
<1> QED
  BY <1>1, <1>2 DEF Transition

\* A rejection or a cancellation.
LEMMA StopRefines ==
  ASSUME TypeInv, NEW r \in Request, NEW end \in {"rejected", "cancelled"},
         reqStatus[r] = "pending", r \in HeldStopping, Transition(r, "pending", end),
         UNCHANGED <<initiator, required, HeldApprovals, expired, sends, ledger>>,
         ballots' \subseteq ballots, cancels' \subseteq cancels
  PROVE  Held!Next
<1>1. reqStatus[r] = "pending" /\ reqStatus' = [reqStatus EXCEPT ![r] = end]
  BY DEF Transition
<1>2. UNCHANGED <<HeldRequired, HeldSent>>
  BY <1>1 DEF HeldRequired, HeldSent, TypeInv, TypeOK
<1>3. Held!Stop(r)
  BY <1>1, <1>2, HeldFewer DEF Held!Stop, Held!Move
<1> QED
  BY <1>3 DEF Held!Next

\* An approval that was recorded.
LEMMA ApprovalRefines ==
  ASSUME IInv, NEW u \in User, NEW r \in Request, RecordApproval(u, r),
         Recordable(u, r), insertVote(u, r, "approve")
  PROVE  Held!Next
<1>1. /\ votes'[r] = [votes[r] EXCEPT ![u] = "approve"]
      /\ votes[r] \in [User -> {"none", "approve", "reject"}]
      /\ \A q \in Request \ {r} : votes'[q] = votes[q]
  BY VoteTypes DEF IInv, TypeInv, TypeOK
<1>2. HeldApprovals' = [HeldApprovals EXCEPT ![r] = @ \cup {u}]
  <2>1. {v \in User : votes'[r][v] = "approve"} = {v \in User : votes[r][v] = "approve"} \cup {u}
    BY <1>1
  <2>2. \A q \in Request \ {r} :
          {v \in User : votes'[q][v] = "approve"} = {v \in User : votes[q][v] = "approve"}
    BY <1>1
  <2> QED
    BY <2>1, <2>2 DEF HeldApprovals
<1>3. /\ reqStatus[r] = "pending"
      /\ u \in HeldApproving[r] \ (HeldApprovals[r] \cup {initiator[r]})
  BY DEF Recordable, HeldApprovals, HeldApproving, IInv, VoteInv, Votes, RecordApproval
<1>4. UNCHANGED <<initiator, required, expired, sends, ledger>>
  BY DEF RecordApproval, txVars
<1>5. \/ UNCHANGED reqStatus
      \/ /\ reqStatus' = [reqStatus EXCEPT ![r] = "executing"]
         /\ required[r] <= Cardinality(Counted(votes'[r]))
  BY <1>3, Zenon DEF RecordApproval, Transition
<1>6. UNCHANGED <<HeldRequired, HeldSent>>
  BY <1>3, <1>4, <1>5 DEF HeldRequired, HeldSent, IInv, TypeInv, TypeOK
<1>7. HeldRequired[r] = required[r] /\ required[r] \in Nat
  BY <1>3, PolicyIsInt DEF HeldRequired, IInv, TypeInv, TypeOK
<1>8. Cardinality(Counted(votes'[r])) \in Nat /\ Cardinality(HeldApprovals'[r]) \in Nat
      /\ Cardinality(Counted(votes'[r])) <= Cardinality(HeldApprovals'[r])
  <2>1. Counted(votes'[r]) \subseteq HeldApprovals'[r] /\ HeldApprovals'[r] \subseteq User
    BY DEF Counted, HeldApprovals
  <2>2. IsFiniteSet(HeldApprovals'[r])
    BY <2>1, UserAssumption, FS_Subset
  <2> QED
    BY <2>1, <2>2, FS_Subset, FS_CardinalityType
<1>9. Held!Approve(u, r)
  <2>1. reqStatus' = reqStatus \/ Cardinality(HeldApprovals'[r]) >= HeldRequired[r]
    BY <1>5, <1>7, <1>8
  <2>2. \/ reqStatus' = reqStatus
        \/ Cardinality(HeldApprovals'[r]) >= HeldRequired[r] /\ Held!Move(r, "pending", "executing")
    BY <1>3, <1>5, <2>1 DEF Held!Move
  <2>3. Held!Fewer
    BY HeldFewer DEF RecordApproval
  <2> QED
    BY <1>2, <1>3, <1>4, <1>6, <2>2, <2>3, HeldCardinality DEF Held!Approve
<1> QED
  BY <1>9 DEF Held!Next

\* The INSERT that puts a held payment before its team.
LEMMA HoldRefines ==
  ASSUME IInv, NEW r \in Request, CreatePaymentRequest(r)
  PROVE  Held!Next
<1>1. reqStatus[r] = "none" /\ required[r] > 0
  BY DEF CreatePaymentRequest, IInv, ClaimInv, Claim, Before
<1>2. reqStatus' = [reqStatus EXCEPT ![r] = "pending"] /\ required' = required
  BY DEF CreatePaymentRequest
<1>3. required[r] \in 1 .. Cardinality(User)
  BY <1>1, UserAssumption, FS_CardinalityType DEF IInv, TypeInv, TypeOK
<1>4. HeldRequired' = [HeldRequired EXCEPT ![r] = required[r]]
  BY <1>2 DEF HeldRequired, IInv, TypeInv, TypeOK
<1>5. UNCHANGED <<initiator, HeldApprovals, expired, HeldSent, ledger, HeldApproving, HeldStopping>>
  BY DEF CreatePaymentRequest, HeldApprovals, HeldSent, HeldApproving, HeldStopping, txVars,
         memoryVars, voteVars
<1>6. Held!Hold(r)
  BY <1>1, <1>2, <1>3, <1>4, <1>5, HeldCardinality DEF Held!Hold, Held!Move, Held!decisions
<1> QED
  BY <1>6 DEF Held!Next

\* The row that the goroutine of a claim saves.
LEMMA SendRefines ==
  ASSUME IInv, NEW r \in Request, sendPayment(r)
  PROVE  [Held!Next]_(Held!vars)
<1>0. UNCHANGED <<initiator, required, votes, expired, voteVars>>
  BY DEF sendPayment, sentElsewhere, memoryVars
<1>1. reqStatus[r] = "executing" /\ sends[r] = 0
  BY DEF sendPayment, IInv, ClaimInv, Claim, Going
<1>2. CASE sends' = [sends EXCEPT ![r] = @ + 1] /\ UNCHANGED <<reqStatus, ledger>>
  <2>1. HeldSent' = HeldSent \cup {r} /\ r \notin HeldSent
    BY <1>1, <1>2 DEF HeldSent, IInv, TypeInv, TypeOK
  <2>2. UNCHANGED <<reqStatus, HeldRequired, HeldApprovals, expired, initiator, ledger,
                    HeldApproving, HeldStopping>>
    BY <1>0, <1>2 DEF HeldRequired, HeldApprovals, HeldApproving, HeldStopping, voteVars
  <2>3. Held!Send(r)
    BY <1>1, <2>1, <2>2 DEF Held!Send, Held!requestVars, Held!decisions
  <2> QED
    BY <2>3 DEF Held!Next
<1>3. CASE fail(r, "send") /\ UNCHANGED txVars
  BY <1>0, <1>3, CloseRefines DEF fail, txVars, IInv
<1> QED
  BY <1>2, <1>3 DEF sendPayment

\* Horizon's application of the envelope.
LEMMA PayRefines ==
  ASSUME IInv, NEW r \in Request, Submit(r)
  PROVE  [Held!Next]_(Held!vars)
<1>0. UNCHANGED <<reqStatus, initiator, required, votes, expired, sends, voteVars>>
  BY DEF Submit, sentElsewhere, memoryVars
<1>1. CASE UNCHANGED ledger
  BY <1>0, <1>1, HeldVars
<1>2. CASE ledger' = ledger \cup {r} /\ r \notin ledger
  <2>1. r \in HeldSent
    <3>1. "submit" \in Sent /\ <<r, "submit">> \in tasks
      BY DEF Submit, Sent, Before, Going, Steps
    <3>2. sends[r] = 1
      BY <3>1 DEF IInv, ClaimInv, Claim
    <3> QED
      BY <3>2 DEF HeldSent
  <2>2. UNCHANGED <<reqStatus, HeldRequired, HeldApprovals, expired, initiator, HeldSent,
                    HeldApproving, HeldStopping>>
    BY <1>0 DEF HeldRequired, HeldApprovals, HeldSent, HeldApproving, HeldStopping, voteVars
  <2>3. Held!Pay(r)
    BY <1>2, <2>1, <2>2 DEF Held!Pay, Held!requestVars, Held!decisions
  <2> QED
    BY <2>3 DEF Held!Next
<1> QED
  BY <1>1, <1>2 DEF Submit

LEMMA StepsRefineRequest ==
  ASSUME IInv, [Next]_vars
  PROVE  [Held!Next]_(Held!vars)
<1> USE DEF requestVars, txVars, voteVars, memoryVars, restVars, sentElsewhere
<1>0. TypeInv
  BY DEF IInv
<1>1. ASSUME NEW r \in Request, hold(r)
      PROVE  [Held!Next]_(Held!vars)
  BY <1>0, <1>1, HeldVars DEF hold, TypeInv, TypeOK
<1>2. ASSUME NEW r \in Request, CountApprovers(r)
      PROVE  [Held!Next]_(Held!vars)
  BY <1>2, HeldVars DEF CountApprovers
<1>3. ASSUME NEW r \in Request, CreatePaymentRequest(r)
      PROVE  [Held!Next]_(Held!vars)
  BY <1>3, HoldRefines
<1>4. ASSUME NEW r \in Request, Expire(r)
      PROVE  [Held!Next]_(Held!vars)
  <2>1. UNCHANGED <<reqStatus, initiator, HeldRequired, HeldApprovals, HeldSent, ledger,
                    HeldApproving, HeldStopping>>
    BY <1>4 DEF Expire, HeldRequired, HeldApprovals, HeldSent, HeldApproving, HeldStopping
  <2>2. Held!Expire(r)
    BY <1>4, <2>1 DEF Expire, Held!Expire, Held!decisions
  <2> QED
    BY <2>2 DEF Held!Next
<1>5. ASSUME NEW r \in Request, Cancel(r) \/ CancelPaymentRequest(r)
      PROVE  [Held!Next]_(Held!vars)
  <2>1. CASE Cancel(r)
    BY <2>1, DecideRefines DEF Cancel
  <2>2. CASE CancelPaymentRequest(r)
    <3>1. r \in HeldStopping /\ cancels' \subseteq cancels /\ UNCHANGED ballots
      BY <2>2 DEF CancelPaymentRequest, HeldStopping
    <3>2. CASE reqStatus[r] = "pending"
      <4>1. UNCHANGED HeldApprovals
        BY <2>2 DEF CancelPaymentRequest, HeldApprovals
      <4> QED
        BY <1>0, <2>2, <3>1, <3>2, <4>1, StopRefines DEF CancelPaymentRequest
    <3>3. CASE reqStatus[r] # "pending"
      BY <2>2, <3>1, <3>3, WithdrawRefines DEF CancelPaymentRequest, Transition
    <3> QED
      BY <3>2, <3>3
  <2> QED
    BY <1>5, <2>1, <2>2
<1>6. ASSUME NEW u \in User, NEW r \in Request, RecordRejection(u, r)
      PROVE  [Held!Next]_(Held!vars)
  <2>1. CASE Recordable(u, r) /\ insertVote(u, r, "reject") /\ Transition(r, "pending", "rejected")
    <3>1. /\ votes'[r] = [votes[r] EXCEPT ![u] = "reject"]
          /\ votes[r] \in [User -> {"none", "approve", "reject"}]
          /\ \A q \in Request \ {r} : votes'[q] = votes[q]
      BY <1>0, <2>1, VoteTypes DEF TypeInv, TypeOK
    <3>2. votes[r][u] = "none"
      BY <2>1 DEF Recordable
    <3>3. \A q \in Request :
            {v \in User : votes'[q][v] = "approve"} = {v \in User : votes[q][v] = "approve"}
      BY <3>1, <3>2
    <3>4. UNCHANGED HeldApprovals
      BY <3>3 DEF HeldApprovals
    <3>5. r \in HeldStopping
      BY <1>6 DEF RecordRejection, HeldStopping
    <3> QED
      BY <1>0, <1>6, <2>1, <3>4, <3>5, StopRefines DEF RecordRejection, Recordable
  <2>2. CASE UNCHANGED <<votes, reqStatus>>
    BY <1>6, <2>2, WithdrawRefines DEF RecordRejection
  <2> QED
    BY <1>6, <2>1, <2>2 DEF RecordRejection
<1>7. ASSUME NEW u \in User, NEW r \in Request, RecordApproval(u, r)
      PROVE  [Held!Next]_(Held!vars)
  <2>1. CASE Recordable(u, r) /\ insertVote(u, r, "approve")
    BY <1>7, <2>1, ApprovalRefines
  <2>2. CASE UNCHANGED <<votes, reqStatus>>
    BY <1>7, <2>2, WithdrawRefines DEF RecordApproval
  <2> QED
    BY <1>7, <2>1, <2>2 DEF RecordApproval
<1>8. ASSUME NEW u \in User, NEW r \in Request, NEW decision \in {"approve", "reject"},
             votableRequest(u, r, decision)
      PROVE  [Held!Next]_(Held!vars)
  <2>1. CASE UNCHANGED ballots
    BY <1>8, <2>1, WithdrawRefines DEF votableRequest
  <2>2. CASE ~UNCHANGED ballots
    BY <1>8, <2>2, DecideRefines DEF votableRequest
  <2> QED
    BY <2>1, <2>2
<1>9. ASSUME NEW r \in Request,
             \/ CheckWallet(r) \/ CheckInitiator(r) \/ AssignTransaction(r) \/ FailPaymentRequest(r)
      PROVE  [Held!Next]_(Held!vars)
  <2>1. UNCHANGED <<initiator, required, votes, expired, sends, ledger, voteVars>>
    BY <1>9 DEF CheckWallet, CheckInitiator, AssignTransaction, FailPaymentRequest
  <2>2. UNCHANGED reqStatus \/ Transition(r, "executing", "failed")
    BY <1>9 DEF CheckWallet, CheckInitiator, AssignTransaction, FailPaymentRequest, fail
  <2> QED
    BY <1>0, <2>1, <2>2, HeldVars, CloseRefines
<1>10. ASSUME NEW r \in Request, sendPayment(r)
       PROVE  [Held!Next]_(Held!vars)
  BY <1>10, SendRefines
<1>11. ASSUME NEW r \in Request, enqueueSign(r) \/ dispatchQueued(r) \/ failSigning(r)
       PROVE  [Held!Next]_(Held!vars)
  BY <1>11, HeldVars DEF enqueueSign, dispatchQueued, failSigning
<1>12. ASSUME NEW r \in Request, Abandon(r) \/ ClaimSignature(r) \/ WalletLookup(r)
       PROVE  [Held!Next]_(Held!vars)
  BY <1>12, HeldVars DEF Abandon, ClaimSignature, WalletLookup
<1>13. ASSUME NEW r \in Request, Submit(r)
       PROVE  [Held!Next]_(Held!vars)
  BY <1>13, PayRefines
<1>14. ASSUME NEW r \in Request, ConfirmTransaction(r) \/ FailTransaction(r) \/ settle(r)
       PROVE  [Held!Next]_(Held!vars)
  BY <1>14, HeldVars DEF ConfirmTransaction, FailTransaction, End, settle
<1>15. ASSUME NEW r \in Request, SettleByTransaction(r)
       PROVE  [Held!Next]_(Held!vars)
  <2>1. PICK end \in {"executed", "failed"} :
          <<r, end>> \in tasks /\ (Transition(r, "executing", end) \/ UNCHANGED reqStatus)
    BY <1>15 DEF SettleByTransaction
  <2>2. end = "failed" \/ (end = "executed" /\ r \in ledger)
    BY <2>1 DEF IInv, TransactionInv, Transaction
  <2>3. UNCHANGED <<initiator, required, votes, expired, sends, ledger, voteVars>>
    BY <1>15 DEF SettleByTransaction
  <2> QED
    BY <1>0, <2>1, <2>2, <2>3, HeldVars, CloseRefines
<1>16. CASE ChangeMembers \/ DeleteWallet \/ Crash \/ Restart \/ Serve
  <2>1. CASE Crash
    BY <2>1, WithdrawRefines DEF Crash
  <2>2. CASE ChangeMembers \/ DeleteWallet \/ Restart \/ Serve
    BY <2>2, HeldVars DEF ChangeMembers, DeleteWallet, Restart, Serve
  <2> QED
    BY <1>16, <2>1, <2>2
<1>17. ASSUME NEW r \in Request, ReconcileExecuting(r)
       PROVE  [Held!Next]_(Held!vars)
  <2>1. UNCHANGED <<initiator, required, votes, expired, sends, ledger, voteVars>>
    BY <1>17 DEF ReconcileExecuting
  <2>2. UNCHANGED reqStatus \/ Transition(r, "executing", "failed")
    BY <1>17 DEF ReconcileExecuting
  <2> QED
    BY <1>0, <2>1, <2>2, HeldVars, CloseRefines
<1>18. CASE UNCHANGED vars
  BY <1>18, HeldVars DEF vars
<1> QED
  BY <1>1, <1>2, <1>3, <1>4, <1>5, <1>6, <1>7, <1>8, <1>9, <1>10, <1>11, <1>12, <1>13, <1>14,
     <1>15, <1>16, <1>17, <1>18 DEF Next, Run

\* Whatever the order of votes, statements, goroutines and restarts, a team sees what
\* PaymentRequest promises: held, approved by enough others, sent once, paid, closed.
THEOREM Refinement == Spec => ImplementsRequest
<1>1. Init => Held!Init
  <2> SUFFICES ASSUME Init
               PROVE  Held!Init
    OBVIOUS
  <2>1. HeldRequired = [r \in Request |-> 0] /\ HeldApprovals = [r \in Request |-> {}]
    BY DEF Init, HeldRequired, HeldApprovals
  <2>2. HeldSent = {} /\ initiator \in [Request -> User]
    BY DEF Init, HeldSent
  <2>3. HeldApproving = [r \in Request |-> {}] /\ HeldStopping = {}
    BY DEF Init, HeldApproving, HeldStopping
  <2> QED
    BY <2>1, <2>2, <2>3 DEF Init, Held!Init
<1>2. IInv /\ [Next]_vars => [Held!Next]_(Held!vars)
  BY StepsRefineRequest
<1> QED
  BY <1>1, <1>2, ApprovalsInductive, PTL DEF Spec, ImplementsRequest, Held!Spec
------------------------------------------------------------------------------
(* Refinement of TransactionLifecycle.                                       *)

\* FailSigning changes a row that is still signing, and no other.
LEMMA FailSigningRefines ==
  ASSUME NEW r \in Request, NEW from, NEW to, FailSigning(r, from, to),
         UNCHANGED <<signature, ledger>>
  PROVE  [Lifecycle!Next]_(Lifecycle!vars)
<1>1. CASE UNCHANGED txStatus
  BY <1>1 DEF Lifecycle!vars
<1>2. CASE txStatus[r] = "signing" /\ txStatus' = [txStatus EXCEPT ![r] = "failed"]
  <2>1. Lifecycle!Abandon(r)
    BY <1>2 DEF Lifecycle!Abandon, Lifecycle!Move
  <2> QED
    BY <2>1 DEF Lifecycle!Next
<1> QED
  BY <1>1, <1>2 DEF FailSigning

\* Whoever ends a row has claimed it, and finds it as it was or gone.
LEMMA EndRefines ==
  ASSUME IInv, NEW r \in Request, ConfirmTransaction(r) \/ FailTransaction(r)
  PROVE  [Lifecycle!Next]_(Lifecycle!vars)
<1>1. txStatus[r] \in {"broadcast", "gone"} /\ UNCHANGED <<signature, ledger>>
  BY DEF ConfirmTransaction, FailTransaction, End, Claimed, IInv, TransactionInv, Transaction
<1>2. txStatus \in [Request -> TxStatus]
  BY DEF IInv, TypeInv, TypeOK
<1>3. CASE txStatus[r] = "gone"
  <2>1. UNCHANGED txStatus
    BY <1>2, <1>3 DEF ConfirmTransaction, FailTransaction, End
  <2> QED
    BY <1>1, <2>1 DEF Lifecycle!vars
<1>4. CASE txStatus[r] = "broadcast" /\ ConfirmTransaction(r)
  <2>1. r \in ledger /\ txStatus' = [txStatus EXCEPT ![r] = "confirmed"]
    BY <1>2, <1>4 DEF ConfirmTransaction, End, IInv, TransactionInv, Transaction
  <2>2. Lifecycle!Confirm(r)
    BY <1>1, <1>4, <2>1 DEF Lifecycle!Confirm, Lifecycle!Move
  <2> QED
    BY <2>2 DEF Lifecycle!Next
<1>5. CASE txStatus[r] = "broadcast" /\ FailTransaction(r)
  <2>1. txStatus' = [txStatus EXCEPT ![r] = "failed"]
    BY <1>2, <1>5 DEF FailTransaction, End
  <2>2. Lifecycle!Reject(r)
    BY <1>1, <1>5, <2>1 DEF Lifecycle!Reject, Lifecycle!Move
  <2> QED
    BY <2>2 DEF Lifecycle!Next
<1> QED
  BY <1>1, <1>3, <1>4, <1>5

LEMMA StepsRefineLifecycle ==
  ASSUME IInv, [Next]_vars
  PROVE  [Lifecycle!Next]_(Lifecycle!vars)
<1> USE DEF requestVars, txVars, voteVars, memoryVars, restVars, sentElsewhere
<1>1. CASE UNCHANGED <<txStatus, signature, ledger>>
  BY <1>1 DEF Lifecycle!vars
<1>2. ASSUME NEW r \in Request, sendPayment(r)
      PROVE  [Lifecycle!Next]_(Lifecycle!vars)
  <2>1. txStatus[r] = "none"
    BY <1>2 DEF sendPayment, IInv, ClaimInv, Claim, Going
  <2>2. CASE txStatus' = [txStatus EXCEPT ![r] = "signing"] /\ UNCHANGED <<signature, ledger>>
    <3>1. Lifecycle!Begin(r)
      BY <2>1, <2>2 DEF Lifecycle!Begin, Lifecycle!Move
    <3> QED
      BY <3>1 DEF Lifecycle!Next
  <2> QED
    BY <1>1, <1>2, <2>2 DEF sendPayment
<1>3. ASSUME NEW r \in Request, failSigning(r) \/ Abandon(r)
      PROVE  [Lifecycle!Next]_(Lifecycle!vars)
  <2>1. UNCHANGED <<signature, ledger>>
    BY <1>3 DEF failSigning, Abandon
  <2> QED
    BY <1>3, <2>1, FailSigningRefines DEF failSigning, Abandon
<1>4. ASSUME NEW r \in Request, ClaimSignature(r)
      PROVE  [Lifecycle!Next]_(Lifecycle!vars)
  <2>1. Lifecycle!Sign(r)
    BY <1>4 DEF ClaimSignature, Lifecycle!Sign, Lifecycle!Move
  <2> QED
    BY <2>1 DEF Lifecycle!Next
<1>5. ASSUME NEW r \in Request, Submit(r)
      PROVE  [Lifecycle!Next]_(Lifecycle!vars)
  <2>1. r \in signature /\ txStatus[r] \in {"broadcast", "gone"} /\ UNCHANGED <<txStatus, signature>>
    BY <1>5 DEF Submit, Claimed, IInv, TransactionInv, Transaction
  <2>2. CASE UNCHANGED ledger
    BY <2>1, <2>2 DEF Lifecycle!vars
  <2>3. CASE ledger' = ledger \cup {r} /\ r \notin ledger
    <3>1. Lifecycle!Land(r)
      BY <2>1, <2>3 DEF Lifecycle!Land
    <3> QED
      BY <3>1 DEF Lifecycle!Next
  <2> QED
    BY <1>5, <2>2, <2>3 DEF Submit
<1>6. ASSUME NEW r \in Request, ConfirmTransaction(r) \/ FailTransaction(r)
      PROVE  [Lifecycle!Next]_(Lifecycle!vars)
  BY <1>6, EndRefines
<1>7. CASE DeleteWallet
  <2> DEFINE rows == {r \in Request : txStatus[r] # "none"}
  <2>1. txStatus' = [r \in Request |-> IF r \in rows THEN "gone" ELSE txStatus[r]]
    BY <1>7 DEF DeleteWallet
  <2>2. Lifecycle!Remove(rows)
    BY <1>7, <2>1 DEF DeleteWallet, Lifecycle!Remove
  <2>3. rows \in SUBSET Request
    OBVIOUS
  <2> HIDE DEF rows
  <2> QED
    BY <2>2, <2>3 DEF Lifecycle!Next
<1>8. ASSUME NEW r \in Request,
             \/ hold(r) \/ CountApprovers(r) \/ CreatePaymentRequest(r) \/ Expire(r)
             \/ Cancel(r) \/ CancelPaymentRequest(r) \/ CheckWallet(r) \/ CheckInitiator(r)
             \/ AssignTransaction(r) \/ FailPaymentRequest(r)
      PROVE  UNCHANGED <<txStatus, signature, ledger>>
  BY <1>8 DEF hold, CountApprovers, CreatePaymentRequest, Expire, Cancel, CancelPaymentRequest,
              CheckWallet, CheckInitiator, AssignTransaction, FailPaymentRequest
<1>9. ASSUME NEW r \in Request,
             \/ enqueueSign(r) \/ dispatchQueued(r) \/ WalletLookup(r) \/ settle(r)
             \/ SettleByTransaction(r) \/ ReconcileExecuting(r)
      PROVE  UNCHANGED <<txStatus, signature, ledger>>
  BY <1>9 DEF enqueueSign, dispatchQueued, WalletLookup, settle, SettleByTransaction,
              ReconcileExecuting
<1>10. ASSUME NEW u \in User, NEW r \in Request,
              \/ \E decision \in {"approve", "reject"} : votableRequest(u, r, decision)
              \/ RecordApproval(u, r) \/ RecordRejection(u, r)
       PROVE  UNCHANGED <<txStatus, signature, ledger>>
  BY <1>10 DEF votableRequest, RecordApproval, RecordRejection
<1>11. CASE ChangeMembers \/ Crash \/ Restart \/ Serve
  BY <1>1, <1>11 DEF ChangeMembers, Crash, Restart, Serve
<1>12. CASE UNCHANGED vars
  BY <1>1, <1>12 DEF vars
<1> QED
  BY <1>1, <1>2, <1>3, <1>4, <1>5, <1>6, <1>7, <1>8, <1>9, <1>10, <1>11, <1>12 DEF Next, Run

\* What a request sends takes the path TransactionLifecycle promises: only a signature
\* that was claimed reaches the ledger, and a dispatch error, a timer or a result that
\* comes second finds the status it wants to leave already left.
THEOREM TransactionsRefine == Spec => ImplementsLifecycle
<1>1. Init => Lifecycle!Init
  BY DEF Init, Lifecycle!Init
<1>2. IInv /\ [Next]_vars => [Lifecycle!Next]_(Lifecycle!vars)
  BY StepsRefineLifecycle
<1> QED
  BY <1>1, <1>2, ApprovalsInductive, PTL DEF Spec, ImplementsLifecycle, Lifecycle!Spec
------------------------------------------------------------------------------
(* Action properties.                                                        *)

\* Every UPDATE of a status names the one it leaves.
LEMMA StepKeepsClosed ==
  ASSUME IInv, [Next]_vars, NEW q \in Request, reqStatus[q] \in Closed
  PROVE  reqStatus'[q] = reqStatus[q]
<1> USE DEF requestVars, txVars, voteVars, memoryVars, restVars, sentElsewhere
<1>0. reqStatus \in [Request -> ReqStatus]
  BY DEF IInv, TypeInv, TypeOK
<1>1. ASSUME NEW r \in Request, NEW from \in {"pending", "executing"}, NEW to, Transition(r, from, to)
      PROVE  reqStatus'[q] = reqStatus[q]
  BY <1>0, <1>1 DEF Transition, Closed
<1>2. ASSUME NEW r \in Request, CreatePaymentRequest(r)
      PROVE  reqStatus'[q] = reqStatus[q]
  <2>1. reqStatus[r] = "none"
    BY <1>2 DEF CreatePaymentRequest, IInv, ClaimInv, Claim, Before
  <2> QED
    BY <1>0, <1>2, <2>1 DEF CreatePaymentRequest, Closed
<1>3. ASSUME NEW r \in Request,
             \/ CancelPaymentRequest(r) \/ CheckWallet(r) \/ CheckInitiator(r)
             \/ AssignTransaction(r) \/ sendPayment(r) \/ FailPaymentRequest(r)
             \/ SettleByTransaction(r) \/ ReconcileExecuting(r)
      PROVE  \/ UNCHANGED reqStatus
             \/ \E from \in {"pending", "executing"}, to \in Closed : Transition(r, from, to)
  BY <1>3 DEF CancelPaymentRequest, CheckWallet, CheckInitiator, AssignTransaction, sendPayment,
              FailPaymentRequest, SettleByTransaction, ReconcileExecuting, fail, Closed
<1>4. ASSUME NEW u \in User, NEW r \in Request, RecordApproval(u, r) \/ RecordRejection(u, r)
      PROVE  \/ UNCHANGED reqStatus
             \/ \E to \in {"executing", "rejected"} : Transition(r, "pending", to)
  BY <1>4 DEF RecordApproval, RecordRejection
<1>5. ASSUME NEW r \in Request,
             \/ hold(r) \/ CountApprovers(r) \/ Expire(r) \/ Cancel(r) \/ Abandon(r) \/ ClaimSignature(r)
             \/ enqueueSign(r) \/ dispatchQueued(r) \/ failSigning(r) \/ WalletLookup(r)
             \/ Submit(r) \/ ConfirmTransaction(r) \/ FailTransaction(r) \/ settle(r)
      PROVE  UNCHANGED reqStatus
  BY <1>5 DEF hold, CountApprovers, Expire, Cancel, Abandon, ClaimSignature, enqueueSign, dispatchQueued,
              failSigning, WalletLookup, Submit, ConfirmTransaction, FailTransaction, End, settle
<1>6. ASSUME NEW u \in User, NEW r \in Request, NEW decision \in {"approve", "reject"},
             votableRequest(u, r, decision)
      PROVE  UNCHANGED reqStatus
  BY <1>6 DEF votableRequest
<1>7. CASE ChangeMembers \/ DeleteWallet \/ Crash \/ Restart \/ Serve \/ UNCHANGED vars
  BY <1>7 DEF ChangeMembers, DeleteWallet, Crash, Restart, Serve, vars
<1> QED
  BY <1>1, <1>2, <1>3, <1>4, <1>5, <1>6, <1>7 DEF Next, Run

\* Late votes, settlements, dispatch errors and restarts leave a closed request alone.
THEOREM ClosedForGood == Spec => ClosedStaysClosed
<1>1. IInv /\ [Next]_vars
        => [\A r \in Request : reqStatus[r] \in Closed => reqStatus'[r] = reqStatus[r]]_vars
  BY StepKeepsClosed
<1> QED
  BY <1>1, ApprovalsInductive, PTL DEF Spec, ClosedStaysClosed

\* A request whose end has passed takes no decision any more.
LEMMA EndedStays ==
  ASSUME IInv, [Next]_vars, NEW q \in Request, reqStatus[q] = "pending", q \in expired,
         \A u \in User : <<u, q, "approve">> \notin ballots
  PROVE  Stopped(q)'
<1> USE DEF requestVars, txVars, voteVars, memoryVars, restVars, sentElsewhere
<1>0. reqStatus \in [Request -> ReqStatus]
  BY DEF IInv, TypeInv, TypeOK
<1>1. ASSUME reqStatus'[q] = "pending", expired \subseteq expired',
             \A u \in User : <<u, q, "approve">> \notin ballots'
      PROVE  Stopped(q)'
  BY <1>1 DEF Stopped
<1>2. ASSUME NEW r \in Request,
             \/ hold(r) \/ CountApprovers(r) \/ Expire(r) \/ Cancel(r) \/ Abandon(r)
             \/ ClaimSignature(r) \/ enqueueSign(r) \/ dispatchQueued(r) \/ failSigning(r)
             \/ WalletLookup(r) \/ Submit(r) \/ ConfirmTransaction(r) \/ FailTransaction(r)
             \/ settle(r)
      PROVE  Stopped(q)'
  <2>1. UNCHANGED <<reqStatus, ballots>> /\ expired \subseteq expired'
    BY <1>2 DEF hold, CountApprovers, Expire, Cancel, Abandon, ClaimSignature, enqueueSign,
                dispatchQueued, failSigning, WalletLookup, Submit, ConfirmTransaction,
                FailTransaction, End, settle
  <2> QED
    BY <1>1, <2>1
<1>3. ASSUME NEW r \in Request, CreatePaymentRequest(r)
      PROVE  Stopped(q)'
  <2>1. UNCHANGED <<expired, ballots>> /\ reqStatus'[q] = "pending"
    BY <1>0, <1>3 DEF CreatePaymentRequest
  <2> QED
    BY <1>1, <2>1
<1>4. ASSUME NEW r \in Request,
             \/ CheckWallet(r) \/ CheckInitiator(r) \/ AssignTransaction(r) \/ sendPayment(r)
             \/ FailPaymentRequest(r) \/ SettleByTransaction(r) \/ ReconcileExecuting(r)
      PROVE  Stopped(q)'
  <2>1. /\ UNCHANGED <<expired, ballots>>
        /\ UNCHANGED reqStatus \/ \E to \in Closed : Transition(r, "executing", to)
    BY <1>4 DEF CheckWallet, CheckInitiator, AssignTransaction, sendPayment, FailPaymentRequest,
                SettleByTransaction, ReconcileExecuting, fail, Closed
  <2> QED
    BY <1>0, <1>1, <2>1 DEF Transition
<1>5. ASSUME NEW r \in Request, CancelPaymentRequest(r)
      PROVE  Stopped(q)'
  <2>1. UNCHANGED <<expired, ballots>> /\ Transition(r, "pending", "cancelled")
    BY <1>5 DEF CancelPaymentRequest
  <2>2. CASE q = r
    BY <1>0, <2>1, <2>2 DEF Transition, Stopped
  <2>3. CASE q # r
    BY <1>0, <1>1, <2>1, <2>3 DEF Transition
  <2> QED
    BY <2>2, <2>3
<1>6. ASSUME NEW u \in User, NEW r \in Request, NEW decision \in {"approve", "reject"},
             votableRequest(u, r, decision)
      PROVE  Stopped(q)'
  <2>1. r # q /\ UNCHANGED <<reqStatus, expired>> /\ ballots' = ballots \cup {<<u, r, decision>>}
    BY <1>6 DEF votableRequest, Open
  <2> QED
    BY <1>1, <2>1
<1>7. ASSUME NEW u \in User, NEW r \in Request, RecordApproval(u, r)
      PROVE  Stopped(q)'
  <2>1. r # q /\ UNCHANGED expired /\ ballots' \subseteq ballots
    BY <1>7 DEF RecordApproval
  <2>2. UNCHANGED reqStatus \/ Transition(r, "pending", "executing")
    BY <1>7, Zenon DEF RecordApproval
  <2> QED
    BY <1>0, <1>1, <2>1, <2>2 DEF Transition
<1>8. ASSUME NEW u \in User, NEW r \in Request, RecordRejection(u, r)
      PROVE  Stopped(q)'
  <2>1. /\ UNCHANGED expired /\ ballots' \subseteq ballots
        /\ UNCHANGED reqStatus \/ Transition(r, "pending", "rejected")
    BY <1>8 DEF RecordRejection
  <2>2. CASE UNCHANGED reqStatus
    BY <1>1, <2>1, <2>2
  <2>3. CASE q = r /\ Transition(r, "pending", "rejected")
    BY <1>0, <2>3 DEF Transition, Stopped
  <2>4. CASE q # r /\ Transition(r, "pending", "rejected")
    BY <1>0, <1>1, <2>1, <2>4 DEF Transition
  <2> QED
    BY <2>1, <2>2, <2>3, <2>4
<1>9. CASE ChangeMembers \/ DeleteWallet \/ Crash \/ Restart \/ Serve \/ UNCHANGED vars
  <2>1. UNCHANGED <<reqStatus, expired>> /\ ballots' \subseteq ballots
    BY <1>9 DEF ChangeMembers, DeleteWallet, Crash, Restart, Serve, vars
  <2> QED
    BY <1>1, <2>1
<1> QED
  BY <1>2, <1>3, <1>4, <1>5, <1>6, <1>7, <1>8, <1>9 DEF Next, Run

\* What was rejected or cancelled, or has expired with no approval under way that read
\* its clock before the end, is never sent and stays so.
THEOREM StoppedForGood == Spec => StoppedNeverSent
<1>1. ASSUME IInv, IInv', [Next]_vars, NEW r \in Request, Stopped(r)
      PROVE  Stopped(r)' /\ sends'[r] = 0
  <2>1. Stopped(r)'
    <3>1. CASE reqStatus[r] \in {"rejected", "cancelled"}
      <4>1. reqStatus'[r] = reqStatus[r]
        BY <1>1, <3>1, StepKeepsClosed DEF Closed
      <4> QED
        BY <3>1, <4>1 DEF Stopped
    <3>2. CASE reqStatus[r] \notin {"rejected", "cancelled"}
      <4>1. /\ reqStatus[r] = "pending" /\ r \in expired
            /\ \A u \in User : <<u, r, "approve">> \notin ballots
        BY <1>1, <3>2 DEF Stopped, IInv, VoteInv, Votes
      <4> QED
        BY <1>1, <4>1, EndedStays
    <3> QED
      BY <3>1, <3>2
  <2>2. reqStatus'[r] \in {"pending", "rejected", "cancelled"}
    BY <1>1, <2>1 DEF Stopped, IInv, VoteInv, Votes
  <2>3. sends'[r] = 0
    BY <1>1, <2>2 DEF IInv, ClaimInv, Claim, Running
  <2> QED
    BY <2>1, <2>3
<1>2. IInv /\ IInv' /\ [Next]_vars
        => [\A r \in Request : Stopped(r) => Stopped(r)' /\ sends'[r] = 0]_vars
  BY <1>1
<1> QED
  BY <1>2, ApprovalsInductive, PTL DEF Spec, StoppedNeverSent

\* The only step that begins an execution is an approval that is recorded.
LEMMA OnlyApprovalsClaim ==
  ASSUME IInv, [Next]_vars, NEW q \in Request,
         reqStatus[q] = "pending", reqStatus'[q] = "executing"
  PROVE  \E u \in User : RecordApproval(u, q)
<1> USE DEF requestVars, txVars, voteVars, memoryVars, restVars, sentElsewhere
<1>0. reqStatus \in [Request -> ReqStatus]
  BY DEF IInv, TypeInv, TypeOK
<1>1. ASSUME NEW r \in Request, NEW from, NEW to, to # "executing",
             Transition(r, from, to) \/ reqStatus' = [reqStatus EXCEPT ![r] = to]
      PROVE  FALSE
  BY <1>0, <1>1 DEF Transition
<1>2. ASSUME NEW r \in Request,
             \/ CreatePaymentRequest(r) \/ CancelPaymentRequest(r) \/ CheckWallet(r)
             \/ CheckInitiator(r) \/ AssignTransaction(r) \/ sendPayment(r)
             \/ FailPaymentRequest(r) \/ SettleByTransaction(r) \/ ReconcileExecuting(r)
      PROVE  FALSE
  <2>1. \/ UNCHANGED reqStatus
        \/ \E from \in {"pending", "executing"}, to \in Closed : Transition(r, from, to)
        \/ reqStatus' = [reqStatus EXCEPT ![r] = "pending"]
    BY <1>2 DEF CreatePaymentRequest, CancelPaymentRequest, CheckWallet, CheckInitiator,
                AssignTransaction, sendPayment, FailPaymentRequest, SettleByTransaction,
                ReconcileExecuting, fail, Closed
  <2> QED
    BY <1>1, <2>1 DEF Closed
<1>3. ASSUME NEW u \in User, NEW r \in Request, RecordRejection(u, r)
      PROVE  FALSE
  BY <1>1, <1>3 DEF RecordRejection
<1>4. ASSUME NEW u \in User, NEW r \in Request, r # q, RecordApproval(u, r)
      PROVE  FALSE
  BY <1>0, <1>4 DEF RecordApproval, Transition
<1>5. ASSUME NEW r \in Request,
             \/ hold(r) \/ CountApprovers(r) \/ Expire(r) \/ Cancel(r) \/ Abandon(r) \/ ClaimSignature(r)
             \/ enqueueSign(r) \/ dispatchQueued(r) \/ failSigning(r) \/ WalletLookup(r)
             \/ Submit(r) \/ ConfirmTransaction(r) \/ FailTransaction(r) \/ settle(r)
      PROVE  FALSE
  BY <1>5 DEF hold, CountApprovers, Expire, Cancel, Abandon, ClaimSignature, enqueueSign, dispatchQueued,
              failSigning, WalletLookup, Submit, ConfirmTransaction, FailTransaction, End, settle
<1>6. ASSUME NEW u \in User, NEW r \in Request, NEW decision \in {"approve", "reject"},
             votableRequest(u, r, decision)
      PROVE  FALSE
  BY <1>6 DEF votableRequest
<1>7. CASE ChangeMembers \/ DeleteWallet \/ Crash \/ Restart \/ Serve \/ UNCHANGED vars
  BY <1>7 DEF ChangeMembers, DeleteWallet, Crash, Restart, Serve, vars
<1> QED
  BY <1>2, <1>3, <1>4, <1>5, <1>6, <1>7 DEF Next, Run

\* Approvals count while those who gave them may send: the members read in the SQL
\* transaction that claims the request are the current ones.
THEOREM CurrentApproversClaim == Spec => ClaimedByCurrentApprovers
<1>1. ASSUME IInv, [Next]_vars, NEW r \in Request,
             reqStatus[r] = "pending", reqStatus'[r] = "executing"
      PROVE  Cardinality({u \in User \ {initiator[r]} : votes'[r][u] = "approve" /\ CanSend(role[u])})
               >= required[r]
  <2>1. PICK u \in User : RecordApproval(u, r)
    BY <1>1, OnlyApprovalsClaim
  <2>2. insertVote(u, r, "approve") /\ required[r] <= Cardinality(Counted(votes'[r]))
    BY <1>1, <2>1 DEF RecordApproval
  <2>3. u # initiator[r] /\ votes[r][initiator[r]] = "none" /\ initiator[r] \in User
    BY <2>1 , <1>1 DEF RecordApproval, IInv, VoteInv, Votes, TypeInv, TypeOK
  <2>4. votes'[r] = [votes[r] EXCEPT ![u] = "approve"]
    BY <1>1, <2>2, VoteTypes DEF IInv, TypeInv
  <2>5. votes'[r][initiator[r]] # "approve"
    BY <1>1, <2>3, <2>4 DEF IInv, TypeInv, TypeOK
  <2>6. Counted(votes'[r])
          = {v \in User \ {initiator[r]} : votes'[r][v] = "approve" /\ CanSend(role[v])}
    BY <2>5 DEF Counted
  <2>7. required[r] \in Nat /\ Cardinality(Counted(votes'[r])) \in Nat
    <3>1. Counted(votes'[r]) \subseteq User
      BY DEF Counted
    <3> QED
      BY <1>1, <3>1, UserAssumption, FS_Subset, FS_CardinalityType DEF IInv, TypeInv, TypeOK
  <2> QED
    BY <2>2, <2>6, <2>7
<1>2. IInv /\ [Next]_vars
        => [\A r \in Request : reqStatus[r] = "pending" /\ reqStatus'[r] = "executing" =>
              Cardinality({u \in User \ {initiator[r]} : votes'[r][u] = "approve" /\ CanSend(role[u])})
                >= required[r]]_vars
  BY <1>1
<1> QED
  BY <1>2, ApprovalsInductive, PTL DEF Spec, ClaimedByCurrentApprovers

\* No crash and no payment comes between a change of members and its check.
THEOREM TeamKeepsApprovers == Spec => MembersKeepApprovers
<1>1. ASSUME IInv, [Next]_vars
      PROVE  [policy' = policy /\ policy # 0 /\ policy <= maxApprovals
                => policy <= maxApprovals']_memberVars
  <2>1. MembersInv
    BY <1>1 DEF IInv, TypeInv, TypeOK, MembersInv
  <2>2. CASE [MembersNext]_memberVars
    BY <2>1, <2>2, StepKeepsApprovers
  <2>3. CASE UNCHANGED role
    BY <2>3 DEF maxApprovals, CountSenders, Senders
  <2>4. [MembersNext]_memberVars \/ UNCHANGED role
    <3> USE DEF requestVars, txVars, voteVars, memoryVars, restVars, sentElsewhere, memberVars
    <3>1. ASSUME NEW r \in Request,
                 \/ hold(r) \/ CountApprovers(r) \/ CreatePaymentRequest(r) \/ Expire(r)
                 \/ Cancel(r) \/ CancelPaymentRequest(r) \/ CheckWallet(r) \/ CheckInitiator(r)
                 \/ AssignTransaction(r) \/ sendPayment(r) \/ FailPaymentRequest(r)
          PROVE  UNCHANGED role
      BY <3>1 DEF hold, CountApprovers, CreatePaymentRequest, Expire, Cancel, CancelPaymentRequest,
                  CheckWallet, CheckInitiator, AssignTransaction, sendPayment, FailPaymentRequest
    <3>2. ASSUME NEW r \in Request,
                 \/ enqueueSign(r) \/ dispatchQueued(r) \/ failSigning(r) \/ Abandon(r)
                 \/ ClaimSignature(r) \/ WalletLookup(r) \/ Submit(r) \/ ConfirmTransaction(r)
                 \/ FailTransaction(r) \/ settle(r) \/ SettleByTransaction(r) \/ ReconcileExecuting(r)
          PROVE  UNCHANGED role
      BY <3>2 DEF enqueueSign, dispatchQueued, failSigning, Abandon, ClaimSignature, WalletLookup,
                  Submit, ConfirmTransaction, FailTransaction, End, settle, SettleByTransaction,
                  ReconcileExecuting
    <3>3. ASSUME NEW u \in User, NEW r \in Request,
                 \/ \E decision \in {"approve", "reject"} : votableRequest(u, r, decision)
                 \/ RecordApproval(u, r) \/ RecordRejection(u, r)
          PROVE  UNCHANGED role
      BY <3>3 DEF votableRequest, RecordApproval, RecordRejection
    <3>4. CASE ChangeMembers
      BY <3>4 DEF ChangeMembers
    <3>5. CASE DeleteWallet \/ Crash \/ Restart \/ Serve \/ UNCHANGED vars
      BY <3>5 DEF DeleteWallet, Crash, Restart, Serve, vars
    <3> QED
      BY <1>1, <3>1, <3>2, <3>3, <3>4, <3>5 DEF Next, Run
  <2> QED
    BY <2>2, <2>3, <2>4
<1> QED
  BY <1>1, ApprovalsInductive, PTL DEF Spec, MembersKeepApprovers
==============================================================================
