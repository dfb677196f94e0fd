------------------------------- MODULE Members -------------------------------
(***************************************************************************)
(* The members of one team workspace and its approval policy               *)
(* (repository/sqlite/workspaces.go and approval_policies.go, called by    *)
(* service/workspace.go and service/approval_policy.go).                   *)
(*                                                                         *)
(* Each change of a member is one SQL transaction.  The handlers first     *)
(* check, in a statement of its own, that the caller is an owner; the      *)
(* workspace always had an owner, so that earlier check does not restrict  *)
(* when the transaction may run, and no actor appears in the actions.      *)
(***************************************************************************)
EXTENDS Integers, FiniteSets

CONSTANTS User

ASSUME UserAssumption == User # {} /\ IsFiniteSet(User)

VARIABLES
  role,         \* DB: the role of each user, "none" for those outside the workspace
  policy,       \* DB: required_approvals of the policy, 0 without a policy
  policySaves   \* memory: values that SetApprovalPolicy has checked and not yet saved

memberVars == <<role, policy, policySaves>>

Valid == {"owner", "operator", "member"}
CanSend(r) == r \in {"owner", "operator"}

Senders == {u \in User : CanSend(role[u])}
CountSenders == Cardinality(Senders)

\* Every owner and operator except the initiator.
maxApprovals == IF CountSenders = 0 THEN 0 ELSE CountSenders - 1

MembersTypeOK ==
  /\ role \in [User -> Valid \cup {"none"}]
  /\ policy \in 0 .. Cardinality(User)
  /\ policySaves \subseteq 1 .. Cardinality(User)

\* Any team: the creator is an owner, others joined with some role, and the policy
\* is one that the team could save.
MembersInit ==
  /\ role \in [User -> Valid \cup {"none"}]
  /\ \E u \in User : role[u] = "owner"
  /\ policy \in 0 .. maxApprovals
  /\ policySaves = {}
------------------------------------------------------------------------------
\* Mutation: the owner who leaves counts as the other one.
requireAnOwner == Cardinality({u \in User : role[u] = "owner"}) >= 1

requireAnotherOwner == Cardinality({u \in User : role[u] = "owner"}) > 1

\* Mutation: the initiator counts as an approver.
requireSenders == policy = 0 \/ policy <= CountSenders'

\* Evaluated after the change, in its transaction: too few senders roll it back.
requireApprovers == policy = 0 \/ policy <= CountSenders' - 1

RemoveMember(u) ==
  /\ role[u] # "none"
  /\ role[u] = "owner" => requireAnotherOwner
  /\ role' = [role EXCEPT ![u] = "none"]
  /\ requireApprovers
  /\ UNCHANGED <<policy, policySaves>>

UpdateMemberRole(u, new) ==
  /\ role[u] # "none"
  /\ role[u] = "owner" /\ new # "owner" => requireAnotherOwner
  /\ role' = [role EXCEPT ![u] = new]
  /\ requireApprovers
  /\ UNCHANGED <<policy, policySaves>>

\* AcceptInvite: INSERT OR IGNORE, so a member keeps the role they have.
AddMember(u, new) ==
  /\ role[u] = "none"
  /\ role' = [role EXCEPT ![u] = new]
  /\ UNCHANGED <<policy, policySaves>>

\* SetApprovalPolicy counts the senders in one statement and saves in another.
CheckApprovalPolicy(n) ==
  /\ n \in 1 .. maxApprovals
  /\ policySaves' = policySaves \cup {n}
  /\ UNCHANGED <<role, policy>>

\* A second request may have checked the same value and save it again.
SaveApprovalPolicy(n) ==
  /\ n \in policySaves
  /\ policy' = n
  /\ policySaves' \in {policySaves, policySaves \ {n}}
  /\ UNCHANGED role

DeleteApprovalPolicy ==
  /\ policy # 0
  /\ policy' = 0
  /\ UNCHANGED <<role, policySaves>>

MembersNext ==
  \/ \E u \in User : RemoveMember(u)
  \/ \E u \in User, new \in Valid : UpdateMemberRole(u, new) \/ AddMember(u, new)
  \/ \E n \in 1 .. Cardinality(User) : CheckApprovalPolicy(n) \/ SaveApprovalPolicy(n)
  \/ DeleteApprovalPolicy

MembersSpec == MembersInit /\ [][MembersNext]_memberVars
------------------------------------------------------------------------------
\* "A workspace always keeps at least one owner" (docs/workspaces.md), also when
\* owners remove or demote one another at the same time.
HasOwner == \E u \in User : role[u] = "owner"

\* A change of members alone never takes the approvers below what the policy in
\* force requires: whatever satisfies the policy goes on satisfying it until the
\* policy itself is saved or deleted.
MembersKeepApprovers ==
  [][policy' = policy /\ policy # 0 /\ policy <= maxApprovals
       => policy <= maxApprovals']_memberVars
==============================================================================
