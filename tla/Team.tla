--------------------------------- MODULE Team ---------------------------------
(***************************************************************************)
(* The members and invites of one team workspace: the card that shows and  *)
(* changes them (WorkspaceMembers), over the server, where other owners    *)
(* change them too and the invited people accept and decline               *)
(* (service/workspace_invite.go).                                          *)
(*                                                                         *)
(* A handler looks in one statement and changes in another, so whatever it *)
(* looked at may be gone by then.  Roles are those of Members; here a role *)
(* is changed, and who is an owner does not change.                        *)
(***************************************************************************)
EXTENDS WebInterface

CONSTANTS Email,           \* the addresses that are invited, each of one person
          Invite,
          InviteEmail,     \* whom each invite is for
          TeamMoves        \* bound on what the people do

ASSUME TeamAssumption ==
  /\ InviteEmail \in [Invite -> Email]
  /\ None \notin Email \cup Invite
  /\ TeamMoves \in Nat

VARIABLES
  invites,    \* server: the status of each invite, "none" before it is made
  members,    \* server: the members but for the owner of the tab
  card,       \* WorkspaceMembers
  teamCalls,  \* requests of the card, of other owners and of the people invited
  teamMoves

teamVars == <<invites, members, card, teamCalls, teamMoves>>

Status == {"none", "pending", "accepted", "revoked", "expired"}
Closed == {"accepted", "revoked", "expired"}
Nobody == [members |-> {}, invites |-> {}]
CardClosed == [open |-> FALSE, members |-> {}, invites |-> {}, link |-> None, error |-> FALSE,
               busy |-> FALSE]

Kind == {"load", "invite", "revoke", "remove", "role", "accept", "decline"}
\* mine: the card that asked is still there; run: its buttons wait for the answer.
TeamCalls == [kind : Kind, of : Email \cup Invite \cup {None}, mine : BOOLEAN, run : BOOLEAN,
              status : {"sent", "checked", "ok", "lost"},
              got : [members : SUBSET Email, invites : SUBSET Invite]]

TeamCall(kind, of, mine, run) ==
  [kind |-> kind, of |-> of, mine |-> mine, run |-> run, status |-> "sent", got |-> Nobody]

TeamTypeOK ==
  /\ invites \in [Invite -> Status]
  /\ members \subseteq Email
  /\ card \in [open : BOOLEAN, members : SUBSET Email, invites : SUBSET Invite,
               link : Invite \cup {None}, error : BOOLEAN, busy : BOOLEAN]
  /\ teamCalls \subseteq TeamCalls
  /\ teamMoves \in 0 .. TeamMoves

TeamInit ==
  /\ invites = [i \in Invite |-> "none"] /\ members \in SUBSET Email
  /\ card = CardClosed /\ teamCalls = {} /\ teamMoves = 0
------------------------------------------------------------------------------
(* The server.                                                              *)

InvitesTo(p) == {i \in Invite : InviteEmail[i] = p}
Become(is, status) == invites' = [i \in Invite |-> IF i \in is THEN status ELSE invites[i]]

\* The pending invite of the same address is revoked in the same transaction; one that
\* expired since the handler looked is revoked too if the clock was read before that.
CreateInvite(i, unexpired) ==
  /\ \E outdated \in SUBSET unexpired :
       LET replaced == {j \in InvitesTo(InviteEmail[i]) :
                          invites[j] = "pending" \/ (invites[j] = "expired" /\ j \in outdated)}
       IN  invites' = [j \in Invite |-> IF j = i THEN "pending"
                                        ELSE IF j \in replaced THEN "revoked" ELSE invites[j]]
  /\ UNCHANGED members

RevokeInvite(i) ==
  /\ invites[i] \in {"pending", "expired"}
  /\ Become({i}, "revoked")
  /\ UNCHANGED members

\* Mutation: the UPDATE relies on the look that was taken before.
AcceptInviteChecked(i) == Become({i}, "accepted") /\ members' = members \cup {InviteEmail[i]}

\* The handler looked and read its clock while the invite was open: it may have expired
\* since, but not been used or revoked.
AcceptInvite(i) ==
  /\ invites[i] \in {"pending", "expired"}
  /\ Become({i}, "accepted")
  /\ members' = members \cup {InviteEmail[i]}

RemoveMember(p) == p \in members /\ members' = members \ {p} /\ UNCHANGED invites

Expire(i) ==
  /\ invites[i] = "pending"
  /\ Become({i}, "expired")
  /\ UNCHANGED <<members, card, teamCalls, teamMoves>>

Answered(q, r) == teamCalls' = (teamCalls \ {q}) \cup {r}

\* The look of a handler that takes two statements: a page of the card, or which invites
\* its clock finds not expired.
Seen(q) == [members |-> IF q.kind = "load" THEN members ELSE {},
            invites |-> IF q.kind = "invite" THEN {i \in Invite : invites[i] # "expired"} ELSE {}]

Look(q) ==
  /\ q.status = "sent"
  /\ \/ q.kind = "load"
     \/ q.kind = "invite" /\ InviteEmail[q.of] \notin members
     \/ q.kind \in {"accept", "decline"} /\ invites[q.of] = "pending"
  /\ Answered(q, [q EXCEPT !.status = "checked", !.got = Seen(q)])
  /\ UNCHANGED <<invites, members>>

PendingInvites(q) ==
  /\ q.kind = "load"
  /\ Answered(q, [q EXCEPT !.status = "ok", !.got.invites = {i \in Invite : invites[i] = "pending"}])
  /\ UNCHANGED <<invites, members>>

\* The answer to a change may be lost.
Change(q) ==
  /\ \/ q.kind = "invite"  /\ CreateInvite(q.of, q.got.invites)
     \/ q.kind = "accept"  /\ AcceptInvite(q.of)
     \/ q.kind \in {"decline", "revoke"} /\ RevokeInvite(q.of)
     \/ q.kind = "remove"  /\ RemoveMember(q.of)
     \/ q.kind = "role"    /\ q.of \in members /\ UNCHANGED <<invites, members>>
  /\ \E s \in {"ok", "lost"} : Answered(q, [q EXCEPT !.status = s, !.got = Nobody])

ServeTeam(q) ==
  /\ \/ Look(q)
     \/ q.status = "checked" /\ (PendingInvites(q) \/ Change(q))
     \/ q.status = "sent" /\ q.kind \in {"revoke", "remove", "role"} /\ Change(q)
  /\ UNCHANGED <<card, teamMoves>>
------------------------------------------------------------------------------
(* What reaches the card.                                                   *)

OtherCalls(q) == teamCalls \ {q}

\* load: of the card as it is by now, also after a later load.
load(q) ==
  /\ q.kind = "load" /\ q.mine
  /\ LET c == IF q.status = "ok"
              THEN [card EXCEPT !.members = q.got.members, !.invites = q.got.invites]
              ELSE [card EXCEPT !.error = TRUE]
     IN  card' = [c EXCEPT !.busy = @ /\ ~q.run]
  /\ teamCalls' = OtherCalls(q)

\* The link that was made last goes with the invite of its address.
LinkAfter(q) ==
  CASE q.kind = "invite" -> q.of
    [] q.kind = "revoke" /\ card.link # None /\ InviteEmail[card.link] = InviteEmail[q.of] -> None
    [] OTHER -> card.link

\* run, whose action ends with a load of its own.
run(q) ==
  /\ q.kind # "load" /\ q.mine /\ q.status = "ok"
  /\ card' = [card EXCEPT !.error = FALSE, !.link = LinkAfter(q)]
  /\ teamCalls' = OtherCalls(q) \cup {TeamCall("load", None, TRUE, TRUE)}

runFailed(q) ==
  /\ q.kind # "load" /\ q.mine /\ q.status # "ok"
  /\ card' = [card EXCEPT !.busy = FALSE]
  /\ teamCalls' = OtherCalls(q)

Elsewhere(q) == ~q.mine /\ teamCalls' = OtherCalls(q) /\ UNCHANGED card

\* A request that was not handled, or refused, or whose answer is lost, fails.
ReachesCard(q) ==
  /\ load(q) \/ run(q) \/ runFailed(q) \/ Elsewhere(q)
  /\ UNCHANGED <<invites, members, teamMoves>>
------------------------------------------------------------------------------
(* The people.                                                              *)

TeamMove == teamMoves < TeamMoves /\ teamMoves' = teamMoves + 1 /\ UNCHANGED <<invites, members>>

OpenSettings ==
  /\ TeamMove
  /\ ~card.open
  /\ card' = [CardClosed EXCEPT !.open = TRUE]
  /\ teamCalls' = teamCalls \cup {TeamCall("load", None, TRUE, FALSE)}

LeaveSettings ==
  /\ TeamMove
  /\ card.open
  /\ card' = CardClosed
  /\ teamCalls' = {[q EXCEPT !.mine = FALSE] : q \in teamCalls}

Fresh(i) == invites[i] = "none" /\ \A q \in teamCalls : q.of # i

\* What an owner may ask for, with these lists before them.
OwnersChoice(kind, of, ms, is) ==
  \/ kind = "invite" /\ of \in Invite /\ Fresh(of)
  \/ kind = "revoke" /\ of \in is
  \/ kind \in {"remove", "role"} /\ of \in ms

Choose(kind, of) ==
  /\ TeamMove
  /\ card.open /\ ~card.busy
  /\ OwnersChoice(kind, of, card.members, card.invites)
  /\ card' = [card EXCEPT !.busy = TRUE]
  /\ teamCalls' = teamCalls \cup {TeamCall(kind, of, TRUE, TRUE)}

\* Other owners, and the people who hold a link or see the invite in their list.
OthersChoose(kind, of) ==
  /\ TeamMove
  /\ \/ OwnersChoice(kind, of, members, {i \in Invite : invites[i] = "pending"})
     \/ kind \in {"accept", "decline"} /\ of \in Invite /\ invites[of] = "pending"
  /\ teamCalls' = teamCalls \cup {TeamCall(kind, of, FALSE, FALSE)}
  /\ UNCHANGED card

TeamNext ==
  \/ OpenSettings \/ LeaveSettings
  \/ \E kind \in Kind, of \in Email \cup Invite : Choose(kind, of) \/ OthersChoose(kind, of)
  \/ \E i \in Invite : Expire(i)
  \/ \E q \in teamCalls : ServeTeam(q) \/ ReachesCard(q)

TeamSpec == TeamInit /\ [][TeamNext]_teamVars
------------------------------------------------------------------------------
OneOpenInvite ==
  \A i, j \in Invite :
    invites[i] = "pending" /\ invites[j] = "pending" /\ InviteEmail[i] = InviteEmail[j] => i = j

\* An invite is open until its end, and after it for an acceptance that looked before.
StillOpen(i) ==
  \/ invites[i] = "pending"
  \/ /\ invites[i] = "expired"
     /\ \E q \in teamCalls : q.kind = "accept" /\ q.of = i /\ q.status = "checked"

\* Used, revoked, declined, replaced, or expired with nobody on the way in.
Over(i) == invites[i] \in Closed /\ ~StillOpen(i)

\* "Works once": whoever joins does so through an invite that is open at that step, however
\* long ago the handler looked, but that its end may pass between the look and the step; an
\* invite that is over never lets anyone in again; and of two invites to one address only
\* the last is open.
InviteWorksOnce ==
  [][/\ \A p \in members' \ members :
          \E i \in InvitesTo(p) : StillOpen(i) /\ invites'[i] = "accepted"
     /\ \A i \in Invite : Over(i) => Over(i)'
     /\ OneOpenInvite']_teamVars

\* The buttons of the card wait for exactly one change, or for the list after it, and for
\* nothing once it has ended, in whatever way; a second change cannot overtake it.
BusyIsUnderWay ==
  Cardinality({q \in teamCalls : q.mine /\ q.run}) = IF card.busy THEN 1 ELSE 0
==============================================================================
