------------------------------ MODULE MCSession ------------------------------
(* The session of a tab on a small instance: two people who share it, an invite and an *)
(* approval link. *)
EXTENDS Session

CONSTANTS ann, bob, home1, home2, team, fund, fresh, i1, i2, r1

OwnWorkspace == [u \in User |-> IF u = ann THEN home1 ELSE home2]
Memberships0 == {<<ann, home1>>, <<bob, home2>>, <<ann, team>>}
InvitedUser == [i \in Invite |-> IF i = i1 THEN bob ELSE ann]
InvitedTo == [i \in Invite |-> IF i = i1 THEN team ELSE fund]
HeldIn == [r \in Request |-> team]
==============================================================================
