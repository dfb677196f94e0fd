----------------------------- MODULE MCApprovals -----------------------------
(* Approvals on small instances. *)
EXTENDS Approvals, TLC

Symmetry == Permutations(User)
==============================================================================
