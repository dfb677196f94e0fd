------------------------------ MODULE MCSigning ------------------------------
(* Signing on small instances. *)
EXTENDS Signing

\* The wallet function of the instances: one wallet sends all.
CONSTANTS t1, t2, w1
SharedWallet == [t \in Tx |-> w1]
==============================================================================
