--------------------------- MODULE MCDispatchQueue ---------------------------
(* The dispatch queue on a small instance. *)
EXTENDS DispatchQueueClients
==============================================================================
