----------------------------- MODULE WebInterface -----------------------------
(***************************************************************************)
(* What the parts of the web interface share: the workspaces and wallets   *)
(* they show, and the bound on what the person does.  Each part keeps its  *)
(* own React state and its own requests; an answer reaches whatever is     *)
(* mounted, or whatever workspace or wallet is shown, by then.             *)
(***************************************************************************)
EXTENDS Integers, FiniteSets

CONSTANTS Workspace, Wallet,
          WalletWorkspace,   \* the workspace of each wallet
          None,
          MaxMoves           \* bound on what the person does

ASSUME InterfaceAssumption ==
  /\ WalletWorkspace \in [Wallet -> Workspace]
  /\ None \notin Workspace \cup Wallet
  /\ MaxMoves \in Nat
==============================================================================
