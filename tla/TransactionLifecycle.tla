------------------------- MODULE TransactionLifecycle ------------------------
(***************************************************************************)
(* What the transaction service promises about the transactions it sends,  *)
(* without queues, goroutines, timers or restarts: the status a client     *)
(* sees, and what the Stellar ledger holds.  A status moves                *)
(*     signing -> broadcast -> confirmed (or failed)                       *)
(* as backend/README.md says, a transaction reaches the ledger only after  *)
(* its signature was claimed, and a status that is final stays.            *)
(***************************************************************************)
CONSTANTS Tx        \* transaction ids

VARIABLES status,   \* the status column of each row; "none" before it exists, "gone" after
          signed,   \* transactions whose signature was ever claimed
          ledger    \* transactions the ledger applied
vars == <<status, signed, ledger>>

Final == {"confirmed", "failed"}
Status == {"none", "signing", "broadcast", "gone"} \cup Final

Init ==
  /\ status = [t \in Tx |-> "none"]
  /\ signed = {}
  /\ ledger = {}

Move(t, from, to) ==
  /\ status[t] = from
  /\ status' = [status EXCEPT ![t] = to]

Begin(t)   == Move(t, "none", "signing") /\ UNCHANGED <<signed, ledger>>
Abandon(t) == Move(t, "signing", "failed") /\ UNCHANGED <<signed, ledger>>
Sign(t)    == Move(t, "signing", "broadcast") /\ signed' = signed \cup {t} /\ UNCHANGED ledger
Reject(t)  == Move(t, "broadcast", "failed") /\ UNCHANGED <<signed, ledger>>

\* Confirmed is written only for a transaction the ledger holds.
Confirm(t) == t \in ledger /\ Move(t, "broadcast", "confirmed") /\ UNCHANGED <<signed, ledger>>

\* A signed transaction is applied at most once, also when its row is gone.
Land(t) ==
  /\ t \in signed \ ledger
  /\ status[t] \in {"broadcast", "gone"}
  /\ ledger' = ledger \cup {t}
  /\ UNCHANGED <<status, signed>>

\* Deleting a wallet removes the rows of its transactions at once.
Remove(rows) ==
  /\ \A t \in rows : status[t] # "none"
  /\ status' = [t \in Tx |-> IF t \in rows THEN "gone" ELSE status[t]]
  /\ UNCHANGED <<signed, ledger>>

Next ==
  \/ \E t \in Tx : Begin(t) \/ Abandon(t) \/ Sign(t) \/ Land(t) \/ Confirm(t) \/ Reject(t)
  \/ \E rows \in SUBSET Tx : Remove(rows)

Spec == Init /\ [][Next]_vars
==============================================================================
