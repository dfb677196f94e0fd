------------------------------ MODULE WalletPage ------------------------------
(***************************************************************************)
(* The page of one wallet while it is mounted (useWalletDetail,            *)
(* useBalances, TransactionList, the tx events of useLiveTransactions):    *)
(* the history it fetched page by page, the copies that came live, and the *)
(* balances it reads again when a transaction is seen to confirm.          *)
(*                                                                         *)
(* Transactions are numbered by their creation time.  An incoming payment  *)
(* gets the time of its ledger, so it may be recorded after newer ones.    *)
(* A balance is the number of confirmed transactions it accounts for:      *)
(* Horizon indexes a transaction after it confirms.  The events of a       *)
(* transaction come late, in any order, or not at all.  The rows are all   *)
(* shown at once.                                                          *)
(***************************************************************************)
EXTENDS WebInterface, FiniteSetsExt

CONSTANTS Txs,           \* number of transactions
          Sent,          \* the wallet's own ones; the others are incoming payments
          First,         \* those that are there, and long confirmed, when the page is opened
          LateRecorded,  \* incoming ones that may be recorded after newer ones
          PageSize

PageAssumption == {Txs, PageSize} \subseteq Nat

VARIABLES
  txs,           \* server: the state of each transaction
  indexed,       \* how many confirmed ones Horizon's balances account for
  liveTxns,      \* the shell's latest live copy of each
  history, historyNext, historyLoaded, loadingMoreHistory,
  assets,        \* the balances that are shown, Null while they load or after a failure
  lastBalanceTrigger, retry,  \* the count that was last acted on, the timer that reads once more
  refreshing, funding,
  pageCalls,     \* requests of the mounted page
  overlapped,    \* ghost: a reload and an older page were asked for together
  reread,        \* ghost: the balances were read again after a confirmation
  pageMoves

server == <<txs, indexed>>
view == <<history, historyNext, historyLoaded, loadingMoreHistory>>
reading == <<lastBalanceTrigger, retry, reread>>
money == <<assets, reading>>
buttons == <<refreshing, funding>>
pageVars == <<server, liveTxns, view, money, buttons, pageCalls, overlapped, pageMoves>>

Tx == 1 .. Txs
Null == -1
Status == {"none", "signing", "confirmed"}
NoTxs == [t \in Tx |-> "none"]

PageCalls == [kind : {"reload", "more", "balance", "sync", "fund"}, refresh : BOOLEAN, after : 0 .. Txs,
              status : {"sent", "ok"}, got : [Tx -> Status], next : 0 .. Txs, read : 0 .. Txs]

\* read: what the balances account for when they are asked for.
PageCall(kind, refresh, after) ==
  [kind |-> kind, refresh |-> refresh, after |-> after, status |-> "sent", got |-> NoTxs, next |-> 0,
   read |-> IF kind = "balance" THEN indexed ELSE 0]

TypeOK ==
  /\ txs \in [Tx -> Status] /\ liveTxns \in [Tx -> Status] /\ history \in [Tx -> Status]
  /\ indexed \in 0 .. Txs /\ historyNext \in 0 .. Txs
  /\ {historyLoaded, loadingMoreHistory, retry, refreshing, funding, overlapped,
      reread} \subseteq BOOLEAN
  /\ {assets, lastBalanceTrigger} \subseteq Null .. Txs
  /\ pageCalls \subseteq PageCalls
  /\ pageMoves \in 0 .. MaxMoves

In(copies, s) == {t \in Tx : copies[t] = s}
Confirmed(copies) == Cardinality(In(copies, "confirmed"))
There(copies) == Tx \ In(copies, "none")

\* reload of useBalances: the answers of earlier requests are dropped (latestRequest).
BalanceAsked(requests) ==
  {q \in requests : q.kind # "balance"} \cup {PageCall("balance", FALSE, 0)}

Init ==
  /\ txs = [t \in Tx |-> IF t \in First THEN "confirmed" ELSE "none"]
  /\ indexed = Confirmed(txs)
  /\ liveTxns = NoTxs
  /\ history = NoTxs /\ historyNext = 0 /\ historyLoaded = FALSE /\ loadingMoreHistory = FALSE
  /\ assets = Null /\ lastBalanceTrigger = Null /\ retry = FALSE /\ reread = FALSE
  /\ refreshing = FALSE /\ funding = FALSE /\ overlapped = FALSE
  /\ pageCalls = {PageCall("reload", FALSE, 0), PageCall("balance", FALSE, 0)}
  /\ pageMoves = 0
------------------------------------------------------------------------------
(* The server and the ledger.                                               *)

\* A payment, a swap or a trustline is newer than what is there and signed first; an incoming
\* payment is confirmed when it is recorded.
Recorded(t) ==
  /\ txs[t] = "none"
  /\ t \in LateRecorded \/ \A u \in There(txs) : u < t
  /\ txs' = [txs EXCEPT ![t] = IF t \in Sent THEN "signing" ELSE "confirmed"]
  /\ UNCHANGED indexed

Confirms(t) == txs[t] = "signing" /\ txs' = [txs EXCEPT ![t] = "confirmed"] /\ UNCHANGED indexed

Indexes == indexed < Confirmed(txs) /\ indexed' = Confirmed(txs) /\ UNCHANGED txs

World ==
  /\ Indexes \/ \E t \in Tx : Recorded(t) \/ Confirms(t)
  /\ UNCHANGED <<liveTxns, view, money, buttons, pageCalls, overlapped, pageMoves>>

\* The newest transactions before a cursor, and the cursor for the rest.
Page(after) ==
  LET before == {t \in There(txs) : after = 0 \/ t < after}
  IN  {t \in before : Cardinality({u \in before : u > t}) < PageSize}
NextCursor(after) ==
  LET page == Page(after)
  IN  IF page # {} /\ \E t \in There(txs) : t < Min(page) THEN Min(page) ELSE 0

\* What a sync or a funding records is recorded above.
ServePage(q) ==
  /\ q.kind \in {"reload", "more"} /\ q.status = "sent"
  /\ pageCalls' = (pageCalls \ {q}) \cup
       {[q EXCEPT !.status = "ok", !.next = NextCursor(q.after),
                  !.got = [t \in Tx |-> IF t \in Page(q.after) THEN txs[t] ELSE "none"]]}
  /\ UNCHANGED <<server, liveTxns, view, money, buttons, overlapped, pageMoves>>
------------------------------------------------------------------------------
(* What the page shows and does after it changed.                           *)

\* Live copies take the place of fetched ones.
Merged(fetched, live) == [t \in Tx |-> IF live[t] # "none" THEN live[t] ELSE fetched[t]]
transactions == Merged(history, liveTxns)

\* Mutation: the balances are not read once more.
RetryAfterNever == FALSE

RetryAfter == TRUE

\* The effect that reads the balances again when the count of confirmed ones changes; the
\* first count it sees is only remembered.
Effect(requests) ==
  LET count == Confirmed(Merged(history', liveTxns'))
      changed == lastBalanceTrigger \notin {Null, count}
  IN  /\ lastBalanceTrigger' = IF historyLoaded' THEN count ELSE lastBalanceTrigger
      /\ IF historyLoaded' /\ changed
         THEN retry' = RetryAfter /\ reread' = TRUE /\ pageCalls' = BalanceAsked(requests)
         ELSE pageCalls' = requests /\ UNCHANGED <<retry, reread>>

\* track: an event of a state that the transaction is in or was in.
TxEvent(t) ==
  /\ \E s \in {"signing", "confirmed"} :
       /\ s \in {txs[t]} \cup (IF txs[t] = "confirmed" /\ t \in Sent THEN {"signing"} ELSE {})
       /\ liveTxns' = [liveTxns EXCEPT ![t] = s]
  /\ UNCHANGED view
  /\ Effect(pageCalls)
  /\ UNCHANGED <<server, assets, buttons, overlapped, pageMoves>>

Others(q) == pageCalls \ {q}

\* Mutation: the cursor of the pages that were there is kept.
CursorAfterKept(q) == IF historyNext = 0 THEN q.next ELSE historyNext

CursorAfter(q) == q.next

\* reloadHistory, and the end of refresh.
reloadHistory(q) ==
  /\ q.kind = "reload"
  /\ IF q.status = "ok"
     THEN /\ history' = q.got /\ historyNext' = CursorAfter(q)
          /\ overlapped' = (\E p \in pageCalls : p.kind = "more")
     ELSE UNCHANGED <<history, historyNext, overlapped>>
  /\ historyLoaded' = TRUE
  /\ refreshing' = (refreshing /\ ~q.refresh)
  /\ UNCHANGED <<liveTxns, loadingMoreHistory, assets, funding>>
  /\ Effect(IF q.refresh THEN BalanceAsked(Others(q)) ELSE Others(q))

loadMoreHistory(q) ==
  /\ q.kind = "more"
  /\ IF q.status = "ok"
     THEN history' = Merged(history, q.got) /\ historyNext' = q.next
     ELSE UNCHANGED <<history, historyNext>>
  /\ loadingMoreHistory' = FALSE
  /\ UNCHANGED <<liveTxns, historyLoaded>>
  /\ Effect(Others(q))
  /\ UNCHANGED <<assets, buttons, overlapped>>

\* The balances were read after they were asked for.
reloadBalances(q) ==
  /\ q.kind = "balance"
  /\ assets' \in q.read .. indexed \cup {Null}
  /\ pageCalls' = Others(q)
  /\ UNCHANGED <<liveTxns, view, reading, buttons, overlapped>>

\* refresh goes on to the history whether or not the sync failed.
refresh(q) ==
  /\ q.kind = "sync"
  /\ pageCalls' = Others(q) \cup {PageCall("reload", TRUE, 0)}
  /\ overlapped' = (overlapped \/ loadingMoreHistory)
  /\ UNCHANGED <<liveTxns, view, money, buttons>>

fund(q) ==
  /\ q.kind = "fund"
  /\ funding' = FALSE
  /\ pageCalls' \in {BalanceAsked(Others(q)), Others(q)}
  /\ UNCHANGED <<liveTxns, view, money, refreshing, overlapped>>

\* A request that was not handled fails.
Arrives(q) ==
  /\ reloadHistory(q) \/ loadMoreHistory(q) \/ reloadBalances(q) \/ refresh(q) \/ fund(q)
  /\ UNCHANGED <<server, pageMoves>>

\* The timer is set for longer than Horizon takes.
RetryBalances ==
  /\ retry /\ indexed >= lastBalanceTrigger
  /\ retry' = FALSE
  /\ pageCalls' = BalanceAsked(pageCalls)
  /\ UNCHANGED <<server, liveTxns, view, assets, lastBalanceTrigger, reread, buttons, overlapped,
                 pageMoves>>
------------------------------------------------------------------------------
(* The person.                                                              *)

Move == pageMoves < MaxMoves /\ pageMoves' = pageMoves + 1 /\ UNCHANGED <<server, liveTxns>>

ShowMore ==
  /\ Move
  /\ historyNext # 0 /\ ~loadingMoreHistory
  /\ loadingMoreHistory' = TRUE
  /\ pageCalls' = pageCalls \cup {PageCall("more", FALSE, historyNext)}
  /\ overlapped' = (overlapped \/ \E p \in pageCalls : p.kind = "reload")
  /\ UNCHANGED <<history, historyNext, historyLoaded, money, buttons>>

Refresh ==
  /\ Move /\ ~refreshing
  /\ refreshing' = TRUE
  /\ pageCalls' = pageCalls \cup {PageCall("sync", TRUE, 0)}
  /\ UNCHANGED <<view, money, funding, overlapped>>

Fund ==
  /\ Move /\ ~funding
  /\ funding' = TRUE
  /\ pageCalls' = pageCalls \cup {PageCall("fund", FALSE, 0)}
  /\ UNCHANGED <<view, money, refreshing, overlapped>>

Next ==
  \/ World \/ RetryBalances
  \/ \E t \in Tx \ First : TxEvent(t)
  \/ \E q \in pageCalls : ServePage(q) \/ Arrives(q)
  \/ ShowMore \/ Refresh \/ Fund

Spec == Init /\ [][Next]_pageVars
------------------------------------------------------------------------------
\* The fetched history has no gap: between the newest and the oldest transaction of it every
\* one that is there was fetched, whatever was recorded, refreshed, failed or loaded
\* meanwhile; unless it was recorded after newer ones, or the answer to Show more came
\* after that of a reload it overlapped, which the code does not tell apart.
HistoryWithoutGap ==
  overlapped \/ \A u, v \in There(history), t \in There(txs) \ LateRecorded :
                  u < t /\ t < v => history[t] # "none"

\* A confirmation that the open page saw is in the balances it shows when nothing is under way
\* any more, although Horizon may be behind when they are first read again and although the
\* answers to several readings come in any order.
QuietBalancesAreCurrent ==
  reread /\ pageCalls = {} /\ ~retry /\ assets # Null => assets >= lastBalanceTrigger
==============================================================================
