------------------------------ MODULE Trustlines ------------------------------
(***************************************************************************)
(* The trustlines that the web interface asks for (useTrustlineRequest in  *)
(* the swap form and on the page of a wallet, AddAssetChips).  A request   *)
(* stays pending while it is made and then while the balances are polled   *)
(* for the asset.  The map of polls is by asset; the wallet may change     *)
(* while requests of another one are under way.  An asset may be offered   *)
(* that the wallet trusts by now: the balances that are shown may be old.  *)
(***************************************************************************)
EXTENDS WebInterface

CONSTANTS Asset,
          MAX_POLLS,
          TrustlineMoves   \* bound on what the person does

ASSUME TrustlinesAssumption == {MAX_POLLS, TrustlineMoves} \subseteq Nat

VARIABLES
  currentWallet,  \* walletId
  pendingKeys,    \* pending
  polls,          \* NoEntry, Adding (null), or the number of an interval
  intervals,      \* the intervals that were started; live: not cleared
  trustlineCalls, \* add and balance requests
  trusted,        \* ledger: the trustlines that were added
  trustlineMoves

trustlineVars == <<currentWallet, pendingKeys, polls, intervals, trustlineCalls, trusted, trustlineMoves>>

Ids == 1 .. TrustlineMoves
NoEntry == -1
Adding == 0
Intervals == [id : Ids, wallet : Wallet, key : Asset, count : 0 .. MAX_POLLS, live : BOOLEAN]
TrustlineCalls == [kind : {"add", "balance"}, wallet : Wallet, key : Asset, id : Ids]

TrustlineTypeOK ==
  /\ currentWallet \in Wallet
  /\ pendingKeys \subseteq Asset
  /\ polls \in [Asset -> {NoEntry, Adding} \cup Ids]
  /\ intervals \subseteq Intervals
  /\ trustlineCalls \subseteq TrustlineCalls
  /\ trusted \subseteq Wallet \X Asset
  /\ trustlineMoves \in 0 .. TrustlineMoves

TrustlineInit ==
  /\ currentWallet \in Wallet
  /\ pendingKeys = {} /\ polls = [k \in Asset |-> NoEntry]
  /\ intervals = {} /\ trustlineCalls = {} /\ trusted = {} /\ trustlineMoves = 0

TrustlineMove == trustlineMoves < TrustlineMoves /\ trustlineMoves' = trustlineMoves + 1

Cleared(ids) == {[i EXCEPT !.live = @ /\ i.id \notin ids] : i \in intervals}

\* The cleanup of the effect: the requests that are under way are forgotten, not cancelled.
ChooseWallet(w) ==
  /\ TrustlineMove
  /\ w # currentWallet
  /\ currentWallet' = w
  /\ pendingKeys' = {} /\ polls' = [k \in Asset |-> NoEntry]
  /\ intervals' = Cleared({polls[k] : k \in Asset})
  /\ UNCHANGED <<trustlineCalls, trusted>>

\* A number of its own for each request, which its interval takes.
add(k) ==
  /\ TrustlineMove
  /\ k \notin pendingKeys /\ polls[k] = NoEntry
  /\ polls' = [polls EXCEPT ![k] = Adding]
  /\ pendingKeys' = pendingKeys \cup {k}
  /\ trustlineCalls' = trustlineCalls \cup
       {[kind |-> "add", wallet |-> currentWallet, key |-> k, id |-> trustlineMoves']}
  /\ UNCHANGED <<currentWallet, intervals, trusted>>

Others(q) == trustlineCalls \ {q}

finish(k) ==
  /\ intervals' = Cleared({polls[k]})
  /\ polls' = [polls EXCEPT ![k] = NoEntry]
  /\ pendingKeys' = pendingKeys \ {k}

\* Mutation: the request ends, the asset stays pending.
addFailedForgotten(k) ==
  /\ polls' = [polls EXCEPT ![k] = NoEntry]
  /\ UNCHANGED <<intervals, pendingKeys>>

\* The key of whatever wallet is shown by now.
addFailed(k) == finish(k)

\* The interval starts if the wallet is shown, again or still, and the asset is pending for
\* some request; it takes the place of another one, which nothing clears any more.
added(q) ==
  /\ q.kind = "add"
  /\ \/ addFailed(q.key)
     \/ IF currentWallet = q.wallet /\ polls[q.key] # NoEntry
        THEN /\ polls' = [polls EXCEPT ![q.key] = q.id]
             /\ intervals' = intervals \cup {[id |-> q.id, wallet |-> q.wallet, key |-> q.key,
                                              count |-> 0, live |-> TRUE]}
             /\ UNCHANGED pendingKeys
        ELSE UNCHANGED <<polls, intervals, pendingKeys>>
  /\ trustlineCalls' = Others(q)
  /\ UNCHANGED <<currentWallet, trusted, trustlineMoves>>

Tick(i) ==
  /\ i.live
  /\ LET asked == [kind |-> "balance", wallet |-> i.wallet, key |-> i.key, id |-> i.id]
         counted == [i EXCEPT !.count = IF @ < MAX_POLLS THEN @ + 1 ELSE @]
     IN  /\ intervals' = (intervals \ {i}) \cup {counted}
         /\ trustlineCalls' = trustlineCalls \cup {asked}
  /\ UNCHANGED <<currentWallet, pendingKeys, polls, trusted, trustlineMoves>>

\* Any pending request for the asset ends when the asset is there or its polls are used up.
polled(q) ==
  /\ q.kind = "balance"
  /\ trustlineCalls' = Others(q)
  /\ \E there \in {FALSE, <<q.wallet, q.key>> \in trusted} :
       IF polls[q.key] # NoEntry /\ (there \/ \E i \in intervals : i.id = q.id /\ i.count = MAX_POLLS)
       THEN finish(q.key)
       ELSE UNCHANGED <<intervals, polls, pendingKeys>>
  /\ UNCHANGED <<currentWallet, trusted, trustlineMoves>>

\* The trustline is signed and confirmed, sooner or later than the answer.
Confirmed(w, k) ==
  /\ \/ \E q \in trustlineCalls : q.wallet = w /\ q.key = k
     \/ \E i \in intervals : i.wallet = w /\ i.key = k
  /\ trusted' = trusted \cup {<<w, k>>}
  /\ UNCHANGED <<currentWallet, pendingKeys, polls, intervals, trustlineCalls, trustlineMoves>>

TrustlineNext ==
  \/ \E w \in Wallet : ChooseWallet(w) \/ \E k \in Asset : Confirmed(w, k)
  \/ \E k \in Asset : add(k)
  \/ \E q \in trustlineCalls : added(q) \/ polled(q)
  \/ \E i \in intervals : Tick(i)

TrustlineSpec == TrustlineInit /\ [][TrustlineNext]_trustlineVars
------------------------------------------------------------------------------
\* An asset that is shown as pending is under way for the wallet that is shown: it is being
\* asked for, or polled for; so the button comes back whatever answers come late or fail,
\* also those for another wallet.
PendingIsUnderWay ==
  \A k \in pendingKeys :
    \/ \E q \in trustlineCalls : q.kind = "add" /\ q.wallet = currentWallet /\ q.key = k
    \/ \E i \in intervals : i.live /\ i.id = polls[k] /\ i.wallet = currentWallet /\ i.key = k
==============================================================================
