------------------------------ MODULE MCInterface ------------------------------
(***************************************************************************)
(* The parts of the web interface on small instances.  They share no state *)
(* but the route, so each is explored for itself: part says which of them  *)
(* moves in a behaviour, the others keep one of their initial states.      *)
(***************************************************************************)
EXTENDS WalletList, Trustlines, Team

CONSTANTS w1, w2, a, b, r1, r2, xlm, usd, ann,
          Parts,                             \* the parts that a run explores
          ListMoves, DetailMoves, FormMoves,
          Request, WorkspaceOf, Recent, Existing, Openings, Votes, LinkMoves, MaxInflight,
          Txs, Sent, First, LateRecorded, PageSize,
          Native, Recipient, BringsMemo, NeedsMemo

VARIABLES
  part,
  version, stream, current, policyOf, pending, history, updates, loadedFor, historyFor,
  historyNext, listsFailed, historyFailed, loadingMore, page, inflight, late, known, behind, moves,
  txs, indexed, liveTxns, txHistory, txHistoryNext, txHistoryLoaded,
  loadingMoreTxs, assets, lastBalanceTrigger, retry, refreshing, funding, pageCalls, overlapped,
  reread, pageMoves,
  offered, form, held, query, formCalls, changedUnderDialog, submitted, formMoves

InW1 == [r \in Request |-> w1]
Home == [w \in Wallet |-> IF w = a THEN w1 ELSE w2]
\* At home, or with the link of the request of w1 that exists: there, and from w2.
Tabs == {<<w1, None>>, <<w1, r2>>, <<w2, r2>>}
InvitedEmail == [i \in Invite |-> ann]
Holdings == [w \in Wallet |-> IF w = a THEN {xlm, usd} ELSE {xlm}]

\* With the theorems about them, which InterfaceProofs uses.
Lists == INSTANCE ApprovalListsProofs WITH MaxMoves <- ListMoves, failed <- listsFailed

Detail == INSTANCE WalletPage WITH MaxMoves <- DetailMoves, history <- txHistory,
            historyNext <- txHistoryNext, historyLoaded <- txHistoryLoaded,
            loadingMoreHistory <- loadingMoreTxs
Pay == INSTANCE PaymentForms WITH MaxMoves <- FormMoves, Holds <- Holdings

ASSUME PartsAssumption ==
  /\ Parts \subseteq {"approvals", "wallets", "detail", "forms", "trustlines", "team"}
  /\ {ListMoves, DetailMoves, FormMoves} \subseteq Nat
  /\ Lists!ListsAssumption /\ Detail!PageAssumption /\ Pay!FormsAssumption

listsVars == <<version, stream, current, policyOf, pending, history, updates, loadedFor, historyFor,
               historyNext, listsFailed, historyFailed, loadingMore, page, inflight, late, known,
               behind, moves>>
detailVars == <<txs, indexed, liveTxns, txHistory, txHistoryNext, txHistoryLoaded,
                loadingMoreTxs, assets, lastBalanceTrigger, retry, refreshing, funding, pageCalls,
                overlapped, reread, pageMoves>>
formVars == <<offered, form, held, query, formCalls, changedUnderDialog, submitted, formMoves>>
interfaceVars == <<listsVars, part, walletVars, detailVars, formVars, trustlineVars, teamVars>>

\* One initial state for a part that does not move.
Still ==
  /\ part # "approvals" => inflight = {Lists!Call("reload", w1, None)} /\ version[r2] = 1
  /\ part # "wallets" => active = w1 /\ kept = NoRows
  /\ part # "forms" => offered = {} /\ form.page = "send"
  /\ part # "trustlines" => currentWallet = a
  /\ part # "team" => members = {}

InterfaceInit ==
  /\ part \in Parts
  /\ Lists!Init /\ Init /\ Detail!Init /\ Pay!Init /\ TrustlineInit /\ TeamInit
  /\ Still

InterfaceNext ==
  /\ \/ part = "approvals" /\ Lists!Next
     \/ part # "approvals" /\ UNCHANGED listsVars
  /\ \/ part = "wallets" /\ Next
     \/ part # "wallets" /\ UNCHANGED walletVars
  /\ \/ part = "detail" /\ Detail!Next
     \/ part # "detail" /\ UNCHANGED detailVars
  /\ \/ part = "forms" /\ Pay!Next
     \/ part # "forms" /\ UNCHANGED formVars
  /\ \/ part = "trustlines" /\ TrustlineNext
     \/ part # "trustlines" /\ UNCHANGED trustlineVars
  /\ \/ part = "team" /\ TeamNext
     \/ part # "team" /\ UNCHANGED teamVars
  /\ UNCHANGED part

InterfaceSpec == InterfaceInit /\ [][InterfaceNext]_interfaceVars
------------------------------------------------------------------------------
\* The state of every part keeps its type, whatever answers come late (all modules of the
\* web interface but Session).
InterfaceTypeOK ==
  CASE part = "approvals" -> Lists!TypeOK
    [] part = "wallets" -> TypeOK
    [] part = "detail" -> Detail!TypeOK
    [] part = "forms" -> Pay!TypeOK
    [] part = "trustlines" -> TrustlineTypeOK
    [] part = "team" -> TeamTypeOK

\* The loads of a workspace stay in it (see ApprovalLists).
LoadsStayInTheirWorkspace == part = "approvals" => Lists!LoadsStayInTheirWorkspace

\* Answers to the person's own actions stay in their workspace (see ApprovalLists).
ShownOfTheWorkspace == part = "approvals" => Lists!ShownOfTheWorkspace

\* With nothing on its way the lists are those of the server (see ApprovalLists).
QuietListsAreCurrent == part = "approvals" => Lists!QuietListsAreCurrent

\* A spinner of the approval lists has a request behind it (see ApprovalLists); a card whose
\* buttons wait has one change under way (see Team).
SpinnerIsUnderWay ==
  /\ part = "approvals" => Lists!SpinnerIsUnderWay
  /\ part = "team" => BusyIsUnderWay

\* The fetched history of a wallet has no gap (see WalletPage).
HistoryWithoutGap == part = "detail" => Detail!HistoryWithoutGap

\* Balances account for the confirmations that were seen (see WalletPage).
QuietBalancesAreCurrent == part = "detail" => Detail!QuietBalancesAreCurrent

\* What is submitted is what the dialog names (see PaymentForms).
SubmitsWhatIsShown == Pay!SubmitsWhatIsShown
==============================================================================
