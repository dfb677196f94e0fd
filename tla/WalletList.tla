------------------------------ MODULE WalletList ------------------------------
(***************************************************************************)
(* The wallets of the workspace (useWallets, the Wallets page, the dialog  *)
(* that creates a wallet and the bar that deletes one).                    *)
(*                                                                         *)
(* The answer to a list request is shown for the workspace it was asked    *)
(* for, whatever workspace is shown by then; the list of the workspace     *)
(* that was left stays until the next answer.                              *)
(***************************************************************************)
EXTENDS WebInterface

VARIABLES
  kept,         \* server: the state of each wallet
  walletEvents, \* wallets whose keygen has ended, their events on the way
  active,       \* workspaceId of the closures that are rendered now
  rows,         \* the list: a copy of each wallet's state, "none" if it is not in it
  rowsFor,      \* the workspace it was loaded for
  rowsFailed,   \* the workspace whose list could not be loaded
  walletShown,  \* route.walletId
  dialog,       \* the dialog that creates a wallet
  walletCalls,
  walletMoves

listVars == <<active, rows, rowsFor, rowsFailed, walletShown, dialog, walletCalls, walletMoves>>
walletVars == <<kept, walletEvents, listVars>>

State == {"none", "generating", "ready", "failed", "deleted"}
Listed == {"generating", "ready", "failed"}
NoRows == [w \in Wallet |-> "none"]
DialogClosed == [open |-> FALSE, creating |-> None]

\* then: what awaits the list; mine: the dialog that asked is still open.
WalletCalls == [kind : {"list", "create", "delete"}, for : Workspace, wallet : Wallet \cup {None},
                then : {"nothing", "ceremony", "close"}, mine : BOOLEAN,
                status : {"sent", "ok", "lost"}, got : [Wallet -> State]]

Ask(kind, for, w, then) ==
  [kind |-> kind, for |-> for, wallet |-> w, then |-> then, mine |-> TRUE, status |-> "sent",
   got |-> NoRows]

TypeOK ==
  /\ kept \in [Wallet -> State]
  /\ walletEvents \subseteq Wallet
  /\ active \in Workspace
  /\ rows \in [Wallet -> State]
  /\ {rowsFor, rowsFailed} \subseteq Workspace \cup {None}
  /\ walletShown \in Wallet \cup {None}
  /\ dialog \in [open : BOOLEAN, creating : Wallet \cup {None}]
  /\ walletCalls \subseteq WalletCalls
  /\ walletMoves \in 0 .. MaxMoves

Init ==
  /\ kept \in [Wallet -> {"none", "ready"}]
  /\ walletEvents = {}
  /\ active \in Workspace
  /\ rows = NoRows /\ rowsFor = None /\ rowsFailed = None
  /\ walletShown = None /\ dialog = DialogClosed
  /\ walletCalls = {Ask("list", active, None, "nothing")}
  /\ walletMoves = 0

loaded == rowsFor = active
failed == rowsFailed = active
openWallet == IF walletShown # None /\ rows[walletShown] # "none" THEN walletShown ELSE None

\* The shell shows the wallets page, its list and its buttons.
ShowsList == openWallet = None /\ ~failed /\ loaded /\ ~dialog.open
------------------------------------------------------------------------------
(* The server.                                                              *)

KeygenEnds(w) ==
  /\ kept[w] = "generating"
  /\ \E s \in {"ready", "failed"} : kept' = [kept EXCEPT ![w] = s]
  /\ walletEvents' = walletEvents \cup {w}
  /\ UNCHANGED listVars

Reply(q, status, got) == (walletCalls \ {q}) \cup {[q EXCEPT !.status = status, !.got = got]}

ListOf(ws) ==
  [w \in Wallet |-> IF WalletWorkspace[w] = ws /\ kept[w] \in Listed THEN kept[w] ELSE "none"]

Serve(q) ==
  /\ q.status = "sent"
  /\ \/ q.kind = "list" /\ walletCalls' = Reply(q, "ok", ListOf(q.for)) /\ UNCHANGED kept
     \/ /\ q.kind = "create" /\ kept[q.wallet] = "none"
        /\ kept' = [kept EXCEPT ![q.wallet] = "generating"]
        /\ \E s \in {"ok", "lost"} : walletCalls' = Reply(q, s, NoRows)
     \/ /\ q.kind = "delete" /\ kept[q.wallet] \in Listed
        /\ kept' = [kept EXCEPT ![q.wallet] = "deleted"]
        /\ \E s \in {"ok", "lost"} : walletCalls' = Reply(q, s, NoRows)
  /\ UNCHANGED <<walletEvents, active, rows, rowsFor, rowsFailed, walletShown, dialog, walletMoves>>
------------------------------------------------------------------------------
(* What reaches the tab.                                                    *)

\* applyUpdate: only a wallet of the list is updated; or the event was dropped.
WalletEvent(w) ==
  /\ walletEvents' = walletEvents \ {w}
  /\ rows' \in {rows, IF rows[w] = "none" THEN rows ELSE [rows EXCEPT ![w] = kept[w]]}
  /\ UNCHANGED <<kept, active, rowsFor, rowsFailed, walletShown, dialog, walletCalls, walletMoves>>

Rest(q) == walletCalls \ {q}

\* Mutation: the list is taken for that of the workspace that is shown.
LoadedForActive(q) == active

LoadedFor(q) == q.for

\* reload, and what awaited it: the ceremony of the new wallet, or closeWallet, whichever
\* wallet is open by now.
reload(q) ==
  /\ q.kind = "list"
  /\ IF q.status = "ok" THEN rows' = q.got /\ rowsFor' = LoadedFor(q) /\ UNCHANGED rowsFailed
     ELSE rowsFailed' = q.for /\ UNCHANGED <<rows, rowsFor>>
  /\ dialog' = IF q.then = "ceremony" /\ q.mine THEN [dialog EXCEPT !.creating = q.wallet] ELSE dialog
  /\ walletShown' = IF q.then = "close" THEN None ELSE walletShown
  /\ walletCalls' = Rest(q)

\* create and remove await the reload of their closure; an error ends in the dialog, or
\* nowhere: the bar that deletes only enables its button again.
changed(q, then) ==
  /\ IF q.status = "ok"
     THEN /\ rowsFailed' = None
          /\ walletCalls' = Rest(q) \cup {[Ask("list", q.for, q.wallet, then) EXCEPT !.mine = q.mine]}
     ELSE walletCalls' = Rest(q) /\ UNCHANGED rowsFailed
  /\ UNCHANGED <<rows, rowsFor, dialog, walletShown>>

create(q) == q.kind = "create" /\ changed(q, "ceremony")
remove(q) == q.kind = "delete" /\ changed(q, "close")

\* A request that was not handled, or whose answer is lost, fails.
Arrives(q) ==
  /\ reload(q) \/ create(q) \/ remove(q)
  /\ UNCHANGED <<kept, walletEvents, active, walletMoves>>
------------------------------------------------------------------------------
(* The person.                                                              *)

Move == walletMoves < MaxMoves /\ walletMoves' = walletMoves + 1 /\ UNCHANGED <<kept, walletEvents>>

\* The effect of reload asks for the list of the workspace that is shown now.
Switch(ws) ==
  /\ Move
  /\ ws # active /\ ~dialog.open
  /\ active' = ws
  /\ rowsFailed' = None
  /\ walletShown' = None
  /\ walletCalls' = walletCalls \cup {Ask("list", ws, None, "nothing")}
  /\ UNCHANGED <<rows, rowsFor, dialog>>

Retry ==
  /\ Move
  /\ failed /\ openWallet = None
  /\ rowsFailed' = None
  /\ walletCalls' = walletCalls \cup {Ask("list", active, None, "nothing")}
  /\ UNCHANGED <<active, rows, rowsFor, walletShown, dialog>>

OpenWallet(w) ==
  /\ Move
  /\ ShowsList /\ rows[w] = "ready"
  /\ walletShown' = w
  /\ UNCHANGED <<active, rows, rowsFor, rowsFailed, dialog, walletCalls>>

OpenDialog ==
  /\ Move
  /\ ShowsList
  /\ dialog' = [DialogClosed EXCEPT !.open = TRUE]
  /\ UNCHANGED <<active, rows, rowsFor, rowsFailed, walletShown, walletCalls>>

CloseDialog ==
  /\ Move
  /\ dialog.open
  /\ dialog' = DialogClosed
  /\ walletCalls' = {[q EXCEPT !.mine = FALSE] : q \in walletCalls}
  /\ UNCHANGED <<active, rows, rowsFor, rowsFailed, walletShown>>

\* handleSubmit: the form is not disabled while it waits, so it may be sent again.
CreateWallet(w) ==
  /\ Move
  /\ dialog.open /\ dialog.creating = None
  /\ kept[w] = "none" /\ WalletWorkspace[w] = active /\ \A q \in walletCalls : q.wallet # w
  /\ walletCalls' = walletCalls \cup {Ask("create", active, w, "nothing")}
  /\ UNCHANGED <<active, rows, rowsFor, rowsFailed, walletShown, dialog>>

\* Open wallet, at the end of the ceremony.
OpenCreated ==
  /\ Move
  /\ dialog.creating # None /\ rows[dialog.creating] = "ready"
  /\ dialog' = DialogClosed
  /\ walletShown' = dialog.creating
  /\ UNCHANGED <<active, rows, rowsFor, rowsFailed, walletCalls>>

DeleteWallet ==
  /\ Move
  /\ openWallet # None
  /\ \A q \in walletCalls : q.wallet # openWallet
  /\ walletCalls' = walletCalls \cup {Ask("delete", active, openWallet, "nothing")}
  /\ UNCHANGED <<active, rows, rowsFor, rowsFailed, walletShown, dialog>>

Back ==
  /\ Move
  /\ openWallet # None
  /\ walletShown' = None
  /\ UNCHANGED <<active, rows, rowsFor, rowsFailed, dialog, walletCalls>>

Next ==
  \/ \E w \in Wallet : \/ KeygenEnds(w) \/ OpenWallet(w) \/ CreateWallet(w)
                       \/ w \in walletEvents /\ WalletEvent(w)
  \/ \E ws \in Workspace : Switch(ws)
  \/ Retry \/ OpenDialog \/ CloseDialog \/ OpenCreated \/ DeleteWallet \/ Back
  \/ \E q \in walletCalls : Serve(q) \/ Arrives(q)

Spec == Init /\ [][Next]_walletVars
------------------------------------------------------------------------------
\* A list that is shown as loaded holds wallets of the workspace on the screen only, in
\* whatever order the lists of workspaces that were visited arrive.
LoadedListIsOfTheWorkspace ==
  loaded => \A w \in Wallet : rows[w] # "none" => WalletWorkspace[w] = active

\* The comment of loaded: "False until the active workspace's list arrives".  The code
\* violates it: the late list of a workspace that was left takes its place.
StaysLoaded == [][loaded /\ active' = active => loaded']_walletVars
==============================================================================
