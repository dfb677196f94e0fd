---------------------------- MODULE InterfaceProofs ---------------------------
(***************************************************************************)
(* The parts of the web interface, each for any number of the things it    *)
(* shows, of requests and of moves: a list of wallets that is shown as     *)
(* loaded is one of the workspace on the screen (WalletList); an asset     *)
(* that is shown as pending is asked for or polled for, for the wallet     *)
(* that is shown (Trustlines); an invite lets one person in, once, while   *)
(* it is open, and the buttons of the card wait for one request (Team);    *)
(* the lists of payment requests are those of their workspace and, at      *)
(* rest, of the server (ApprovalLists, from ApprovalListsProofs); the      *)
(* history of a wallet has no gap and its balances catch up (WalletPage);  *)
(* a form submits what its dialog shows (PaymentForms).  MCInterface puts  *)
(* them together; each part moves by its own steps, or not at all.         *)
(***************************************************************************)
EXTENDS MCInterface, FiniteSetTheorems, WellFoundedInduction, TLAPS
------------------------------------------------------------------------------
(* The lists of wallets.                                                    *)

\* The type of what the lists are made of.
ListTypeInv ==
  /\ kept \in [Wallet -> State]
  /\ rows \in [Wallet -> State]
  /\ active \in Workspace
  /\ walletCalls \subseteq WalletCalls

\* A list that was answered holds wallets of the workspace it was asked for, and the list
\* that is held those of the workspace it was loaded for: an event changes only a wallet
\* that is in the list.
OwnLists ==
  /\ \A q \in walletCalls : q.kind = "list" /\ q.status = "ok" =>
       \A w \in Wallet : q.got[w] # "none" => WalletWorkspace[w] = q.for
  /\ \A w \in Wallet : rows[w] # "none" => WalletWorkspace[w] = rowsFor

ListInv == ListTypeInv /\ OwnLists

\* The wallet of the address and of the dialog.
ScreenInv ==
  /\ walletShown \in Wallet \cup {None}
  /\ dialog \in [open : BOOLEAN, creating : Wallet \cup {None}]

WalletInv == ListInv /\ ScreenInv

\* A request as it is sent.
LEMMA ListAskTyped ==
  ASSUME NEW kind \in {"list", "create", "delete"}, NEW for \in Workspace,
         NEW w \in Wallet \cup {None}, NEW then \in {"nothing", "ceremony", "close"}
  PROVE  /\ Ask(kind, for, w, then) \in WalletCalls
         /\ Ask(kind, for, w, then).status = "sent"
BY DEF Ask, WalletCalls, NoRows, State

\* A request whose dialog is closed.
LEMMA LeftTyped ==
  ASSUME NEW q \in WalletCalls, NEW shown \in BOOLEAN, NEW r, r = [q EXCEPT !.mine = shown]
  PROVE  /\ r \in WalletCalls
         /\ r.kind = q.kind /\ r.for = q.for /\ r.got = q.got /\ r.status = q.status
BY DEF WalletCalls

\* At first no list is held and one is asked for.
LEMMA InitWallets == Init => WalletInv
<1> SUFFICES ASSUME Init PROVE WalletInv
  OBVIOUS
<1>1. Ask("list", active, None, "nothing") \in WalletCalls
      /\ Ask("list", active, None, "nothing").status = "sent"
  BY ListAskTyped DEF Init
<1> QED  BY <1>1 DEF Init, WalletInv, ListInv, ScreenInv, ListTypeInv, OwnLists, NoRows, State, DialogClosed

\* A list that the server sends holds wallets of the workspace that was asked for.
LEMMA ListOfOwn ==
  ASSUME ListTypeInv, NEW ws \in Workspace
  PROVE  /\ ListOf(ws) \in [Wallet -> State]
         /\ \A w \in Wallet : ListOf(ws)[w] # "none" => WalletWorkspace[w] = ws
BY DEF ListTypeInv, ListOf, State, Listed

\* The server's answers.
LEMMA ServeKeepsLists ==
  ASSUME WalletInv, NEW q \in walletCalls, Serve(q)
  PROVE  ListInv'
<1> USE DEF WalletInv, ListInv
<1>1. q \in WalletCalls /\ q.for \in Workspace
  BY DEF ListTypeInv, WalletCalls
<1>2. NoRows \in [Wallet -> State]
  BY DEF NoRows, State
<1>3. UNCHANGED <<active, rows, rowsFor>>
  BY Serve(q) DEF Serve
<1>4. CASE q.kind = "list" /\ walletCalls' = Reply(q, "ok", ListOf(q.for)) /\ UNCHANGED kept
  <2> DEFINE r == [q EXCEPT !.status = "ok", !.got = ListOf(q.for)]
  <2>1. ListOf(q.for) \in [Wallet -> State]
    BY <1>1, ListOfOwn
  <2>2. r \in WalletCalls /\ r.for = q.for /\ r.got = ListOf(q.for)
    BY <1>1, <2>1 DEF WalletCalls
  <2>3. walletCalls' = (walletCalls \ {q}) \cup {r}
    BY <1>4 DEF Reply
  <2>4. \A w \in Wallet : r.got[w] # "none" => WalletWorkspace[w] = r.for
    BY <1>1, <2>2, ListOfOwn
  <2> HIDE DEF r
  <2> QED  BY <1>3, <1>4, <2>2, <2>3, <2>4 DEF ListTypeInv, OwnLists
<1>5. ASSUME q.kind # "list", NEW s \in {"ok", "lost"}, walletCalls' = Reply(q, s, NoRows),
             kept' \in [Wallet -> State]
      PROVE  ListInv'
  <2> DEFINE r == [q EXCEPT !.status = s, !.got = NoRows]
  <2>1. r \in WalletCalls /\ r.kind = q.kind
    BY <1>1, <1>2 DEF WalletCalls
  <2>2. walletCalls' = (walletCalls \ {q}) \cup {r}
    BY <1>5 DEF Reply
  <2> HIDE DEF r
  <2> QED  BY <1>3, <1>5, <2>1, <2>2 DEF ListTypeInv, OwnLists
<1>6. CASE q.kind = "create" /\ kept' = [kept EXCEPT ![q.wallet] = "generating"]
           /\ \E s \in {"ok", "lost"} : walletCalls' = Reply(q, s, NoRows)
  BY <1>5, <1>6 DEF ListTypeInv, State
<1>7. CASE q.kind = "delete" /\ kept' = [kept EXCEPT ![q.wallet] = "deleted"]
           /\ \E s \in {"ok", "lost"} : walletCalls' = Reply(q, s, NoRows)
  BY <1>5, <1>7 DEF ListTypeInv, State
<1> QED  BY Serve(q), <1>4, <1>6, <1>7 DEF Serve

\* Answers that reach the tab: a list comes with the workspace it was asked for.
LEMMA ArrivalKeepsLists ==
  ASSUME WalletInv, NEW q \in walletCalls, Arrives(q)
  PROVE  ListInv'
<1> USE DEF WalletInv, ListInv
<1>1. q \in WalletCalls /\ q.for \in Workspace /\ q.wallet \in Wallet \cup {None}
      /\ q.mine \in BOOLEAN /\ q.got \in [Wallet -> State]
  BY DEF ListTypeInv, WalletCalls
<1>2. UNCHANGED <<kept, active>>
  BY Arrives(q) DEF Arrives
<1>3. CASE reload(q)
  BY <1>1, <1>2, <1>3 DEF reload, LoadedFor, Rest, ListTypeInv, OwnLists
<1>4. ASSUME NEW then \in {"ceremony", "close"}, changed(q, then)
      PROVE  ListInv'
  <2> DEFINE again == Ask("list", q.for, q.wallet, then)
  <2> DEFINE r == [again EXCEPT !.mine = q.mine]
  <2>1. again \in WalletCalls /\ again.status = "sent"
    BY <1>1, ListAskTyped
  <2>3. r \in WalletCalls /\ r.status = "sent"
    BY <1>1, <2>1, LeftTyped
  <2>4. walletCalls' \subseteq (walletCalls \ {q}) \cup {r} /\ UNCHANGED <<rows, rowsFor>>
    BY <1>4 DEF changed, Rest
  <2> HIDE DEF again, r
  <2> QED  BY <1>2, <2>3, <2>4 DEF ListTypeInv, OwnLists
<1> QED  BY Arrives(q), <1>3, <1>4 DEF Arrives, create, remove

\* The other actions ask for lists, or leave the lists alone.
LEMMA RestKeepsLists ==
  ASSUME WalletInv, Next
  PROVE  ListInv'
<1> USE DEF WalletInv, ListInv
<1>1. ASSUME NEW kind \in {"list", "create", "delete"}, NEW w \in Wallet \cup {None}, NEW for \in Workspace,
             walletCalls' = walletCalls \cup {Ask(kind, for, w, "nothing")},
             UNCHANGED <<kept, rows, rowsFor>>, active' \in Workspace
      PROVE  ListInv'
  <2> DEFINE ask == Ask(kind, for, w, "nothing")
  <2>1. ask \in WalletCalls /\ ask.status = "sent"
    BY ListAskTyped
  <2>2. walletCalls' = walletCalls \cup {ask}
    BY <1>1
  <2> HIDE DEF ask
  <2> QED  BY <1>1, <2>1, <2>2 DEF ListTypeInv, OwnLists
<1>2. ASSUME UNCHANGED <<kept, active, rows, rowsFor, walletCalls>>
      PROVE  ListInv'
  BY <1>2 DEF ListTypeInv, OwnLists
<1>3. ASSUME NEW w \in Wallet, KeygenEnds(w)
      PROVE  ListInv'
  BY <1>3 DEF KeygenEnds, listVars, ListTypeInv, OwnLists, State
<1>4. ASSUME NEW w \in Wallet, WalletEvent(w)
      PROVE  ListInv'
  BY <1>4 DEF WalletEvent, ListTypeInv, OwnLists
<1>5. ASSUME NEW ws \in Workspace, Switch(ws)
      PROVE  ListInv'
  BY <1>5, <1>1 DEF Switch, Move
<1>6. CASE Retry
  BY <1>6, <1>1 DEF Retry, Move, ListTypeInv
<1>7. ASSUME NEW w \in Wallet, CreateWallet(w)
      PROVE  ListInv'
  BY <1>7, <1>1 DEF CreateWallet, Move, ListTypeInv
<1>8. CASE DeleteWallet
  <2>1. openWallet \in Wallet \cup {None}
    BY <1>8 DEF DeleteWallet, openWallet, ScreenInv
  <2> QED  BY <1>8, <1>1, <2>1 DEF DeleteWallet, Move, ListTypeInv
<1>9. CASE CloseDialog
  <2>1. \A c \in walletCalls' : \E q \in walletCalls : c = [q EXCEPT !.mine = FALSE]
    BY <1>9 DEF CloseDialog
  <2>2. \A c \in walletCalls' : \E q \in walletCalls :
          /\ c \in WalletCalls
          /\ c.kind = q.kind /\ c.for = q.for /\ c.got = q.got /\ c.status = q.status
    <3>1. ASSUME NEW c \in walletCalls', NEW q \in walletCalls, c = [q EXCEPT !.mine = FALSE]
          PROVE  /\ c \in WalletCalls
                 /\ c.kind = q.kind /\ c.for = q.for /\ c.got = q.got /\ c.status = q.status
      <4>1. q \in WalletCalls
        BY DEF ListTypeInv
      <4> QED  BY <3>1, <4>1, LeftTyped
    <3> QED  BY <2>1, <3>1
  <2>3. UNCHANGED <<kept, active, rows, rowsFor>>
    BY <1>9 DEF CloseDialog, Move
  <2> QED  BY <2>2, <2>3 DEF ListTypeInv, OwnLists
<1>10. CASE OpenDialog \/ OpenCreated \/ Back
  BY <1>10, <1>2 DEF OpenDialog, OpenCreated, Back, Move
<1>11. ASSUME NEW w \in Wallet, OpenWallet(w)
       PROVE  ListInv'
  BY <1>11, <1>2 DEF OpenWallet, Move
<1>12. ASSUME NEW q \in walletCalls, Serve(q) \/ Arrives(q)
       PROVE  ListInv'
  BY <1>12, ServeKeepsLists, ArrivalKeepsLists
<1> QED  BY Next, <1>3, <1>4, <1>5, <1>6, <1>7, <1>8, <1>9, <1>10, <1>11, <1>12 DEF Next
------------------------------------------------------------------------------
\* What the screen shows is a wallet or nothing, whatever answer arrives.
LEMMA StepScreen ==
  ASSUME WalletInv, [Next]_walletVars
  PROVE  ScreenInv'
<1> USE DEF ScreenInv
<1>1. ASSUME NEW q \in walletCalls, Arrives(q)
      PROVE  ScreenInv'
  <2>1. q.wallet \in Wallet \cup {None}
    BY DEF WalletInv, ListInv, ListTypeInv, WalletCalls
  <2> QED  BY <1>1, <2>1 DEF WalletInv, Arrives, reload, create, remove, changed
<1>2. ASSUME NEW q \in walletCalls, Serve(q)
      PROVE  ScreenInv'
  BY <1>2 DEF WalletInv, Serve
<1>3. ASSUME NEW w \in Wallet, KeygenEnds(w) \/ OpenWallet(w) \/ CreateWallet(w) \/ WalletEvent(w)
      PROVE  ScreenInv'
  BY <1>3 DEF WalletInv, KeygenEnds, OpenWallet, CreateWallet, WalletEvent, listVars
<1>4. ASSUME NEW ws \in Workspace, Switch(ws)
      PROVE  ScreenInv'
  BY <1>4 DEF WalletInv, Switch
<1>5. CASE Retry \/ DeleteWallet \/ Back
  BY <1>5 DEF WalletInv, Retry, DeleteWallet, Back
<1>6. CASE OpenDialog
  BY <1>6 DEF WalletInv, OpenDialog, DialogClosed
<1>7. CASE CloseDialog
  BY <1>7 DEF WalletInv, CloseDialog, DialogClosed
<1>8. CASE OpenCreated
  BY <1>8 DEF WalletInv, OpenCreated, DialogClosed
<1>9. CASE UNCHANGED walletVars
  BY <1>9 DEF WalletInv, walletVars, listVars
<1> QED  BY <1>1, <1>2, <1>3, <1>4, <1>5, <1>6, <1>7, <1>8, <1>9 DEF Next

LEMMA WalletsInductive == Spec => []WalletInv
<1>1. ASSUME WalletInv, UNCHANGED walletVars
      PROVE  ListInv'
  BY <1>1 DEF walletVars, listVars, WalletInv, ListInv, ListTypeInv, OwnLists
<1>2. ASSUME WalletInv, [Next]_walletVars
      PROVE  WalletInv'
  BY <1>1, <1>2, RestKeepsLists, StepScreen DEF WalletInv
<1> QED  BY <1>2, InitWallets, PTL DEF Spec

\* The whole state keeps its type, for any number of workspaces, wallets and requests.
THEOREM WalletsTypeCorrect == Spec => []TypeOK
<1>1. Init => TypeOK
  <2> SUFFICES ASSUME Init PROVE TypeOK
    OBVIOUS
  <2>1. WalletInv
    BY InitWallets
  <2> QED  BY <2>1, InterfaceAssumption DEF Init, TypeOK, WalletInv, ListInv, ListTypeInv, ScreenInv
<1>2. ASSUME TypeOK, WalletInv, WalletInv', [Next]_walletVars
      PROVE  TypeOK'
  <2>1. walletMoves' = walletMoves \/ (walletMoves < MaxMoves /\ walletMoves' = walletMoves + 1)
    BY <1>2 DEF Next, walletVars, listVars, KeygenEnds, WalletEvent, Serve, Arrives, Switch, Retry,
       OpenWallet, OpenDialog, CloseDialog, CreateWallet, OpenCreated, DeleteWallet, Back, Move
  <2>2. walletMoves' \in 0 .. MaxMoves
    BY <1>2, <2>1, InterfaceAssumption DEF TypeOK
  <2>3. {rowsFor', rowsFailed'} \subseteq Workspace \cup {None}
    <3>1. \A q \in walletCalls : q.for \in Workspace
      BY <1>2 DEF WalletInv, ListInv, ListTypeInv, WalletCalls
    <3> QED  BY <1>2, <3>1 DEF TypeOK, Next, walletVars, listVars, KeygenEnds, WalletEvent, Serve, Arrives,
               reload, LoadedFor, create, remove, changed, Switch, Retry, OpenWallet, OpenDialog,
               CloseDialog, CreateWallet, OpenCreated, DeleteWallet, Back
  <2>4. walletEvents' \subseteq Wallet
    BY <1>2 DEF TypeOK, Next, walletVars, listVars, KeygenEnds, WalletEvent, Serve, Arrives, Switch, Retry,
       OpenWallet, OpenDialog, CloseDialog, CreateWallet, OpenCreated, DeleteWallet, Back, Move
  <2> QED  BY <1>2, <2>2, <2>3, <2>4 DEF TypeOK, WalletInv, ListInv, ListTypeInv, ScreenInv
<1> QED  BY <1>1, <1>2, WalletsInductive, PTL DEF Spec

\* However many lists of however many workspaces are under way, and in whatever order they
\* arrive, what is shown as loaded belongs to the workspace on the screen.
THEOREM ShownListIsOwn == Spec => []LoadedListIsOfTheWorkspace
<1>1. WalletInv => LoadedListIsOfTheWorkspace
  BY DEF WalletInv, ListInv, OwnLists, LoadedListIsOfTheWorkspace, loaded
<1> QED  BY <1>1, WalletsInductive, PTL
------------------------------------------------------------------------------
(* The trustlines of the wallet that is shown.                              *)

TrustlineTypeInv ==
  /\ currentWallet \in Wallet
  /\ pendingKeys \subseteq Asset
  /\ polls \in [Asset -> {NoEntry, Adding} \cup Ids]
  /\ intervals \subseteq Intervals
  /\ trustlineCalls \subseteq TrustlineCalls
  /\ trustlineMoves \in 0 .. TrustlineMoves

\* The number of a request is its own: an interval takes it when the request is gone.
IdInv ==
  /\ \A q \in trustlineCalls : q.id <= trustlineMoves
  /\ \A i \in intervals : i.id <= trustlineMoves
  /\ \A i, j \in intervals : i.id = j.id => i = j
  /\ \A q \in trustlineCalls, i \in intervals : q.kind = "add" => q.id # i.id
  /\ \A q, r \in trustlineCalls : q.kind = "add" /\ r.kind = "add" /\ q.id = r.id => q = r

AskedFor(k) ==
  \E q \in trustlineCalls : q.kind = "add" /\ q.wallet = currentWallet /\ q.key = k
PolledFor(k) ==
  \E i \in intervals : i.live /\ i.id = polls[k] /\ i.wallet = currentWallet /\ i.key = k

\* What the map of polls says of an asset is so.
PollInv ==
  \A k \in Asset :
    /\ k \in pendingKeys => polls[k] # NoEntry
    /\ polls[k] = Adding => AskedFor(k)
    /\ polls[k] \in Ids => PolledFor(k)

TrustlineInv == TrustlineTypeInv /\ IdInv /\ PollInv

\* A number is neither of the marks.
LEMMA Marks == NoEntry \notin Ids /\ Adding \notin Ids /\ NoEntry # Adding
BY TrustlinesAssumption DEF NoEntry, Adding, Ids

\* Nothing is pending at first.
LEMMA InitTrustlines == TrustlineInit => TrustlineInv
BY TrustlinesAssumption, Marks DEF TrustlineInit, TrustlineInv, TrustlineTypeInv, IdInv, PollInv

\* Clearing leaves every interval but for whether it is live, and those that it does not name.
LEMMA ClearedIntervals ==
  ASSUME TrustlineTypeInv, NEW ids
  PROVE  /\ Cleared(ids) \subseteq Intervals
         /\ \A c \in Cleared(ids) : \E i \in intervals :
              c.id = i.id /\ c = [i EXCEPT !.live = i.live /\ i.id \notin ids]
         /\ \A i \in intervals : i.id \notin ids => i \in Cleared(ids)
<1>1. ASSUME NEW c \in Cleared(ids)
      PROVE  /\ c \in Intervals
             /\ \E i \in intervals : c.id = i.id /\ c = [i EXCEPT !.live = i.live /\ i.id \notin ids]
  <2>1. PICK i \in intervals : c = [i EXCEPT !.live = i.live /\ i.id \notin ids]
    BY DEF Cleared
  <2>2. i \in Intervals
    BY DEF TrustlineTypeInv
  <2>3. (i.live /\ i.id \notin ids) \in BOOLEAN
    OBVIOUS
  <2>4. c \in Intervals /\ c.id = i.id
    BY <2>1, <2>2, <2>3 DEF Intervals
  <2> QED  BY <2>1, <2>4
<1>2. ASSUME NEW i \in intervals, i.id \notin ids
      PROVE  i \in Cleared(ids)
  <2>1. i \in Intervals
    BY DEF TrustlineTypeInv
  <2>2. (i.live /\ i.id \notin ids) = i.live
    <3>1. i.live \in BOOLEAN
      BY <2>1 DEF Intervals
    <3> QED  BY <1>2, <3>1
  <2>3. [i EXCEPT !.live = i.live /\ i.id \notin ids] = [i EXCEPT !.live = i.live]
    BY <2>2
  <2>4. [i EXCEPT !.live = i.live] = i
    BY <2>1 DEF Intervals
  <2>5. [i EXCEPT !.live = i.live /\ i.id \notin ids] \in Cleared(ids)
    BY DEF Cleared
  <2> QED  BY <2>3, <2>4, <2>5
<1> QED  BY <1>1, <1>2

\* Clearing keeps the numbers apart.
LEMMA ClearedIds ==
  ASSUME TrustlineTypeInv, IdInv, NEW ids
  PROVE  /\ \A c \in Cleared(ids) : \E i \in intervals : c.id = i.id
         /\ \A c, d \in Cleared(ids) : c.id = d.id => c = d
<1>1. \A c \in Cleared(ids) : \E i \in intervals :
        c.id = i.id /\ c = [i EXCEPT !.live = i.live /\ i.id \notin ids]
  BY ClearedIntervals
<1>2. ASSUME NEW c \in Cleared(ids), NEW d \in Cleared(ids), c.id = d.id
      PROVE  c = d
  <2>1. PICK i \in intervals : c.id = i.id /\ c = [i EXCEPT !.live = i.live /\ i.id \notin ids]
    BY <1>1
  <2>2. PICK j \in intervals : d.id = j.id /\ d = [j EXCEPT !.live = j.live /\ j.id \notin ids]
    BY <1>1
  <2>3. i = j
    BY <1>2, <2>1, <2>2 DEF IdInv
  <2> QED  BY <2>1, <2>2, <2>3
<1> QED  BY <1>1, <1>2

\* A step that clears intervals, takes no request and does not go back keeps the numbers.
LEMMA ClearKeeps ==
  ASSUME TrustlineTypeInv, IdInv, NEW ids,
         intervals' = Cleared(ids), trustlineCalls' \subseteq trustlineCalls,
         trustlineMoves' \in 0 .. TrustlineMoves, trustlineMoves <= trustlineMoves'
  PROVE  /\ IdInv'
         /\ intervals' \subseteq Intervals
         /\ trustlineCalls' \subseteq TrustlineCalls
<1>1. /\ \A c \in intervals' : \E i \in intervals : c.id = i.id
      /\ \A c, d \in intervals' : c.id = d.id => c = d
  BY ClearedIds
<1>2. intervals' \subseteq Intervals
  BY ClearedIntervals
<1>3. \A i \in intervals : i.id \in Int
  BY TrustlinesAssumption DEF TrustlineTypeInv, Intervals, Ids
<1>4. \A q \in trustlineCalls : q.id \in Int
  BY TrustlinesAssumption DEF TrustlineTypeInv, TrustlineCalls, Ids
<1>5. \A q \in trustlineCalls' : q.id <= trustlineMoves'
  BY <1>4, TrustlinesAssumption DEF IdInv, TrustlineTypeInv
<1>6. \A c \in intervals' : c.id <= trustlineMoves'
  BY <1>1, <1>3, TrustlinesAssumption DEF IdInv, TrustlineTypeInv
<1> QED  BY <1>1, <1>2, <1>5, <1>6 DEF IdInv, TrustlineTypeInv

\* finish ends the poll of one asset and of no other one.
LEMMA FinishInv ==
  ASSUME TrustlineInv, NEW q \in trustlineCalls, finish(q.key), trustlineCalls' = Others(q),
         UNCHANGED <<currentWallet, trustlineMoves>>
  PROVE  TrustlineInv'
<1> USE DEF TrustlineInv
<1>0. q.key \in Asset
  BY DEF TrustlineTypeInv, TrustlineCalls
<1> DEFINE key == q.key
<1>1. /\ intervals' = Cleared({polls[key]})
      /\ polls' = [polls EXCEPT ![key] = NoEntry]
      /\ pendingKeys' = pendingKeys \ {key}
  BY DEF finish
<1>2. /\ IdInv'
      /\ intervals' \subseteq Intervals
      /\ trustlineCalls' \subseteq TrustlineCalls
  <2>1. trustlineCalls' \subseteq trustlineCalls
    BY DEF Others
  <2>2. trustlineMoves' \in 0 .. TrustlineMoves /\ trustlineMoves <= trustlineMoves'
    BY TrustlinesAssumption DEF TrustlineTypeInv
  <2> HIDE DEF TrustlineInv, key
  <2>3. TrustlineTypeInv /\ IdInv
    BY DEF TrustlineInv
  <2> QED  BY <1>1, <2>1, <2>2, <2>3, ClearKeeps
<1>3. polls' \in [Asset -> {NoEntry, Adding} \cup Ids]
  BY <1>1 DEF TrustlineTypeInv
<1>4. ASSUME NEW k \in Asset, k # key
      PROVE  /\ k \in pendingKeys' => polls'[k] # NoEntry
             /\ polls'[k] = Adding => AskedFor(k)'
             /\ polls'[k] \in Ids => PolledFor(k)'
  <2>1. polls'[k] = polls[k]
    BY <1>1, <1>4 DEF TrustlineTypeInv
  <2>2. ASSUME polls[k] = Adding PROVE AskedFor(k)'
    <3>1. PICK r \in trustlineCalls : r.kind = "add" /\ r.wallet = currentWallet /\ r.key = k
      BY <2>2 DEF PollInv, AskedFor
    <3>2. r \in trustlineCalls'
      BY <3>1, <1>4 DEF Others
    <3> QED  BY <3>1, <3>2 DEF AskedFor
  <2>3. ASSUME polls[k] \in Ids PROVE PolledFor(k)'
    <3>1. PICK i \in intervals : i.live /\ i.id = polls[k] /\ i.wallet = currentWallet /\ i.key = k
      BY <2>3 DEF PollInv, PolledFor
    <3>2. i.id # polls[key]
      <4>1. SUFFICES ASSUME i.id = polls[key] PROVE FALSE
        OBVIOUS
      <4>2. PICK j \in intervals : j.id = polls[key] /\ j.key = key
        BY <1>0, <2>3, <3>1, <4>1 DEF PollInv, PolledFor
      <4>3. i = j
        BY <4>1, <4>2 DEF IdInv
      <4> QED  BY <3>1, <4>2, <4>3, <1>4
    <3>3. i \in intervals'
      BY <1>1, <3>2, ClearedIntervals
    <3> QED  BY <2>1, <3>1, <3>3 DEF PolledFor
  <2>4. k \in pendingKeys' => polls[k] # NoEntry
    BY <1>1 DEF PollInv
  <2> QED  BY <2>1, <2>2, <2>3, <2>4
<1>5. polls'[key] = NoEntry /\ key \notin pendingKeys'
  BY <1>0, <1>1 DEF TrustlineTypeInv
<1>6. PollInv'
  <2> SUFFICES ASSUME NEW k \in Asset
               PROVE  /\ k \in pendingKeys' => polls'[k] # NoEntry
                      /\ polls'[k] = Adding => AskedFor(k)'
                      /\ polls'[k] \in Ids => PolledFor(k)'
    BY DEF PollInv
  <2>1. CASE k = key
    BY <1>5, <2>1, Marks
  <2> QED  BY <1>4, <2>1
<1>7. TrustlineTypeInv'
  BY <1>1, <1>2, <1>3 DEF TrustlineTypeInv
<1> QED  BY <1>2, <1>6, <1>7

\* The answer to a request that succeeded.
LEMMA StartInv ==
  ASSUME TrustlineInv, NEW q \in trustlineCalls, q.kind = "add",
         currentWallet = q.wallet, polls[q.key] # NoEntry,
         polls' = [polls EXCEPT ![q.key] = q.id],
         intervals' = intervals \cup {[id |-> q.id, wallet |-> q.wallet, key |-> q.key,
                                       count |-> 0, live |-> TRUE]},
         trustlineCalls' = Others(q),
         UNCHANGED <<pendingKeys, currentWallet, trustlineMoves>>
  PROVE  TrustlineInv'
<1> USE DEF TrustlineInv
<1> DEFINE new == [id |-> q.id, wallet |-> q.wallet, key |-> q.key, count |-> 0, live |-> TRUE]
<1>1. q.key \in Asset /\ q.id \in Ids /\ q.wallet \in Wallet
  BY DEF TrustlineTypeInv, TrustlineCalls
<1>2. new \in Intervals
  BY <1>1, TrustlinesAssumption DEF Intervals
<1>3. TrustlineTypeInv'
  BY <1>1, <1>2 DEF TrustlineTypeInv, Others
<1>4. IdInv'
  <2>1. new.id = q.id /\ q.id <= trustlineMoves
    BY DEF IdInv
  <2>2. \A r \in trustlineCalls' : r.kind = "add" => r.id # new.id
    BY <2>1 DEF IdInv, Others
  <2>3. \A i \in intervals : i.id # new.id
    BY <2>1 DEF IdInv
  <2>4. intervals' = intervals \cup {new} /\ trustlineCalls' \subseteq trustlineCalls
    BY DEF Others
  <2> HIDE DEF new
  <2> QED  BY <2>1, <2>2, <2>3, <2>4 DEF IdInv
<1>5. ASSUME NEW k \in Asset
      PROVE  /\ k \in pendingKeys' => polls'[k] # NoEntry
             /\ polls'[k] = Adding => AskedFor(k)'
             /\ polls'[k] \in Ids => PolledFor(k)'
  <2>1. CASE k = q.key
    <3>1. polls'[k] = q.id
      BY <2>1 DEF TrustlineTypeInv
    <3>2. new \in intervals' /\ new.live /\ new.id = polls'[k] /\ new.wallet = currentWallet' /\ new.key = k
      BY <2>1, <3>1
    <3> QED  BY <1>1, <3>1, <3>2, Marks DEF PolledFor
  <2>2. CASE k # q.key
    <3>1. polls'[k] = polls[k]
      BY <2>2 DEF TrustlineTypeInv
    <3>2. polls[k] = Adding => AskedFor(k)'
      BY <2>2 DEF PollInv, AskedFor, Others
    <3>3. polls[k] \in Ids => PolledFor(k)'
      BY <3>1 DEF PollInv, PolledFor
    <3> QED  BY <3>1, <3>2, <3>3 DEF PollInv
  <2> QED  BY <2>1, <2>2
<1>6. PollInv'
  BY <1>5 DEF PollInv
<1> QED  BY <1>3, <1>4, <1>6

\* Whatever a request was for, its answer leaves the map of polls true.
LEMMA AddedInv ==
  ASSUME TrustlineInv, NEW q \in trustlineCalls, added(q)
  PROVE  TrustlineInv'
<1>1. /\ q.kind = "add" /\ trustlineCalls' = Others(q)
      /\ UNCHANGED <<currentWallet, trustlineMoves>>
  BY DEF added
<1>2. CASE addFailed(q.key)
  BY <1>1, <1>2, FinishInv DEF addFailed
<1>3. CASE currentWallet = q.wallet /\ polls[q.key] # NoEntry /\ ~addFailed(q.key)
  BY <1>1, <1>3, StartInv DEF added
<1>4. CASE ~(currentWallet = q.wallet /\ polls[q.key] # NoEntry) /\ ~addFailed(q.key)
  <2>1. UNCHANGED <<polls, intervals, pendingKeys>>
    BY <1>4 DEF added
  <2>2. TrustlineTypeInv' /\ IdInv'
    BY <1>1, <2>1 DEF TrustlineInv, TrustlineTypeInv, IdInv, Others
  <2>3. ASSUME NEW k \in Asset, polls[k] = Adding
        PROVE  AskedFor(k)'
    <3>1. PICK r \in trustlineCalls : r.kind = "add" /\ r.wallet = currentWallet /\ r.key = k
      BY <2>3 DEF TrustlineInv, PollInv, AskedFor
    <3>2. r # q
      BY <1>4, <2>3, <3>1, Marks
    <3> QED  BY <1>1, <3>1, <3>2 DEF AskedFor, Others
  <2>4. PollInv'
    BY <1>1, <2>1, <2>3 DEF TrustlineInv, PollInv, PolledFor
  <2> QED  BY <2>2, <2>4 DEF TrustlineInv
<1> QED  BY <1>2, <1>3, <1>4

LEMMA PolledInv ==
  ASSUME TrustlineInv, NEW q \in trustlineCalls, polled(q)
  PROVE  TrustlineInv'
<1>1. /\ q.kind = "balance" /\ trustlineCalls' = Others(q)
      /\ UNCHANGED <<currentWallet, trustlineMoves>>
  BY DEF polled
<1>2. finish(q.key) \/ UNCHANGED <<intervals, polls, pendingKeys>>
  BY DEF polled
<1>3. CASE finish(q.key)
  BY <1>1, <1>3, FinishInv
<1>4. CASE UNCHANGED <<intervals, polls, pendingKeys>>
  <2>1. TrustlineTypeInv' /\ IdInv'
    BY <1>1, <1>4 DEF TrustlineInv, TrustlineTypeInv, IdInv, Others
  <2>2. \A k \in Asset : AskedFor(k) => AskedFor(k)'
    BY <1>1 DEF AskedFor, Others
  <2>3. PollInv'
    BY <1>1, <1>4, <2>2 DEF TrustlineInv, PollInv, PolledFor
  <2> QED  BY <2>1, <2>3 DEF TrustlineInv
<1> QED  BY <1>2, <1>3, <1>4

LEMMA TickInv ==
  ASSUME TrustlineInv, NEW i \in intervals, Tick(i)
  PROVE  TrustlineInv'
<1> USE DEF TrustlineInv
<1> DEFINE counted == [i EXCEPT !.count = IF i.count < MAX_POLLS THEN i.count + 1 ELSE i.count]
           asked == [kind |-> "balance", wallet |-> i.wallet, key |-> i.key, id |-> i.id]
<1>1. /\ intervals' = (intervals \ {i}) \cup {counted}
      /\ trustlineCalls' = trustlineCalls \cup {asked}
      /\ UNCHANGED <<currentWallet, pendingKeys, polls, trustlineMoves>>
  BY DEF Tick
<1>2. i \in Intervals
  BY DEF TrustlineTypeInv
<1>3. /\ counted \in Intervals
      /\ counted.id = i.id /\ counted.wallet = i.wallet /\ counted.key = i.key
      /\ counted.live = i.live
  BY <1>2, TrustlinesAssumption DEF Intervals
<1>4. asked \in TrustlineCalls /\ asked.kind = "balance" /\ asked.id = i.id
  BY <1>2 DEF Intervals, TrustlineCalls
<1> HIDE DEF counted, asked
<1>5. TrustlineTypeInv'
  BY <1>1, <1>3, <1>4 DEF TrustlineTypeInv
<1>6. IdInv'
  BY <1>1, <1>3, <1>4 DEF IdInv
<1>7. ASSUME NEW k \in Asset
      PROVE  /\ AskedFor(k) => AskedFor(k)'
             /\ PolledFor(k) => PolledFor(k)'
  <2>1. AskedFor(k) => AskedFor(k)'
    BY <1>1 DEF AskedFor
  <2>2. ASSUME PolledFor(k) PROVE PolledFor(k)'
    <3>1. PICK j \in intervals : j.live /\ j.id = polls[k] /\ j.wallet = currentWallet /\ j.key = k
      BY <2>2 DEF PolledFor
    <3>2. CASE j = i
      BY <1>1, <1>3, <3>1, <3>2 DEF PolledFor
    <3>3. CASE j # i
      BY <1>1, <3>1, <3>3 DEF PolledFor
    <3> QED  BY <3>2, <3>3
  <2> QED  BY <2>1, <2>2
<1>8. PollInv'
  BY <1>1, <1>7 DEF PollInv
<1> QED  BY <1>5, <1>6, <1>8

LEMMA AddInv ==
  ASSUME TrustlineInv, NEW k \in Asset, add(k)
  PROVE  TrustlineInv'
<1> USE DEF TrustlineInv
<1> DEFINE new == [kind |-> "add", wallet |-> currentWallet, key |-> k, id |-> trustlineMoves']
<1>1. /\ polls' = [polls EXCEPT ![k] = Adding]
      /\ pendingKeys' = pendingKeys \cup {k}
      /\ trustlineCalls' = trustlineCalls \cup {new}
      /\ UNCHANGED <<currentWallet, intervals>>
      /\ trustlineMoves < TrustlineMoves /\ trustlineMoves' = trustlineMoves + 1
  BY DEF add, TrustlineMove
<1>2. trustlineMoves' \in Ids /\ trustlineMoves' \in 0 .. TrustlineMoves /\ trustlineMoves \in Nat
  BY <1>1, TrustlinesAssumption DEF TrustlineTypeInv, Ids
<1>3. /\ new \in TrustlineCalls /\ new.id = trustlineMoves + 1 /\ new.kind = "add"
      /\ new.wallet = currentWallet /\ new.key = k
  BY <1>1, <1>2 DEF TrustlineCalls, TrustlineTypeInv
<1> HIDE DEF new
<1>4. TrustlineTypeInv'
  BY <1>1, <1>2, <1>3 DEF TrustlineTypeInv
<1>5. IdInv'
  <2>1. \A q \in trustlineCalls : q.id \in Int /\ q.id <= trustlineMoves
    BY TrustlinesAssumption DEF TrustlineTypeInv, TrustlineCalls, Ids, IdInv
  <2>2. \A i \in intervals : i.id \in Int /\ i.id <= trustlineMoves
    BY TrustlinesAssumption DEF TrustlineTypeInv, Intervals, Ids, IdInv
  <2> QED  BY <1>1, <1>2, <1>3, <2>1, <2>2 DEF IdInv
<1>6. PollInv'
  <2> SUFFICES ASSUME NEW j \in Asset
               PROVE  /\ j \in pendingKeys' => polls'[j] # NoEntry
                      /\ polls'[j] = Adding => AskedFor(j)'
                      /\ polls'[j] \in Ids => PolledFor(j)'
    BY DEF PollInv
  <2>1. CASE j = k
    <3>1. polls'[j] = Adding
      BY <1>1, <2>1 DEF TrustlineTypeInv
    <3> QED  BY <1>1, <1>3, <2>1, <3>1, Marks DEF AskedFor
  <2>2. CASE j # k
    <3>1. polls'[j] = polls[j]
      BY <1>1, <2>2 DEF TrustlineTypeInv
    <3> QED  BY <1>1, <2>2, <3>1 DEF PollInv, AskedFor, PolledFor
  <2> QED  BY <2>1, <2>2
<1> QED  BY <1>4, <1>5, <1>6

LEMMA ChooseInv ==
  ASSUME TrustlineInv, NEW w \in Wallet, ChooseWallet(w)
  PROVE  TrustlineInv'
<1> DEFINE ids == {polls[k] : k \in Asset}
<1>1. /\ intervals' = Cleared(ids) /\ trustlineCalls' = trustlineCalls
      /\ currentWallet' = w /\ pendingKeys' = {} /\ polls' = [k \in Asset |-> NoEntry]
      /\ trustlineMoves < TrustlineMoves /\ trustlineMoves' = trustlineMoves + 1
  BY DEF ChooseWallet, TrustlineMove
<1>2. trustlineMoves' \in 0 .. TrustlineMoves /\ trustlineMoves <= trustlineMoves'
  BY <1>1, TrustlinesAssumption DEF TrustlineInv, TrustlineTypeInv
<1> HIDE DEF ids
<1>3. /\ IdInv'
      /\ intervals' \subseteq Intervals
      /\ trustlineCalls' \subseteq TrustlineCalls
  <2>1. TrustlineTypeInv /\ IdInv
    BY DEF TrustlineInv
  <2> QED  BY <1>1, <1>2, <2>1, ClearKeeps
<1>4. TrustlineTypeInv'
  BY <1>1, <1>2, <1>3 DEF TrustlineTypeInv
<1>5. PollInv'
  BY <1>1, Marks DEF PollInv
<1> QED  BY <1>3, <1>4, <1>5 DEF TrustlineInv

LEMMA NextTrustlines ==
  ASSUME TrustlineInv, [TrustlineNext]_trustlineVars
  PROVE  TrustlineInv'
<1>1. ASSUME NEW w \in Wallet, ChooseWallet(w) \/ \E k \in Asset : Confirmed(w, k)
      PROVE  TrustlineInv'
  <2>1. CASE ChooseWallet(w)
    BY <2>1, ChooseInv
  <2>2. ASSUME NEW k \in Asset, Confirmed(w, k)
        PROVE  TrustlineInv'
    BY <2>2 DEF Confirmed, TrustlineInv, TrustlineTypeInv, IdInv, PollInv, AskedFor, PolledFor
  <2> QED  BY <1>1, <2>1, <2>2
<1>2. ASSUME NEW k \in Asset, add(k)
      PROVE  TrustlineInv'
  BY <1>2, AddInv
<1>3. ASSUME NEW q \in trustlineCalls, added(q) \/ polled(q)
      PROVE  TrustlineInv'
  BY <1>3, AddedInv, PolledInv
<1>4. ASSUME NEW i \in intervals, Tick(i)
      PROVE  TrustlineInv'
  BY <1>4, TickInv
<1>5. CASE UNCHANGED trustlineVars
  BY <1>5 DEF trustlineVars, TrustlineInv, TrustlineTypeInv, IdInv, PollInv, AskedFor, PolledFor
<1> QED  BY <1>1, <1>2, <1>3, <1>4, <1>5 DEF TrustlineNext

LEMMA TrustlinesInductive == TrustlineSpec => []TrustlineInv
BY InitTrustlines, NextTrustlines, PTL DEF TrustlineSpec

\* Requests, polls and trustlines keep their type for any number of wallets and assets.
THEOREM TrustlinesTypeCorrect == TrustlineSpec => []TrustlineTypeOK
<1>1. TrustlineInit => trusted \subseteq Wallet \X Asset
  BY DEF TrustlineInit
<1>2. ASSUME TrustlineInv, trusted \subseteq Wallet \X Asset, [TrustlineNext]_trustlineVars
      PROVE  (trusted \subseteq Wallet \X Asset)'
  <2>1. trusted' = trusted \/ \E w \in Wallet, k \in Asset : trusted' = trusted \cup {<<w, k>>}
    BY <1>2 DEF TrustlineNext, trustlineVars, ChooseWallet, add, added, polled, Tick, Confirmed
  <2> QED  BY <1>2, <2>1
<1>3. TrustlineInv /\ trusted \subseteq Wallet \X Asset => TrustlineTypeOK
  BY DEF TrustlineInv, TrustlineTypeInv, TrustlineTypeOK
<1> QED  BY <1>1, <1>2, <1>3, TrustlinesInductive, PTL DEF TrustlineSpec

\* An asset that is shown as pending is asked for or polled for, for the wallet that is shown,
\* for any number of wallets, assets, requests and polls.
THEOREM NothingPendsForgotten == TrustlineSpec => []PendingIsUnderWay
<1>1. TrustlineInv => PendingIsUnderWay
  <2> SUFFICES ASSUME TrustlineInv, NEW k \in pendingKeys
               PROVE  AskedFor(k) \/ PolledFor(k)
    BY DEF PendingIsUnderWay, AskedFor, PolledFor
  <2>1. k \in Asset /\ polls[k] \in {Adding} \cup Ids
    BY DEF TrustlineInv, TrustlineTypeInv, PollInv
  <2> QED  BY <2>1 DEF TrustlineInv, PollInv
<1> QED  BY <1>1, TrustlinesInductive, PTL
------------------------------------------------------------------------------
(* The team card.                                                           *)

\* The type, but for the bound on what the people do.
TeamTypeInv ==
  /\ invites \in [Invite -> Status]
  /\ members \subseteq Email
  /\ card \in [open : BOOLEAN, members : SUBSET Email, invites : SUBSET Invite,
               link : Invite \cup {None}, error : BOOLEAN, busy : BOOLEAN]
  /\ teamCalls \subseteq TeamCalls

\* What a request names.
Named(q) ==
  /\ q.kind \in {"invite", "revoke", "accept", "decline"} => q.of \in Invite
  /\ q.kind \in {"remove", "role"} => q.of \in Email

\* The id of an invite that is still to be made is new, and no other request makes it.
FreshInv ==
  \A q \in teamCalls :
    /\ Named(q)
    /\ q.kind = "invite" /\ q.status \in {"sent", "checked"} =>
         /\ invites[q.of] = "none"
         /\ \A r \in teamCalls : r.kind = "invite" /\ r.of = q.of => r = q

TeamInv == TeamTypeInv /\ FreshInv /\ OneOpenInvite

\* A request as it is sent, and as it is answered, is one of TeamCalls.
LEMMA TeamAskTyped ==
  ASSUME NEW kind \in Kind, NEW of \in Email \cup Invite \cup {None},
         NEW mine \in BOOLEAN, NEW busy \in BOOLEAN
  PROVE  TeamCall(kind, of, mine, busy) \in TeamCalls
BY DEF TeamCall, TeamCalls, Nobody

\* A request keeps its type when its status, its lists or its card change.
LEMMA AnswerTyped ==
  ASSUME TeamTypeInv, NEW q \in TeamCalls, NEW s \in {"sent", "checked", "ok", "lost"},
         NEW is \in SUBSET Invite
  PROVE  /\ [q EXCEPT !.status = s] \in TeamCalls
         /\ [q EXCEPT !.status = s, !.got = Seen(q)] \in TeamCalls
         /\ [q EXCEPT !.status = s, !.got = Nobody] \in TeamCalls
         /\ [q EXCEPT !.status = s, !.got.invites = is] \in TeamCalls
         /\ [q EXCEPT !.mine = FALSE] \in TeamCalls
<1>1. Seen(q) \in [members : SUBSET Email, invites : SUBSET Invite]
  BY DEF TeamTypeInv, Seen
<1>2. Nobody \in [members : SUBSET Email, invites : SUBSET Invite]
  BY DEF Nobody
<1> QED  BY <1>1, <1>2 DEF TeamCalls

\* At first nobody has been invited and nothing is asked.
LEMMA InitTeam == TeamInit => TeamInv
BY DEF TeamInit, TeamInv, TeamTypeInv, FreshInv, OneOpenInvite, CardClosed, Status, TeamCalls

\* Statements of the server keep the type of what it holds.
LEMMA ServerTyped ==
  ASSUME TeamTypeInv
  PROVE  /\ \A i \in Invite :
              (\E is \in SUBSET Invite : CreateInvite(i, is)) \/ RevokeInvite(i) \/ AcceptInvite(i) =>
              invites' \in [Invite -> Status] /\ members' \subseteq Email
         /\ \A p \in Email : RemoveMember(p) =>
              invites' \in [Invite -> Status] /\ members' \subseteq Email
<1> USE DEF TeamTypeInv, Status
<1>1. ASSUME NEW i \in Invite, NEW is \in SUBSET Invite, CreateInvite(i, is)
      PROVE  invites' \in [Invite -> Status] /\ members' \subseteq Email
  BY <1>1 DEF CreateInvite
<1>2. ASSUME NEW i \in Invite, RevokeInvite(i)
      PROVE  invites' \in [Invite -> Status] /\ members' \subseteq Email
  BY <1>2 DEF RevokeInvite, Become
<1>3. ASSUME NEW i \in Invite, AcceptInvite(i)
      PROVE  invites' \in [Invite -> Status] /\ members' \subseteq Email
  BY <1>3, TeamAssumption DEF AcceptInvite, Become
<1>4. ASSUME NEW p \in Email, RemoveMember(p)
      PROVE  invites' \in [Invite -> Status] /\ members' \subseteq Email
  BY <1>4 DEF RemoveMember
<1> QED  BY <1>1, <1>2, <1>3, <1>4

\* What a step does to what the server holds: nothing, or one statement.
Statement ==
  \/ UNCHANGED <<invites, members>>
  \/ \E i \in Invite, is \in SUBSET Invite : invites[i] = "none" /\ CreateInvite(i, is)
  \/ \E i \in Invite : RevokeInvite(i)
  \/ \E i \in Invite : AcceptInvite(i) /\ StillOpen(i)
  \/ \E p \in Email : RemoveMember(p)
  \/ \E i \in Invite : invites[i] = "pending" /\ Become({i}, "expired") /\ UNCHANGED members

\* The only statements are those of ServeTeam and the passing of time, and an invite is made
\* once: the id of CreateInvite is new.
LEMMA OneStatement ==
  ASSUME TeamInv, TeamNext
  PROVE  Statement
<1> USE DEF TeamInv
<1>1. ASSUME NEW q \in teamCalls, ServeTeam(q)
      PROVE  Statement
  <2>1. Named(q)
    BY DEF FreshInv
  <2>2. CASE Look(q) \/ PendingInvites(q)
    BY <2>2 DEF Look, PendingInvites, Statement
  <2>3. ASSUME Change(q), q.status \in {"sent", "checked"}, q.kind = "accept" => q.status = "checked"
        PROVE  Statement
    <3>1. q.kind = "invite" => q.of \in Invite /\ invites[q.of] = "none"
      BY <2>1, <2>3 DEF Named, FreshInv
    <3>2. q.kind \in {"accept", "decline", "revoke"} => q.of \in Invite
      BY <2>1 DEF Named
    <3>3. q.kind = "remove" => q.of \in Email
      BY <2>1 DEF Named
    <3>4. CASE q.kind = "invite" /\ CreateInvite(q.of, q.got.invites)
      <4>1. q.got.invites \in SUBSET Invite
        BY DEF TeamTypeInv, TeamCalls
      <4> QED  BY <3>1, <3>4, <4>1 DEF Statement
    <3>5. CASE q.kind = "accept" /\ AcceptInvite(q.of) /\ q.status = "checked"
      BY <3>2, <3>5 DEF Statement, AcceptInvite, StillOpen
    <3>6. CASE q.kind \in {"decline", "revoke"} /\ RevokeInvite(q.of)
      BY <3>2, <3>6 DEF Statement
    <3>7. CASE q.kind = "remove" /\ RemoveMember(q.of)
      BY <3>3, <3>7 DEF Statement
    <3>8. CASE UNCHANGED <<invites, members>>
      BY <3>8 DEF Statement
    <3> QED  BY <2>3, <3>4, <3>5, <3>6, <3>7, <3>8 DEF Change
  <2> QED  BY <1>1, <2>2, <2>3 DEF ServeTeam
<1>2. ASSUME NEW q \in teamCalls, ReachesCard(q)
      PROVE  Statement
  BY <1>2 DEF ReachesCard, Statement
<1>3. CASE OpenSettings \/ LeaveSettings
  BY <1>3 DEF OpenSettings, LeaveSettings, TeamMove, Statement
<1>4. ASSUME NEW kind \in Kind, NEW of \in Email \cup Invite, Choose(kind, of) \/ OthersChoose(kind, of)
      PROVE  Statement
  BY <1>4 DEF Choose, OthersChoose, TeamMove, Statement
<1>5. ASSUME NEW i \in Invite, Expire(i)
      PROVE  Statement
  BY <1>5 DEF Expire, Statement
<1> QED  BY <1>1, <1>2, <1>3, <1>4, <1>5 DEF TeamNext

\* A statement keeps the type of what the server holds.
LEMMA StatementTyped ==
  ASSUME TeamTypeInv, Statement
  PROVE  invites' \in [Invite -> Status] /\ members' \subseteq Email
<1>1. ASSUME NEW i \in Invite, Become({i}, "expired"), UNCHANGED members
      PROVE  invites' \in [Invite -> Status] /\ members' \subseteq Email
  BY <1>1 DEF TeamTypeInv, Become, Status
<1>2. CASE UNCHANGED <<invites, members>>
  BY <1>2 DEF TeamTypeInv
<1> QED  BY <1>1, <1>2, ServerTyped DEF Statement

\* Nobody looks at an invite that is over: an acceptance that has looked had done so before,
\* unless the invite is open.
LEMMA NoLateLook ==
  ASSUME TeamInv, TeamNext, NEW c \in teamCalls', c.kind = "accept", c.status = "checked"
  PROVE  \/ invites[c.of] = "pending" /\ UNCHANGED invites
         \/ \E q \in teamCalls : q.kind = "accept" /\ q.of = c.of /\ q.status = "checked"
<1> USE DEF TeamInv
<1>0. \A q \in teamCalls : q \in TeamCalls
  BY DEF TeamTypeInv
<1>1. ASSUME NEW q \in teamCalls, ServeTeam(q)
      PROVE  \/ c \in teamCalls
             \/ invites[c.of] = "pending" /\ UNCHANGED invites
  <2>1. CASE Look(q)
    <3> DEFINE r0 == [q EXCEPT !.status = "checked", !.got = Seen(q)]
    <3>1. teamCalls' = (teamCalls \ {q}) \cup {r0}
      BY <2>1 DEF Look, Answered
    <3>2. r0.kind = q.kind /\ r0.of = q.of
      BY <1>0 DEF TeamCalls
    <3> HIDE DEF r0
    <3>3. c \in teamCalls \/ (c.kind = q.kind /\ c.of = q.of)
      BY <3>1, <3>2
    <3> QED  BY <2>1, <3>3 DEF Look
  <2>2. CASE PendingInvites(q)
    <3> DEFINE r0 == [q EXCEPT !.status = "ok", !.got.invites = {i \in Invite : invites[i] = "pending"}]
    <3>1. r0.kind = "load"
      BY <1>0, <2>2 DEF PendingInvites, TeamCalls
    <3>2. teamCalls' = (teamCalls \ {q}) \cup {r0}
      BY <2>2 DEF PendingInvites, Answered
    <3> HIDE DEF r0
    <3> QED  BY <3>1, <3>2
  <2>3. CASE Change(q)
    <3>1. PICK s \in {"ok", "lost"} : Answered(q, [q EXCEPT !.status = s, !.got = Nobody])
      BY <2>3 DEF Change
    <3> DEFINE r0 == [q EXCEPT !.status = s, !.got = Nobody]
    <3>2. r0.status = s
      BY <1>0 DEF TeamCalls
    <3>3. teamCalls' = (teamCalls \ {q}) \cup {r0}
      BY <3>1 DEF Answered
    <3> HIDE DEF r0
    <3> QED  BY <3>2, <3>3
  <2> QED  BY <1>1, <2>1, <2>2, <2>3 DEF ServeTeam
<1>2. ASSUME NEW call, call.status = "sent", teamCalls' \subseteq teamCalls \cup {call}
      PROVE  c \in teamCalls
  BY <1>2
<1>3. ASSUME NEW q \in teamCalls, ReachesCard(q)
      PROVE  c \in teamCalls
  <2>1. TeamCall("load", None, TRUE, TRUE).status = "sent"
    BY DEF TeamCall
  <2>2. teamCalls' \subseteq teamCalls \cup {TeamCall("load", None, TRUE, TRUE)}
    BY <1>3 DEF ReachesCard, load, run, runFailed, Elsewhere, OtherCalls
  <2> QED  BY <1>2, <2>1, <2>2
<1>4. CASE OpenSettings
  <2>1. TeamCall("load", None, TRUE, FALSE).status = "sent"
    BY DEF TeamCall
  <2> QED  BY <1>2, <1>4, <2>1 DEF OpenSettings
<1>5. CASE LeaveSettings
  <2>1. \A q \in teamCalls : /\ [q EXCEPT !.mine = FALSE].kind = q.kind
                             /\ [q EXCEPT !.mine = FALSE].of = q.of
                             /\ [q EXCEPT !.mine = FALSE].status = q.status
    BY <1>0 DEF TeamCalls
  <2>2. PICK q \in teamCalls : c = [q EXCEPT !.mine = FALSE]
    BY <1>5 DEF LeaveSettings
  <2>3. q.kind = "accept" /\ q.of = c.of /\ q.status = "checked"
    BY <2>1, <2>2
  <2> QED  BY <2>3
<1>6. ASSUME NEW kind \in Kind, NEW of \in Email \cup Invite, Choose(kind, of) \/ OthersChoose(kind, of)
      PROVE  c \in teamCalls
  <2>1. TeamCall(kind, of, TRUE, TRUE).status = "sent" /\ TeamCall(kind, of, FALSE, FALSE).status = "sent"
    BY DEF TeamCall
  <2>2. CASE Choose(kind, of)
    BY <1>2, <2>1, <2>2 DEF Choose
  <2>3. CASE OthersChoose(kind, of)
    BY <1>2, <2>1, <2>3 DEF OthersChoose
  <2> QED  BY <1>6, <2>2, <2>3
<1>7. ASSUME NEW i \in Invite, Expire(i)
      PROVE  c \in teamCalls
  BY <1>7 DEF Expire
<1> QED  BY <1>1, <1>3, <1>4, <1>5, <1>6, <1>7 DEF TeamNext

\* What InviteWorksOnce says of one step.
WorksOnceStep ==
  /\ \A p \in members' \ members :
       \E i \in InvitesTo(p) : StillOpen(i) /\ invites'[i] = "accepted"
  /\ \A i \in Invite : Over(i) => Over(i)'
  /\ OneOpenInvite'

\* Every statement lets nobody in but by an open invite and opens none that is over.
LEMMA StatementWorksOnce ==
  ASSUME TeamTypeInv, OneOpenInvite, Statement
  PROVE  /\ \A p \in members' \ members :
              \E i \in InvitesTo(p) : StillOpen(i) /\ invites'[i] = "accepted"
         /\ \A i \in Invite : Over(i) => invites'[i] = invites[i] \/ invites'[i] = "revoked"
         /\ OneOpenInvite'
<1> DEFINE Goal == /\ \A p \in members' \ members :
                        \E i \in InvitesTo(p) : StillOpen(i) /\ invites'[i] = "accepted"
                   /\ \A i \in Invite : Over(i) => invites'[i] = invites[i] \/ invites'[i] = "revoked"
                   /\ OneOpenInvite'
<1> USE DEF TeamTypeInv
<1>1. CASE UNCHANGED <<invites, members>>
  BY <1>1 DEF OneOpenInvite
<1>2. ASSUME NEW i \in Invite, NEW is \in SUBSET Invite, invites[i] = "none", CreateInvite(i, is)
      PROVE  Goal
  <2>1. PICK outdated \in SUBSET is :
          \A j \in Invite : invites'[j] = IF j = i THEN "pending"
                            ELSE IF InviteEmail[j] = InviteEmail[i]
                                    /\ (invites[j] = "pending" \/ (invites[j] = "expired" /\ j \in outdated))
                            THEN "revoked" ELSE invites[j]
    BY <1>2 DEF CreateInvite, InvitesTo
  <2>2. OneOpenInvite'
    BY <2>1 DEF OneOpenInvite
  <2>3. \A j \in Invite : Over(j) => invites'[j] = invites[j] \/ invites'[j] = "revoked"
    BY <1>2, <2>1 DEF Over, Closed
  <2> QED  BY <1>2, <2>2, <2>3 DEF CreateInvite
<1>3. ASSUME NEW i \in Invite, RevokeInvite(i)
      PROVE  Goal
  BY <1>3 DEF RevokeInvite, Become, OneOpenInvite
<1>4. ASSUME NEW i \in Invite, AcceptInvite(i), StillOpen(i)
      PROVE  Goal
  <2>1. \A j \in Invite : invites'[j] = IF j = i THEN "accepted" ELSE invites[j]
    BY <1>4 DEF AcceptInvite, Become
  <2>2. i \in InvitesTo(InviteEmail[i])
    BY DEF InvitesTo
  <2>3. \A p \in members' \ members : p = InviteEmail[i]
    BY <1>4 DEF AcceptInvite
  <2>4. ~Over(i)
    BY <1>4 DEF Over
  <2>5. OneOpenInvite'
    BY <2>1 DEF OneOpenInvite
  <2> QED  BY <1>4, <2>1, <2>2, <2>3, <2>4, <2>5
<1>5. ASSUME NEW p \in Email, RemoveMember(p)
      PROVE  Goal
  BY <1>5 DEF RemoveMember, OneOpenInvite
<1>6. ASSUME NEW i \in Invite, invites[i] = "pending", Become({i}, "expired"), UNCHANGED members
      PROVE  Goal
  <2>1. ~Over(i)
    BY <1>6 DEF Over, Closed
  <2> QED  BY <1>6, <2>1 DEF Become, OneOpenInvite
<1> QED  BY <1>1, <1>2, <1>3, <1>4, <1>5, <1>6 DEF Statement

\* An invite that is over stays so.
LEMMA StepWorksOnce ==
  ASSUME TeamInv, TeamNext
  PROVE  WorksOnceStep
<1>1. /\ \A p \in members' \ members :
           \E i \in InvitesTo(p) : StillOpen(i) /\ invites'[i] = "accepted"
      /\ \A i \in Invite : Over(i) => invites'[i] = invites[i] \/ invites'[i] = "revoked"
      /\ OneOpenInvite'
  BY OneStatement, StatementWorksOnce DEF TeamInv
<1>2. ASSUME NEW i \in Invite, Over(i)
      PROVE  Over(i)'
  <2>1. CASE invites'[i] = "revoked"
    BY <2>1 DEF Over, StillOpen, Closed
  <2>2. CASE invites'[i] = invites[i]
    <3>1. invites[i] \in Closed /\ invites[i] # "pending"
      BY <1>2 DEF Over, Closed
    <3>2. ASSUME invites[i] = "expired", NEW c \in teamCalls', c.kind = "accept", c.of = i,
                 c.status = "checked"
          PROVE  FALSE
      <4>1. \E q \in teamCalls : q.kind = "accept" /\ q.of = i /\ q.status = "checked"
        BY <3>1, <3>2, NoLateLook
      <4> QED  BY <1>2, <3>2, <4>1 DEF Over, StillOpen
    <3>3. ~StillOpen(i)'
      BY <2>2, <3>1, <3>2 DEF StillOpen
    <3> QED  BY <2>2, <3>1, <3>3 DEF Over
  <2> QED  BY <1>1, <1>2, <2>1, <2>2
<1> QED  BY <1>1, <1>2 DEF WorksOnceStep

\* Steps of the card and of the people keep the types of the card and of the requests.
LEMMA StepTyped ==
  ASSUME TeamInv, TeamNext
  PROVE  TeamTypeInv'
<1> USE DEF TeamInv
<1>1. invites' \in [Invite -> Status] /\ members' \subseteq Email
  BY OneStatement, StatementTyped
<1>2. ASSUME NEW q \in teamCalls, ServeTeam(q)
      PROVE  TeamTypeInv'
  <2>1. q \in TeamCalls
    BY DEF TeamTypeInv
  <2>2. \A s \in {"ok", "lost"} : [q EXCEPT !.status = s, !.got = Nobody] \in TeamCalls
    BY <2>1, AnswerTyped
  <2>3. CASE Look(q)
    <3>1. [q EXCEPT !.status = "checked", !.got = Seen(q)] \in TeamCalls
      BY <2>1, AnswerTyped
    <3> QED  BY <1>1, <1>2, <2>3, <3>1 DEF Look, Answered, ServeTeam, TeamTypeInv
  <2>4. CASE PendingInvites(q)
    <3>1. [q EXCEPT !.status = "ok", !.got.invites = {i \in Invite : invites[i] = "pending"}]
            \in TeamCalls
      BY <2>1, AnswerTyped
    <3> QED  BY <1>1, <1>2, <2>4, <3>1 DEF PendingInvites, Answered, ServeTeam, TeamTypeInv
  <2>5. CASE Change(q)
    BY <1>1, <1>2, <2>2, <2>5 DEF Change, Answered, ServeTeam, TeamTypeInv
  <2> QED  BY <1>2, <2>3, <2>4, <2>5 DEF ServeTeam
<1>3. ASSUME NEW q \in teamCalls, ReachesCard(q)
      PROVE  TeamTypeInv'
  <2>1. q \in TeamCalls
    BY DEF TeamTypeInv
  <2>2. TeamCall("load", None, TRUE, TRUE) \in TeamCalls
    BY TeamAskTyped DEF Kind
  <2>3. teamCalls' \subseteq TeamCalls
    BY <1>3, <2>2 DEF ReachesCard, load, run, runFailed, Elsewhere, OtherCalls, TeamTypeInv
  <2>4. CASE load(q)
    BY <1>1, <2>1, <2>3, <2>4 DEF load, TeamTypeInv, TeamCalls
  <2>5. CASE run(q)
    <3>1. q.kind = "invite" => q.of \in Invite
      BY DEF FreshInv, Named
    <3>2. LinkAfter(q) \in Invite \cup {None}
      BY <3>1 DEF LinkAfter, TeamTypeInv
    <3> QED  BY <1>1, <2>3, <2>5, <3>2 DEF run, TeamTypeInv
  <2>6. CASE runFailed(q)
    BY <1>1, <2>3, <2>6 DEF runFailed, TeamTypeInv
  <2>7. CASE Elsewhere(q)
    BY <1>1, <2>3, <2>7 DEF Elsewhere, TeamTypeInv
  <2> QED  BY <1>3, <2>4, <2>5, <2>6, <2>7 DEF ReachesCard
<1>4. CASE OpenSettings
  <2>1. TeamCall("load", None, TRUE, FALSE) \in TeamCalls
    BY TeamAskTyped DEF Kind
  <2> QED  BY <1>1, <1>4, <2>1 DEF OpenSettings, CardClosed, TeamTypeInv
<1>5. CASE LeaveSettings
  <2>1. ASSUME NEW q \in teamCalls
        PROVE  [q EXCEPT !.mine = FALSE] \in TeamCalls
    <3>1. q \in TeamCalls
      BY DEF TeamTypeInv
    <3> QED  BY <3>1 DEF TeamCalls
  <2> QED  BY <1>1, <1>5, <2>1 DEF LeaveSettings, CardClosed, TeamTypeInv
<1>6. ASSUME NEW kind \in Kind, NEW of \in Email \cup Invite, Choose(kind, of)
      PROVE  TeamTypeInv'
  <2>1. TeamCall(kind, of, TRUE, TRUE) \in TeamCalls
    BY TeamAskTyped
  <2> QED  BY <1>1, <1>6, <2>1 DEF Choose, TeamTypeInv
<1>7. ASSUME NEW kind \in Kind, NEW of \in Email \cup Invite, OthersChoose(kind, of)
      PROVE  TeamTypeInv'
  <2>1. TeamCall(kind, of, FALSE, FALSE) \in TeamCalls
    BY TeamAskTyped
  <2> QED  BY <1>1, <1>7, <2>1 DEF OthersChoose, TeamTypeInv
<1>8. ASSUME NEW i \in Invite, Expire(i)
      PROVE  TeamTypeInv'
  BY <1>1, <1>8 DEF Expire, TeamTypeInv
<1> QED  BY <1>2, <1>3, <1>4, <1>5, <1>6, <1>7, <1>8 DEF TeamNext

\* No statement but CreateInvite touches an invite that is still to be made.
LEMMA FreshStays ==
  ASSUME TeamTypeInv, NEW i \in Invite, invites[i] = "none",
         \/ UNCHANGED invites
         \/ \E j \in Invite, is \in SUBSET Invite : j # i /\ CreateInvite(j, is)
         \/ \E j \in Invite : RevokeInvite(j) \/ AcceptInvite(j)
         \/ \E j \in Invite : invites[j] = "pending" /\ Become({j}, "expired")
  PROVE  invites'[i] = "none"
BY DEF TeamTypeInv, CreateInvite, RevokeInvite, AcceptInvite, Become

\* The request that is answered is the only one that could make its invite.
LEMMA ServeFresh ==
  ASSUME TeamInv, NEW q \in teamCalls, ServeTeam(q)
  PROVE  FreshInv'
<1> USE DEF TeamInv
<1>1. PICK r : /\ teamCalls' = (teamCalls \ {q}) \cup {r}
               /\ r.kind = q.kind /\ r.of = q.of
               /\ r.status \in {"sent", "checked"} =>
                    q.status \in {"sent", "checked"} /\ UNCHANGED <<invites, members>>
  <2>1. q \in TeamCalls
    BY DEF TeamTypeInv
  <2>2. CASE Look(q)
    <3> DEFINE r0 == [q EXCEPT !.status = "checked", !.got = Seen(q)]
    <3>1. r0.kind = q.kind /\ r0.of = q.of
      BY <2>1 DEF TeamCalls
    <3>2. teamCalls' = (teamCalls \ {q}) \cup {r0}
      BY <2>2 DEF Look, Answered
    <3>3. q.status \in {"sent", "checked"} /\ UNCHANGED <<invites, members>>
      BY <2>2 DEF Look
    <3> HIDE DEF r0
    <3> QED  BY <3>1, <3>2, <3>3
  <2>3. CASE PendingInvites(q)
    <3> DEFINE r0 == [q EXCEPT !.status = "ok", !.got.invites = {i \in Invite : invites[i] = "pending"}]
    <3>1. r0.kind = q.kind /\ r0.of = q.of /\ r0.status = "ok"
      BY <2>1 DEF TeamCalls
    <3>2. teamCalls' = (teamCalls \ {q}) \cup {r0}
      BY <2>3 DEF PendingInvites, Answered
    <3> HIDE DEF r0
    <3> QED  BY <3>1, <3>2
  <2>4. CASE Change(q)
    <3>1. PICK s \in {"ok", "lost"} : Answered(q, [q EXCEPT !.status = s, !.got = Nobody])
      BY <2>4 DEF Change
    <3> DEFINE r0 == [q EXCEPT !.status = s, !.got = Nobody]
    <3>2. r0.kind = q.kind /\ r0.of = q.of /\ r0.status \notin {"sent", "checked"}
      BY <2>1 DEF TeamCalls
    <3>3. teamCalls' = (teamCalls \ {q}) \cup {r0}
      BY <3>1 DEF Answered
    <3> HIDE DEF r0
    <3> QED  BY <3>2, <3>3
  <2> QED  BY <2>2, <2>3, <2>4 DEF ServeTeam
<1>2. ASSUME NEW c \in teamCalls, c # q, c.kind = "invite", c.status \in {"sent", "checked"}
      PROVE  invites'[c.of] = "none" /\ ~(q.kind = "invite" /\ q.of = c.of)
  <2>1. c.of \in Invite /\ invites[c.of] = "none"
    BY <1>2 DEF FreshInv, Named
  <2>2. ~(q.kind = "invite" /\ q.of = c.of)
    BY <1>2 DEF FreshInv
  <2>3. Named(q)
    BY DEF FreshInv
  <2>4. CASE Look(q) \/ PendingInvites(q)
    BY <2>1, <2>2, <2>4 DEF Look, PendingInvites
  <2>5. CASE Change(q)
    <3>1. \/ UNCHANGED invites
          \/ \E j \in Invite, is \in SUBSET Invite : j # c.of /\ CreateInvite(j, is)
          \/ \E j \in Invite : RevokeInvite(j) \/ AcceptInvite(j)
      <4>1. q.got.invites \in SUBSET Invite
        BY DEF TeamTypeInv, TeamCalls
      <4> QED  BY <2>2, <2>3, <2>5, <4>1 DEF Change, Named, RemoveMember
    <3> QED  BY <2>1, <2>2, <3>1, FreshStays
  <2> QED  BY <2>4, <2>5, ServeTeam(q) DEF ServeTeam
<1>3. ASSUME NEW c \in teamCalls'
      PROVE  Named(c)
  BY <1>1, <1>3 DEF FreshInv, Named
<1>4. ASSUME NEW c \in teamCalls', c.kind = "invite", c.status \in {"sent", "checked"}
      PROVE  invites'[c.of] = "none" /\ \A d \in teamCalls' : d.kind = "invite" /\ d.of = c.of => d = c
  <2>1. CASE c \in teamCalls /\ c # q
    BY <1>1, <1>2, <1>4, <2>1 DEF FreshInv
  <2>2. CASE c = r
    BY <1>1, <1>4, <2>2 DEF FreshInv
  <2> QED  BY <1>1, <1>4, <2>1, <2>2
<1> QED  BY <1>3, <1>4 DEF FreshInv, Named

\* An owner asks for what their list shows, and makes an invite with a new id.
LEMMA ChosenFresh ==
  ASSUME TeamInv, NEW kind \in Kind, NEW of \in Email \cup Invite, NEW ms \in SUBSET Email,
         NEW is \in SUBSET Invite, NEW mine, NEW busy, UNCHANGED invites,
         \/ OwnersChoice(kind, of, ms, is)
         \/ kind \in {"accept", "decline"} /\ of \in Invite,
         teamCalls' = teamCalls \cup {TeamCall(kind, of, mine, busy)}
  PROVE  FreshInv'
<1> DEFINE call == TeamCall(kind, of, mine, busy)
<1>1. call.kind = kind /\ call.of = of
  BY DEF TeamCall
<1>2. Named(call)
  BY <1>1 DEF Named, OwnersChoice
<1>3. kind = "invite" => invites[of] = "none" /\ \A q \in teamCalls : q.of # of
  BY DEF OwnersChoice, Fresh
<1>4. teamCalls' = teamCalls \cup {call}
  OBVIOUS
<1> HIDE DEF call
<1> QED  BY <1>1, <1>2, <1>3, <1>4 DEF TeamInv, FreshInv, Named

\* An invite that is still to be made stays so until its one request is served.
LEMMA StepFresh ==
  ASSUME TeamInv, TeamNext
  PROVE  FreshInv'
<1> USE DEF TeamInv
<1>1. ASSUME NEW q \in teamCalls, ServeTeam(q)
      PROVE  FreshInv'
  BY <1>1, ServeFresh
<1>2. ASSUME UNCHANGED invites, NEW call, call.kind = "load", teamCalls' \subseteq teamCalls \cup {call}
      PROVE  FreshInv'
  BY <1>2 DEF FreshInv, Named
<1>3. ASSUME NEW q \in teamCalls, ReachesCard(q)
      PROVE  FreshInv'
  <2>1. TeamCall("load", None, TRUE, TRUE).kind = "load"
    BY DEF TeamCall
  <2>2. teamCalls' \subseteq teamCalls \cup {TeamCall("load", None, TRUE, TRUE)} /\ UNCHANGED invites
    BY <1>3 DEF ReachesCard, load, run, runFailed, Elsewhere, OtherCalls
  <2> QED  BY <1>2, <2>1, <2>2
<1>4. CASE OpenSettings
  <2>1. TeamCall("load", None, TRUE, FALSE).kind = "load"
    BY DEF TeamCall
  <2> QED  BY <1>2, <1>4, <2>1 DEF OpenSettings, TeamMove
<1>5. CASE LeaveSettings
  <2>1. \A q \in teamCalls : /\ [q EXCEPT !.mine = FALSE].kind = q.kind
                             /\ [q EXCEPT !.mine = FALSE].of = q.of
                             /\ [q EXCEPT !.mine = FALSE].status = q.status
    BY DEF TeamTypeInv, TeamCalls
  <2>2. \A c \in teamCalls' : \E q \in teamCalls :
          /\ c = [q EXCEPT !.mine = FALSE]
          /\ c.kind = q.kind /\ c.of = q.of /\ c.status = q.status
    BY <1>5, <2>1 DEF LeaveSettings
  <2>3. UNCHANGED invites
    BY <1>5 DEF LeaveSettings, TeamMove
  <2>4. ASSUME NEW c \in teamCalls'
        PROVE  Named(c)
    BY <2>2, <2>4 DEF FreshInv, Named
  <2>5. ASSUME NEW c \in teamCalls', c.kind = "invite", c.status \in {"sent", "checked"}
        PROVE  invites'[c.of] = "none" /\ \A d \in teamCalls' : d.kind = "invite" /\ d.of = c.of => d = c
    <3>1. PICK q \in teamCalls : /\ c = [q EXCEPT !.mine = FALSE]
                                 /\ c.kind = q.kind /\ c.of = q.of /\ c.status = q.status
      BY <2>2, <2>5
    <3>2. \A d \in teamCalls' : d.kind = "invite" /\ d.of = c.of => d = c
      BY <2>2, <2>5, <3>1 DEF FreshInv
    <3> QED  BY <2>3, <2>5, <3>1, <3>2 DEF FreshInv
  <2> QED  BY <2>4, <2>5 DEF FreshInv
<1>6. ASSUME NEW kind \in Kind, NEW of \in Email \cup Invite, Choose(kind, of)
      PROVE  FreshInv'
  <2>1. card.members \in SUBSET Email /\ card.invites \in SUBSET Invite
    BY DEF TeamTypeInv
  <2> QED  BY <1>6, <2>1, ChosenFresh DEF Choose, TeamMove
<1>7. ASSUME NEW kind \in Kind, NEW of \in Email \cup Invite, OthersChoose(kind, of)
      PROVE  FreshInv'
  <2>1. members \in SUBSET Email /\ {i \in Invite : invites[i] = "pending"} \in SUBSET Invite
    BY DEF TeamTypeInv
  <2> QED  BY <1>7, <2>1, ChosenFresh DEF OthersChoose, TeamMove
<1>8. ASSUME NEW i \in Invite, Expire(i)
      PROVE  FreshInv'
  <2>1. \A q \in teamCalls : q.kind = "invite" /\ q.status \in {"sent", "checked"} => invites'[q.of] = "none"
    BY <1>8, FreshStays DEF FreshInv, Named, Expire
  <2> QED  BY <1>8, <2>1 DEF Expire, FreshInv, Named
<1> QED  BY <1>1, <1>3, <1>4, <1>5, <1>6, <1>7, <1>8 DEF TeamNext
------------------------------------------------------------------------------
LEMMA NextTeam == ASSUME TeamInv, [TeamNext]_teamVars PROVE TeamInv'
<1>1. CASE TeamNext
  BY <1>1, StepTyped, StepFresh, StepWorksOnce DEF TeamInv, WorksOnceStep
<1>2. CASE UNCHANGED teamVars
  BY <1>2 DEF teamVars, TeamInv, TeamTypeInv, FreshInv, Named, OneOpenInvite
<1> QED  BY <1>1, <1>2

LEMMA TeamInductive == TeamSpec => []TeamInv
BY InitTeam, NextTeam, PTL DEF TeamSpec

\* Team keeps its type for any number of addresses, invites, requests and moves.
THEOREM TeamTypeCorrect == TeamSpec => []TeamTypeOK
<1>1. TeamInit => TeamTypeOK
  BY TeamAssumption DEF TeamInit, TeamTypeOK, CardClosed, Status, TeamCalls
<1>2. ASSUME TeamTypeOK, TeamInv', [TeamNext]_teamVars
      PROVE  TeamTypeOK'
  <2>1. teamMoves' = teamMoves \/ TeamMove
    BY <1>2 DEF TeamNext, teamVars, ServeTeam, ReachesCard, OpenSettings, LeaveSettings, Choose, OthersChoose, Expire
  <2>2. teamMoves' \in 0 .. TeamMoves
    BY <1>2, <2>1, TeamAssumption DEF TeamTypeOK, TeamMove
  <2> QED  BY <1>2, <2>2 DEF TeamInv, TeamTypeInv, TeamTypeOK
<1> QED  BY <1>1, <1>2, TeamInductive, PTL DEF TeamSpec

\* Whoever joins does so through an invite that is open at that step or that expired since the
\* handler looked; one that is over never lets anyone in again; and of the invites to one
\* address one at most is open.
THEOREM WorksOnce == TeamSpec => InviteWorksOnce
<1>1. ASSUME TeamInv, [TeamNext]_teamVars
      PROVE  [WorksOnceStep]_teamVars
  BY <1>1, StepWorksOnce
<1>2. [][WorksOnceStep]_teamVars => InviteWorksOnce
  BY PTL DEF WorksOnceStep, InviteWorksOnce
<1> QED  BY <1>1, <1>2, TeamInductive, PTL DEF TeamSpec
------------------------------------------------------------------------------
(* The buttons of the card.                                                 *)

Waiting(q) == q.mine /\ q.run

\* A busy card waits for one request and an idle one for none; a change that the card asked
\* for always keeps its buttons waiting, and a card that was left has no request of its own.
BusyInv ==
  /\ card.busy => \E q \in teamCalls : Waiting(q) /\ \A c \in teamCalls : Waiting(c) => c = q
  /\ ~card.busy => \A q \in teamCalls : ~Waiting(q)
  /\ \A q \in teamCalls : q.mine => card.open /\ (q.kind = "load" \/ q.run)

\* An answer of the server does not change who waits for it.
LEMMA ServeKeepsBusy ==
  ASSUME TeamInv, BusyInv, NEW q \in teamCalls, ServeTeam(q)
  PROVE  BusyInv'
<1>1. PICK r : /\ teamCalls' = (teamCalls \ {q}) \cup {r}
               /\ r.kind = q.kind /\ r.mine = q.mine /\ r.run = q.run
  <2>1. q \in TeamCalls
    BY DEF TeamInv, TeamTypeInv
  <2>2. CASE Look(q)
    <3> DEFINE r0 == [q EXCEPT !.status = "checked", !.got = Seen(q)]
    <3>1. r0.kind = q.kind /\ r0.mine = q.mine /\ r0.run = q.run
      BY <2>1 DEF TeamCalls
    <3>2. teamCalls' = (teamCalls \ {q}) \cup {r0}
      BY <2>2 DEF Look, Answered
    <3> HIDE DEF r0
    <3> QED  BY <3>1, <3>2
  <2>3. CASE PendingInvites(q)
    <3> DEFINE r0 == [q EXCEPT !.status = "ok", !.got.invites = {i \in Invite : invites[i] = "pending"}]
    <3>1. r0.kind = q.kind /\ r0.mine = q.mine /\ r0.run = q.run
      BY <2>1 DEF TeamCalls
    <3>2. teamCalls' = (teamCalls \ {q}) \cup {r0}
      BY <2>3 DEF PendingInvites, Answered
    <3> HIDE DEF r0
    <3> QED  BY <3>1, <3>2
  <2>4. CASE Change(q)
    <3>1. PICK s \in {"ok", "lost"} : Answered(q, [q EXCEPT !.status = s, !.got = Nobody])
      BY <2>4 DEF Change
    <3> DEFINE r0 == [q EXCEPT !.status = s, !.got = Nobody]
    <3>2. r0.kind = q.kind /\ r0.mine = q.mine /\ r0.run = q.run
      BY <2>1 DEF TeamCalls
    <3>3. teamCalls' = (teamCalls \ {q}) \cup {r0}
      BY <3>1 DEF Answered
    <3> HIDE DEF r0
    <3> QED  BY <3>2, <3>3
  <2> QED  BY <2>2, <2>3, <2>4 DEF ServeTeam
<1>2. UNCHANGED card
  BY DEF ServeTeam
<1> QED  BY <1>1, <1>2 DEF BusyInv, Waiting

\* What reaches the card ends the wait, or hands it to the load after the change.
LEMMA ArrivalKeepsBusy ==
  ASSUME TeamInv, BusyInv, NEW q \in teamCalls, ReachesCard(q)
  PROVE  BusyInv'
<1>0. /\ q.mine \in BOOLEAN /\ q.run \in BOOLEAN
      /\ card \in [open : BOOLEAN, members : SUBSET Email, invites : SUBSET Invite,
                   link : Invite \cup {None}, error : BOOLEAN, busy : BOOLEAN]
  BY DEF TeamInv, TeamTypeInv, TeamCalls
<1>1. CASE load(q)
  <2>1. card'.open = card.open /\ card'.busy = (card.busy /\ ~q.run)
    BY <1>0, <1>1 DEF load
  <2>2. teamCalls' = teamCalls \ {q} /\ q.mine
    BY <1>1 DEF load, OtherCalls
  <2>3. CASE q.run
    BY <2>1, <2>2, <2>3 DEF BusyInv, Waiting
  <2>4. CASE ~q.run
    <3>1. card'.busy = card.busy
      BY <1>0, <2>1, <2>4
    <3> QED  BY <2>1, <2>2, <2>4, <3>1 DEF BusyInv, Waiting
  <2> QED  BY <2>3, <2>4
<1>2. CASE run(q)
  <2> DEFINE again == TeamCall("load", None, TRUE, TRUE)
  <2>1. card'.open = card.open /\ card'.busy = card.busy
    BY <1>0, <1>2 DEF run
  <2>2. again.kind = "load" /\ again.mine /\ again.run
    BY DEF TeamCall
  <2>3. teamCalls' = (teamCalls \ {q}) \cup {again} /\ Waiting(q)
    BY <1>2 DEF run, OtherCalls, BusyInv, Waiting
  <2> HIDE DEF again
  <2>4. card.busy /\ card.open /\ \A c \in teamCalls : Waiting(c) => c = q
    BY <2>3 DEF BusyInv, Waiting
  <2>5. \A c \in teamCalls' : Waiting(c) <=> c = again
    BY <2>2, <2>3, <2>4 DEF Waiting
  <2>6. again \in teamCalls'
    BY <2>3
  <2> QED  BY <2>1, <2>2, <2>3, <2>4, <2>5, <2>6 DEF BusyInv, Waiting
<1>3. CASE runFailed(q)
  <2>1. card'.open = card.open /\ ~card'.busy
    BY <1>0, <1>3 DEF runFailed
  <2>2. teamCalls' = teamCalls \ {q} /\ Waiting(q)
    BY <1>3 DEF runFailed, OtherCalls, BusyInv, Waiting
  <2> QED  BY <2>1, <2>2 DEF BusyInv, Waiting
<1>4. CASE Elsewhere(q)
  BY <1>4 DEF Elsewhere, OtherCalls, BusyInv, Waiting
<1> QED  BY <1>1, <1>2, <1>3, <1>4 DEF ReachesCard

LEMMA StepBusy ==
  ASSUME TeamInv, BusyInv, TeamNext
  PROVE  BusyInv'
<1>0. card \in [open : BOOLEAN, members : SUBSET Email, invites : SUBSET Invite,
                link : Invite \cup {None}, error : BOOLEAN, busy : BOOLEAN]
  BY DEF TeamInv, TeamTypeInv
<1>1. CASE OpenSettings
  <2> DEFINE first == TeamCall("load", None, TRUE, FALSE)
  <2>1. first.kind = "load" /\ first.run = FALSE
    BY DEF TeamCall
  <2>2. teamCalls' = teamCalls \cup {first}
    BY <1>1 DEF OpenSettings
  <2>3. card'.open /\ ~card'.busy
    BY <1>1 DEF OpenSettings, CardClosed
  <2>4. \A q \in teamCalls : ~q.mine
    BY <1>1 DEF OpenSettings, BusyInv
  <2> HIDE DEF first
  <2> QED  BY <2>1, <2>2, <2>3, <2>4 DEF BusyInv, Waiting
<1>2. CASE LeaveSettings
  <2>1. \A q \in teamCalls : [q EXCEPT !.mine = FALSE].mine = FALSE
    BY DEF TeamInv, TeamTypeInv, TeamCalls
  <2>2. \A c \in teamCalls' : ~c.mine
    BY <1>2, <2>1 DEF LeaveSettings
  <2>3. ~card'.busy
    BY <1>2 DEF LeaveSettings, CardClosed
  <2> QED  BY <2>2, <2>3 DEF BusyInv, Waiting
<1>3. ASSUME NEW kind \in Kind, NEW of \in Email \cup Invite, Choose(kind, of)
      PROVE  BusyInv'
  <2> DEFINE change == TeamCall(kind, of, TRUE, TRUE)
  <2>1. change.mine /\ change.run
    BY DEF TeamCall
  <2>2. teamCalls' = teamCalls \cup {change} /\ ~card.busy /\ card.open
    BY <1>3 DEF Choose
  <2>3. card'.open = card.open /\ card'.busy
    BY <1>0, <1>3 DEF Choose
  <2> HIDE DEF change
  <2>4. \A c \in teamCalls' : Waiting(c) <=> c = change
    BY <2>1, <2>2 DEF BusyInv, Waiting
  <2> QED  BY <2>1, <2>2, <2>3, <2>4 DEF BusyInv, Waiting
<1>4. ASSUME NEW kind \in Kind, NEW of \in Email \cup Invite, OthersChoose(kind, of)
      PROVE  BusyInv'
  <2>1. TeamCall(kind, of, FALSE, FALSE).mine = FALSE
    BY DEF TeamCall
  <2> QED  BY <1>4, <2>1 DEF OthersChoose, BusyInv, Waiting
<1>5. ASSUME NEW i \in Invite, Expire(i)
      PROVE  BusyInv'
  BY <1>5 DEF Expire, BusyInv, Waiting
<1> QED  BY <1>1, <1>2, <1>3, <1>4, <1>5, ServeKeepsBusy, ArrivalKeepsBusy DEF TeamNext

\* One request is waited for while the card is busy and none while it is not, for any number of
\* requests, other owners and visits of the settings.
THEOREM BusyCardWaits == TeamSpec => []BusyIsUnderWay
<1>1. TeamInit => BusyInv
  BY DEF TeamInit, BusyInv, CardClosed
<1>2. ASSUME TeamInv, BusyInv, [TeamNext]_teamVars
      PROVE  BusyInv'
  <2>1. CASE UNCHANGED teamVars
    BY <1>2, <2>1 DEF teamVars, BusyInv, Waiting
  <2> QED  BY <1>2, <2>1, StepBusy
<1>3. ASSUME BusyInv PROVE BusyIsUnderWay
  <2> DEFINE waited == {q \in teamCalls : q.mine /\ q.run}
  <2>1. CASE card.busy
    <3>1. \E q : waited = {q}
      BY <1>3, <2>1 DEF BusyInv, Waiting
    <3> HIDE DEF waited
    <3>2. Cardinality(waited) = 1
      BY <3>1, FS_Singleton
    <3> QED  BY <2>1, <3>2 DEF waited, BusyIsUnderWay
  <2>2. CASE ~card.busy
    <3>1. waited = {}
      BY <1>3, <2>2 DEF BusyInv, Waiting
    <3> HIDE DEF waited
    <3>2. Cardinality(waited) = 0
      BY <3>1, FS_EmptySet
    <3> QED  BY <2>2, <3>2 DEF waited, BusyIsUnderWay
  <2> QED  BY <2>1, <2>2
<1> QED  BY <1>1, <1>2, <1>3, TeamInductive, PTL DEF TeamSpec
------------------------------------------------------------------------------
(* The lists of payment requests.                                           *)

\* In the interface as a whole the lists move by the steps of ApprovalLists, or not at all.
LEMMA InterfaceLists == InterfaceSpec => Lists!ListsAssumption /\ Lists!Spec
<1>1. InterfaceInit => Lists!Init
  BY DEF InterfaceInit
<1>2. [InterfaceNext]_interfaceVars => [Lists!Next]_(Lists!vars)
  BY DEF InterfaceNext, interfaceVars, listsVars, Lists!vars, Lists!server, Lists!lists,
         Lists!ghosts
<1> QED
  BY <1>1, <1>2, PartsAssumption, PTL DEF InterfaceSpec, Lists!Spec

\* However many answers and events come late after however many switches, the lists and the
\* policy of the tab are those of the workspace that is shown, but for what the answers to the
\* person's own actions brought after a switch.
THEOREM LoadsStay == InterfaceSpec => []LoadsStayInTheirWorkspace
<1>1. Lists!ListsAssumption /\ Lists!Spec => []Lists!LoadsStayInTheirWorkspace
  BY Lists!LoadsStay, InterfaceAssumption, PartsAssumption
<1>2. Lists!LoadsStayInTheirWorkspace => LoadsStayInTheirWorkspace
  BY DEF LoadsStayInTheirWorkspace
<1> QED
  BY InterfaceLists, <1>1, <1>2, PTL

\* With nothing on its way the lists of the tab are those of the server, in every order of
\* answers and events; but for what was lost or overtaken.
THEOREM QuietLists == InterfaceSpec => []QuietListsAreCurrent
<1>1. Lists!ListsAssumption /\ Lists!Spec => []Lists!QuietListsAreCurrent
  BY Lists!QuietIsCurrent, InterfaceAssumption, PartsAssumption
<1>2. Lists!QuietListsAreCurrent => QuietListsAreCurrent
  BY DEF QuietListsAreCurrent
<1> QED
  BY InterfaceLists, <1>1, <1>2, PTL

\* In the interface as a whole the card moves by the steps of Team, or not at all.
LEMMA InterfaceTeam == InterfaceSpec => TeamSpec
<1>1. InterfaceInit => TeamInit
  BY DEF InterfaceInit
<1>2. [InterfaceNext]_interfaceVars => [TeamNext]_teamVars
  BY DEF InterfaceNext, interfaceVars, teamVars
<1> QED
  BY <1>1, <1>2, PTL DEF InterfaceSpec, TeamSpec

\* Whatever the interface shows as loading, or as busy, has a request behind it.
THEOREM Spinners == InterfaceSpec => []SpinnerIsUnderWay
<1>1. Lists!ListsAssumption /\ Lists!Spec => []Lists!SpinnerIsUnderWay
  BY Lists!SpinnersHaveARequest, InterfaceAssumption, PartsAssumption
<1>2. Lists!SpinnerIsUnderWay /\ BusyIsUnderWay => SpinnerIsUnderWay
  BY DEF SpinnerIsUnderWay
<1> QED
  BY InterfaceLists, InterfaceTeam, BusyCardWaits, <1>1, <1>2, PTL
------------------------------------------------------------------------------
(* The page of a wallet.                                                    *)

\* A finite set of integers has a least member: among the sets of the members below each of
\* its members one is smallest.
LEMMA LeastMember ==
  ASSUME NEW S \in SUBSET Int, IsFiniteSet(S), S # {}
  PROVE  Detail!Min(S) \in S /\ \A y \in S : Detail!Min(S) <= y
<1> DEFINE below(x) == {y \in S : y < x}
<1> DEFINE Below == {below(x) : x \in S}
<1>1. IsWellFoundedOn(StrictSubsetOrdering(S), FiniteSubsetsOf(S))
  BY FS_StrictSubsetOrderingWellFounded
<1>2. Below \subseteq FiniteSubsetsOf(S) /\ Below # {}
  <2>1. FiniteSubsetsOf(S) = SUBSET S
    BY FS_FiniteSubsetsOfFinite
  <2>2. Below \subseteq SUBSET S
    OBVIOUS
  <2>3. Below # {}
    OBVIOUS
  <2> QED  BY <2>1, <2>2, <2>3
<1>3. PICK B \in Below : \A C \in Below : <<C, B>> \notin StrictSubsetOrdering(S)
  <2> HIDE DEF Below
  <2> QED  BY <1>1, <1>2, WFMin
<1>4. PICK x \in S : B = below(x)
  BY <1>3
<1>5. ASSUME NEW y \in S PROVE x <= y
  <2>1. SUFFICES ASSUME y < x PROVE FALSE
    OBVIOUS
  <2>2. below(y) \in Below
    OBVIOUS
  <2>3. below(y) \subseteq below(x) /\ y \in below(x) /\ y \notin below(y)
    <3>1. x \in Int /\ y \in Int /\ \A z \in S : z \in Int
      OBVIOUS
    <3>2. \A z \in Int : z < y => z < x
      BY <2>1, <3>1
    <3>3. ~(y < y)
      BY <3>1
    <3> QED  BY <2>1, <3>1, <3>2, <3>3
  <2>4. below(y) \in SUBSET S /\ below(x) \in SUBSET S
    OBVIOUS
  <2> HIDE DEF below, Below
  <2> QED  BY <1>3, <1>4, <2>2, <2>3, <2>4 DEF StrictSubsetOrdering
<1> QED  BY <1>4, <1>5 DEF Detail!Min

\* An instance of the module takes its own copy of what the standard modules define.
LEMMA SameCardinality == \A S : Detail!Cardinality(S) = Cardinality(S)
BY DEF Detail!Cardinality, Cardinality

\* Transactions are finitely many numbers.
LEMMA TxSets ==
  ASSUME NEW S \in SUBSET (Detail!Tx)
  PROVE  /\ S \in SUBSET Int /\ IsFiniteSet(S) /\ Cardinality(S) \in 0 .. Txs
         /\ \A T \in SUBSET S : Cardinality(T) <= Cardinality(S)
<1>1. Txs \in Nat
  BY PartsAssumption DEF Detail!PageAssumption
<1>2. IsFiniteSet(1 .. Txs) /\ Cardinality(1 .. Txs) = Txs
  BY <1>1, FS_Interval
<1>3. S \in SUBSET (1 .. Txs)
  BY DEF Detail!Tx
<1>4. IsFiniteSet(S) /\ Cardinality(S) <= Txs
  BY <1>2, <1>3, FS_Subset
<1>5. Cardinality(S) \in Nat
  BY <1>4, FS_CardinalityType
<1>6. \A T \in SUBSET S : Cardinality(T) <= Cardinality(S)
  BY <1>4, FS_Subset
<1> QED  BY <1>1, <1>3, <1>4, <1>5, <1>6

\* A page is the newest part of what is there before the cursor, and the next cursor the
\* oldest transaction on it.
LEMMA PageOf ==
  ASSUME Detail!TypeOK, NEW after \in 0 .. Txs
  PROVE  /\ Detail!Page(after) \subseteq Detail!There(txs)
         /\ \A t \in Detail!Page(after) : after = 0 \/ t < after
         /\ \A u \in Detail!Page(after), t \in Detail!There(txs) :
              u < t /\ (after = 0 \/ t < after) => t \in Detail!Page(after)
         /\ Detail!NextCursor(after) \in 0 .. Txs
         /\ Detail!NextCursor(after) # 0 =>
              /\ Detail!NextCursor(after) \in Detail!Page(after)
              /\ \A t \in Detail!Page(after) : Detail!NextCursor(after) <= t
<1> DEFINE before == {t \in Detail!There(txs) : after = 0 \/ t < after}
<1> DEFINE newer(t) == {u \in before : u > t}
<1> DEFINE P == Detail!Page(after)
<1>0. PageSize \in Nat /\ Txs \in Nat
  BY PartsAssumption DEF Detail!PageAssumption
<1>1. P = {t \in before : Cardinality(newer(t)) < PageSize}
  BY SameCardinality DEF Detail!Page
<1>2. before \subseteq Detail!There(txs) /\ before \subseteq Detail!Tx /\ Detail!Tx \subseteq Int
  BY DEF Detail!There, Detail!Tx
<1>3. ASSUME NEW u \in P, NEW t \in before, u < t
      PROVE  t \in P
  <2>1. newer(u) \in SUBSET (Detail!Tx) /\ newer(t) \in SUBSET (Detail!Tx)
    BY <1>2
  <2>2. u \in Int /\ t \in Int /\ \A z \in before : z \in Int
    BY <1>1, <1>2
  <2>3. \A z \in Int : z > t => z > u
    BY <1>3, <2>2
  <2>4. newer(t) \subseteq newer(u)
    BY <2>2, <2>3
  <2>5. Cardinality(newer(u)) < PageSize
    BY <1>1
  <2> HIDE DEF newer
  <2>6. /\ Cardinality(newer(t)) <= Cardinality(newer(u))
        /\ Cardinality(newer(t)) \in Int /\ Cardinality(newer(u)) \in Int
    BY <2>1, <2>4, TxSets
  <2>7. Cardinality(newer(t)) < PageSize
    BY <1>0, <2>5, <2>6
  <2> QED  BY <1>1, <2>7
<1>4. P \in SUBSET (Detail!Tx)
  BY <1>1, <1>2
<1>5. P # {} => Detail!Min(P) \in P /\ \A y \in P : Detail!Min(P) <= y
  <2> HIDE DEF P
  <2> QED  BY <1>4, TxSets, LeastMember
<1>6. Detail!NextCursor(after) = 0 \/ (P # {} /\ Detail!NextCursor(after) = Detail!Min(P))
  BY DEF Detail!NextCursor
<1>7. \A t \in P : t \in before
  BY <1>1
<1>8. Detail!NextCursor(after) \in 0 .. Txs
  BY <1>0, <1>4, <1>5, <1>6 DEF Detail!Tx
<1> HIDE DEF P
<1> QED  BY <1>1, <1>2, <1>3, <1>5, <1>6, <1>7, <1>8 DEF P
------------------------------------------------------------------------------
\* The counts of confirmed transactions.
LEMMA Counts ==
  ASSUME NEW copies
  PROVE  Detail!Confirmed(copies) \in 0 .. Txs
BY TxSets, SameCardinality DEF Detail!Confirmed, Detail!In

\* A request of the page as it is sent, and those that are left when the balances are asked for.
LEMMA PageCallTyped ==
  ASSUME NEW kind \in {"reload", "more", "balance", "sync", "fund"}, NEW re \in BOOLEAN,
         NEW after \in 0 .. Txs, indexed \in 0 .. Txs
  PROVE  Detail!PageCall(kind, re, after) \in Detail!PageCalls
<1>1. 0 \in 0 .. Txs
  BY PartsAssumption DEF Detail!PageAssumption
<1> QED  BY <1>1 DEF Detail!PageCall, Detail!PageCalls, Detail!NoTxs, Detail!Status

LEMMA AskedTyped ==
  ASSUME NEW requests \in SUBSET (Detail!PageCalls), indexed \in 0 .. Txs
  PROVE  Detail!BalanceAsked(requests) \in SUBSET (Detail!PageCalls)
<1>1. Txs \in Nat
  BY PartsAssumption DEF Detail!PageAssumption
<1>2. Detail!PageCall("balance", FALSE, 0) \in Detail!PageCalls
  BY <1>1, PageCallTyped, 0 \in 0 .. Txs, FALSE \in BOOLEAN
<1> QED  BY <1>2 DEF Detail!BalanceAsked

\* What the effect leaves typed.
LEMMA EffectTyped ==
  ASSUME Detail!TypeOK, NEW requests \in SUBSET (Detail!PageCalls), Detail!Effect(requests)
  PROVE  /\ lastBalanceTrigger' \in Detail!Null .. Txs
         /\ {retry', reread'} \subseteq BOOLEAN
         /\ pageCalls' \in SUBSET (Detail!PageCalls)
<1>1. \A n \in 0 .. Txs : n \in Detail!Null .. Txs
  BY DEF Detail!Null
<1>2. Detail!BalanceAsked(requests) \in SUBSET (Detail!PageCalls)
  BY AskedTyped DEF Detail!TypeOK
<1>3. Detail!Confirmed(Detail!Merged(txHistory', liveTxns')) \in 0 .. Txs
  BY Counts
<1>4. lastBalanceTrigger' \in Detail!Null .. Txs
  BY <1>1, <1>3 DEF Detail!Effect, Detail!TypeOK
<1> QED  BY <1>2, <1>4 DEF Detail!Effect, Detail!TypeOK, Detail!RetryAfter

\* An answered page keeps the type of its request.
LEMMA ServedTyped ==
  ASSUME Detail!TypeOK, NEW q \in pageCalls, Detail!ServePage(q)
  PROVE  Detail!TypeOK'
<1>1. q \in Detail!PageCalls /\ q.after \in 0 .. Txs
  BY DEF Detail!TypeOK, Detail!PageCalls
<1>2. Detail!NextCursor(q.after) \in 0 .. Txs
  BY <1>1, PageOf
<1> DEFINE got == [t \in Detail!Tx |-> IF t \in Detail!Page(q.after) THEN txs[t] ELSE "none"]
<1> DEFINE r == [q EXCEPT !.status = "ok", !.next = Detail!NextCursor(q.after), !.got = got]
<1>3. got \in [Detail!Tx -> Detail!Status]
  BY DEF Detail!TypeOK, Detail!Status
<1>4. pageCalls' = (pageCalls \ {q}) \cup {r}
  BY DEF Detail!ServePage
<1> HIDE DEF got
<1>5. r \in Detail!PageCalls
  BY <1>1, <1>2, <1>3 DEF Detail!PageCalls
<1> HIDE DEF r
<1> QED  BY <1>4, <1>5 DEF Detail!ServePage, Detail!server, Detail!view, Detail!money, Detail!reading,
            Detail!buttons, Detail!TypeOK

LEMMA ArrivedTyped ==
  ASSUME Detail!TypeOK, NEW q \in pageCalls, Detail!Arrives(q)
  PROVE  Detail!TypeOK'
<1> DEFINE rest == Detail!Others(q)
<1>0. /\ rest \in SUBSET (Detail!PageCalls)
      /\ Detail!BalanceAsked(rest) \in SUBSET (Detail!PageCalls)
  <2>1. rest \in SUBSET (Detail!PageCalls) /\ indexed \in 0 .. Txs
    BY DEF Detail!Others, Detail!TypeOK
  <2> HIDE DEF rest
  <2> QED  BY <2>1, AskedTyped
<1>1. /\ q.got \in [Detail!Tx -> Detail!Status] /\ q.next \in 0 .. Txs /\ q.read \in 0 .. Txs
      /\ q.refresh \in BOOLEAN
  BY DEF Detail!TypeOK, Detail!PageCalls
<1>2. UNCHANGED <<txs, indexed, pageMoves>>
  BY DEF Detail!Arrives, Detail!server
<1>3. CASE Detail!reloadHistory(q)
  <2> DEFINE asked == IF q.refresh THEN Detail!BalanceAsked(rest) ELSE rest
  <2>1. asked \in SUBSET (Detail!PageCalls) /\ Detail!Effect(asked)
    BY <1>0, <1>3 DEF Detail!reloadHistory
  <2> HIDE DEF asked
  <2>2. /\ lastBalanceTrigger' \in Detail!Null .. Txs
        /\ {retry', reread'} \subseteq BOOLEAN
        /\ pageCalls' \in SUBSET (Detail!PageCalls)
    BY <2>1, EffectTyped
  <2> QED  BY <1>1, <1>2, <1>3, <2>2 DEF Detail!reloadHistory, Detail!CursorAfter, Detail!TypeOK
<1>4. CASE Detail!loadMoreHistory(q)
  <2>1. /\ lastBalanceTrigger' \in Detail!Null .. Txs
        /\ {retry', reread'} \subseteq BOOLEAN
        /\ pageCalls' \in SUBSET (Detail!PageCalls)
    <3>1. Detail!Effect(rest)
      BY <1>4 DEF Detail!loadMoreHistory
    <3> HIDE DEF rest
    <3> QED  BY <1>0, <3>1, EffectTyped
  <2>2. Detail!Merged(txHistory, q.got) \in [Detail!Tx -> Detail!Status]
    BY <1>1 DEF Detail!Merged, Detail!TypeOK
  <2> QED  BY <1>1, <1>2, <1>4, <2>1, <2>2 DEF Detail!loadMoreHistory, Detail!buttons, Detail!TypeOK
<1>5. CASE Detail!reloadBalances(q)
  <2>1. \A n \in q.read .. indexed \cup {Detail!Null} : n \in Detail!Null .. Txs
    BY <1>1, PartsAssumption DEF Detail!Null, Detail!TypeOK, Detail!PageAssumption
  <2> QED  BY <1>0, <1>2, <1>5, <2>1 DEF Detail!reloadBalances, Detail!view, Detail!reading, Detail!buttons, Detail!TypeOK
<1>6. CASE Detail!refresh(q)
  <2>1. Detail!PageCall("reload", TRUE, 0) \in Detail!PageCalls
    <3>1. 0 \in 0 .. Txs
      BY PartsAssumption DEF Detail!PageAssumption
    <3> QED  BY <3>1, PageCallTyped DEF Detail!TypeOK
  <2> QED  BY <1>0, <1>2, <1>6, <2>1 DEF Detail!refresh, Detail!view, Detail!money, Detail!reading, Detail!buttons, Detail!TypeOK
<1>7. CASE Detail!fund(q)
  BY <1>0, <1>2, <1>7 DEF Detail!fund, Detail!view, Detail!money, Detail!reading, Detail!TypeOK
<1> QED  BY <1>3, <1>4, <1>5, <1>6, <1>7 DEF Detail!Arrives

LEMMA StepPageTyped ==
  ASSUME Detail!TypeOK, [Detail!Next]_(Detail!pageVars)
  PROVE  Detail!TypeOK'
<1>0. DetailMoves \in Nat /\ Txs \in Nat /\ 0 \in 0 .. Txs
  BY PartsAssumption DEF Detail!PageAssumption
<1> USE DEF Detail!TypeOK
<1>1. CASE Detail!World
  <2>1. UNCHANGED <<liveTxns, txHistory, txHistoryNext, txHistoryLoaded, loadingMoreTxs, assets,
                    lastBalanceTrigger, retry, reread, refreshing, funding, pageCalls, overlapped, pageMoves>>
    BY <1>1 DEF Detail!World, Detail!view, Detail!money, Detail!reading, Detail!buttons
  <2>2. txs' \in [Detail!Tx -> Detail!Status]
    BY <1>1 DEF Detail!World, Detail!Indexes, Detail!Recorded, Detail!Confirms, Detail!Status
  <2>3. indexed' \in 0 .. Txs
    BY <1>1, Counts DEF Detail!World, Detail!Indexes, Detail!Recorded, Detail!Confirms
  <2> QED  BY <2>1, <2>2, <2>3
<1>2. CASE Detail!RetryBalances
  <2>1. Detail!BalanceAsked(pageCalls) \in SUBSET (Detail!PageCalls)
    BY AskedTyped
  <2> QED  BY <1>2, <2>1 DEF Detail!RetryBalances, Detail!server, Detail!view, Detail!buttons
<1>3. ASSUME NEW t \in Detail!Tx \ First, Detail!TxEvent(t)
      PROVE  Detail!TypeOK'
  <2>1. /\ lastBalanceTrigger' \in Detail!Null .. Txs
        /\ {retry', reread'} \subseteq BOOLEAN
        /\ pageCalls' \in SUBSET (Detail!PageCalls)
    BY <1>3, EffectTyped DEF Detail!TxEvent
  <2>2. liveTxns' \in [Detail!Tx -> Detail!Status]
    BY <1>3 DEF Detail!TxEvent, Detail!Status
  <2> QED  BY <1>3, <2>1, <2>2 DEF Detail!TxEvent, Detail!server, Detail!view, Detail!buttons
<1>4. ASSUME NEW q \in pageCalls, Detail!ServePage(q) \/ Detail!Arrives(q)
      PROVE  Detail!TypeOK'
  BY <1>4, ServedTyped, ArrivedTyped
<1>5. Detail!Move => pageMoves' \in 0 .. DetailMoves /\ UNCHANGED <<txs, indexed, liveTxns>>
  BY <1>0 DEF Detail!Move, Detail!server
<1>6. CASE Detail!ShowMore
  <2>1. Detail!PageCall("more", FALSE, txHistoryNext) \in Detail!PageCalls
    BY PageCallTyped
  <2> QED  BY <1>5, <1>6, <2>1 DEF Detail!ShowMore, Detail!money, Detail!reading, Detail!buttons
<1>7. CASE Detail!Refresh
  <2>1. Detail!PageCall("sync", TRUE, 0) \in Detail!PageCalls
    BY <1>0, PageCallTyped
  <2> QED  BY <1>5, <1>7, <2>1 DEF Detail!Refresh, Detail!view, Detail!money, Detail!reading
<1>8. CASE Detail!Fund
  <2>1. Detail!PageCall("fund", FALSE, 0) \in Detail!PageCalls
    BY <1>0, PageCallTyped
  <2> QED  BY <1>5, <1>8, <2>1 DEF Detail!Fund, Detail!view, Detail!money, Detail!reading
<1>9. CASE UNCHANGED Detail!pageVars
  BY <1>9 DEF Detail!pageVars, Detail!server, Detail!view, Detail!money, Detail!reading, Detail!buttons
<1> QED  BY <1>1, <1>2, <1>3, <1>4, <1>6, <1>7, <1>8, <1>9 DEF Detail!Next

LEMMA InitPageTyped == Detail!Init => Detail!TypeOK
<1> SUFFICES ASSUME Detail!Init PROVE Detail!TypeOK
  OBVIOUS
<1>1. indexed \in 0 .. Txs /\ 0 \in 0 .. Txs
  BY Counts, PartsAssumption DEF Detail!Init, Detail!PageAssumption
<1>2. /\ Detail!PageCall("reload", FALSE, 0) \in Detail!PageCalls
      /\ Detail!PageCall("balance", FALSE, 0) \in Detail!PageCalls
  BY <1>1, PageCallTyped
<1>3. Detail!Null \in Detail!Null .. Txs /\ 0 \in 0 .. DetailMoves
  BY PartsAssumption DEF Detail!PageAssumption, Detail!Null
<1> QED  BY <1>1, <1>2, <1>3 DEF Detail!Init, Detail!TypeOK, Detail!NoTxs, Detail!Status
------------------------------------------------------------------------------
(* The history of the wallet.                                               *)

\* What is there between two transactions was fetched, but for what was recorded late.
NoGap(there, copies, u, v) ==
  \A t \in there \ LateRecorded : u < t /\ t < v => copies[t] # "none"

Whole(there, copies) == \A u, v \in Detail!There(copies) : NoGap(there, copies, u, v)

\* The cursor for older transactions is the oldest one that was fetched.
Oldest(copies, next) ==
  next # 0 => next \in Detail!There(copies) /\ \A u \in Detail!There(copies) : next <= u

Loads == {q \in pageCalls : q.kind \in {"reload", "more"}}

\* An answered page has no gap, and one for Show more none up to its cursor.
Answer(there, q) ==
  /\ q.next # 0 => q.next \in there
  /\ q.status = "ok" =>
       /\ Detail!There(q.got) \subseteq there
       /\ Whole(there, q.got)
       /\ Oldest(q.got, q.next)
       /\ q.kind = "more" => \A u \in Detail!There(q.got) : u < q.after /\ NoGap(there, q.got, u, q.after)

\* One older page at a time is asked for; unless a reload is under way with it, its cursor is
\* the one of the history it will be added to.
PagesInv(there, copies, next, loading, over, calls) ==
  /\ \A q \in calls : Answer(there, q)
  /\ \A q \in calls : q.kind = "reload" => q.after = 0
  /\ \A q \in calls : q.kind = "more" => loading /\ q.after \in there
  /\ \A p, q \in calls : p.kind = "more" /\ q.kind = "more" => p = q
  /\ \A p, q \in calls : p.kind = "more" /\ q.kind = "reload" => over
  /\ next # 0 => next \in there
  /\ Detail!There(copies) \subseteq there
  /\ ~over => /\ Whole(there, copies) /\ Oldest(copies, next)
              /\ \A q \in calls : q.kind = "more" => q.after = next

PageHistoryInv ==
  PagesInv(Detail!There(txs), txHistory, txHistoryNext, loadingMoreTxs, overlapped, Loads)

\* With fewer requests on their way less can go wrong.
LEMMA FewerCalls ==
  ASSUME NEW there, NEW copies, NEW next, NEW loading, NEW over, NEW calls,
         PagesInv(there, copies, next, loading, over, calls),
         NEW fewer \in SUBSET calls
  PROVE  PagesInv(there, copies, next, loading, over, fewer)
BY DEF PagesInv

\* Reading the balances is no load.
LEMMA AskedLoads ==
  ASSUME NEW requests
  PROVE  {q \in Detail!BalanceAsked(requests) : q.kind \in {"reload", "more"}}
           \subseteq {q \in requests : q.kind \in {"reload", "more"}}
BY DEF Detail!BalanceAsked, Detail!PageCall

LEMMA EffectLoads ==
  ASSUME NEW requests, Detail!Effect(requests)
  PROVE  Loads' \subseteq {q \in requests : q.kind \in {"reload", "more"}}
BY AskedLoads DEF Detail!Effect, Loads

\* What is recorded by and by is newer than all that is there, or one of LateRecorded.
LEMMA NewerStays ==
  ASSUME NEW there \in SUBSET Int, NEW later \in SUBSET Int, there \subseteq later,
         \A t \in later \ there : t \in LateRecorded \/ \A u \in there : u < t,
         NEW copies, NEW next, NEW loading, NEW over, NEW calls,
         PagesInv(there, copies, next, loading, over, calls)
  PROVE  PagesInv(later, copies, next, loading, over, calls)
<1>1. ASSUME NEW c, NEW u \in there, NEW v \in there, NoGap(there, c, u, v)
      PROVE  NoGap(later, c, u, v)
  <2> SUFFICES ASSUME NEW t \in later \ LateRecorded, u < t, t < v
               PROVE  c[t] # "none"
    BY DEF NoGap
  <2>1. t \in there
    <3>1. t \in Int /\ v \in Int
      OBVIOUS
    <3>2. ~(v < t)
      BY <3>1
    <3> QED  BY <3>2
  <2> QED  BY <1>1, <2>1 DEF NoGap
<1>2. ASSUME NEW c, Detail!There(c) \subseteq there, Whole(there, c)
      PROVE  Whole(later, c)
  BY <1>1, <1>2 DEF Whole
<1>3. ASSUME NEW q \in calls
      PROVE  Answer(later, q)
  BY <1>1, <1>2 DEF PagesInv, Answer
<1> QED  BY <1>2, <1>3 DEF PagesInv

LEMMA WorldKeepsHistory ==
  ASSUME Detail!TypeOK, PageHistoryInv, Detail!World
  PROVE  PageHistoryInv'
<1> DEFINE there == Detail!There(txs)
<1> DEFINE later == Detail!There(txs')
<1>1. there \in SUBSET Int /\ later \in SUBSET Int
  BY DEF Detail!There, Detail!Tx
<1>2. there \subseteq later /\ \A t \in later \ there : t \in LateRecorded \/ \A u \in there : u < t
  BY DEF Detail!World, Detail!Indexes, Detail!Recorded, Detail!Confirms, Detail!There, Detail!In, Detail!TypeOK
<1>3. UNCHANGED <<txHistory, txHistoryNext, loadingMoreTxs, overlapped, Loads>>
  BY DEF Detail!World, Detail!view, Loads
<1>4. PagesInv(there, txHistory, txHistoryNext, loadingMoreTxs, overlapped, Loads)
  BY DEF PageHistoryInv
<1> HIDE DEF there, later
<1>5. PagesInv(later, txHistory, txHistoryNext, loadingMoreTxs, overlapped, Loads)
  BY <1>1, <1>2, <1>4, NewerStays
<1> QED  BY <1>3, <1>5 DEF PageHistoryInv, later

\* A page that is served has no gap.
LEMMA ServeKeepsHistory ==
  ASSUME Detail!TypeOK, PageHistoryInv, NEW q \in pageCalls, Detail!ServePage(q)
  PROVE  PageHistoryInv'
<1> DEFINE P == Detail!Page(q.after)
<1> DEFINE got == [t \in Detail!Tx |-> IF t \in P THEN txs[t] ELSE "none"]
<1> DEFINE r == [q EXCEPT !.status = "ok", !.next = Detail!NextCursor(q.after), !.got = got]
<1> DEFINE there == Detail!There(txs)
<1>1. q \in Detail!PageCalls /\ q.after \in 0 .. Txs /\ q \in Loads
  BY DEF Detail!TypeOK, Detail!PageCalls, Detail!ServePage, Loads
<1>2. /\ pageCalls' = (pageCalls \ {q}) \cup {r}
      /\ UNCHANGED <<txs, txHistory, txHistoryNext, loadingMoreTxs, overlapped>>
  BY DEF Detail!ServePage, Detail!server, Detail!view
<1>3. /\ r.kind = q.kind /\ r.after = q.after /\ r.status = "ok" /\ r.got = got
      /\ r.next = Detail!NextCursor(q.after)
  BY <1>1 DEF Detail!PageCalls
<1>4. /\ P \subseteq there /\ there \subseteq Detail!Tx
      /\ \A t \in P : q.after = 0 \/ t < q.after
      /\ \A u \in P, t \in there : u < t /\ (q.after = 0 \/ t < q.after) => t \in P
      /\ r.next # 0 => r.next \in P /\ \A t \in P : r.next <= t
  BY <1>1, <1>3, PageOf DEF Detail!There
<1>5. Detail!There(got) = P
  BY <1>4 DEF Detail!There, Detail!In, Detail!TypeOK
<1>6. \A t \in there : t \in P => got[t] # "none"
  BY <1>4 DEF Detail!There, Detail!In
<1>7. Loads' = (Loads \ {q}) \cup {r}
  BY <1>1, <1>2, <1>3 DEF Loads
<1> HIDE DEF P, got, r, there
<1>8. there \subseteq Int /\ P \subseteq Int
  BY <1>4 DEF Detail!Tx
<1>9. Whole(there, got)
  <2> SUFFICES ASSUME NEW u \in P, NEW v \in P, NEW t \in there \ LateRecorded, u < t, t < v
               PROVE  got[t] # "none"
    BY <1>5 DEF Whole, NoGap
  <2>1. q.after = 0 \/ t < q.after
    <3>1. t \in Int /\ v \in Int /\ q.after \in Int
      BY <1>1, <1>8
    <3> QED  BY <1>4, <3>1
  <2> QED  BY <1>4, <1>6, <2>1
<1>10. q.kind = "more" => q.after \in there
  BY <1>1 DEF PageHistoryInv, PagesInv, there
<1>11. q.kind = "more" => \A u \in P : u < q.after /\ NoGap(there, got, u, q.after)
  <2>1. 0 \notin there
    BY <1>4 DEF Detail!Tx
  <2> QED  BY <1>4, <1>6, <1>10, <2>1 DEF NoGap
<1>12. Answer(there, r)
  BY <1>3, <1>4, <1>5, <1>9, <1>11 DEF Answer, Oldest
<1>13. PagesInv(there, txHistory, txHistoryNext, loadingMoreTxs, overlapped, Loads)
  BY DEF PageHistoryInv, there
<1>14. PagesInv(there, txHistory, txHistoryNext, loadingMoreTxs, overlapped, Loads')
  BY <1>1, <1>3, <1>7, <1>12, <1>13 DEF PagesInv
<1> QED  BY <1>2, <1>14 DEF PageHistoryInv, there

\* An older page goes on where the history ends.
LEMMA OlderAdded ==
  ASSUME NEW there \in SUBSET (Detail!Tx), NEW fetched, NEW older, NEW after \in there,
         Detail!There(fetched) \subseteq there, Detail!There(older) \subseteq there,
         Whole(there, fetched), Oldest(fetched, after),
         Whole(there, older), NEW next, Oldest(older, next), next # 0 => next \in there,
         \A u \in Detail!There(older) : u < after /\ NoGap(there, older, u, after)
  PROVE  LET merged == Detail!Merged(fetched, older)
         IN  Detail!There(merged) \subseteq there /\ Whole(there, merged) /\ Oldest(merged, next)
<1> DEFINE merged == Detail!Merged(fetched, older)
<1>1. Detail!There(merged) = Detail!There(fetched) \cup Detail!There(older)
  BY DEF Detail!Merged, Detail!There, Detail!In
<1>2. \A t \in Detail!Tx : fetched[t] # "none" \/ older[t] # "none" => merged[t] # "none"
  BY DEF Detail!Merged
<1>3. there \subseteq Int /\ 0 \notin there
  BY DEF Detail!Tx
<1>4. after \in Detail!There(fetched) /\ \A u \in Detail!There(fetched) : after <= u
  BY <1>3 DEF Oldest
<1> HIDE DEF merged
<1>5. Whole(there, merged)
  <2> SUFFICES ASSUME NEW u \in Detail!There(merged), NEW v \in Detail!There(merged),
                      NEW t \in there \ LateRecorded, u < t, t < v
               PROVE  merged[t] # "none"
    BY DEF Whole, NoGap
  <2>0. u \in Int /\ v \in Int /\ t \in Int /\ after \in Int /\ t \in Detail!Tx
    BY <1>1, <1>3
  <2>1. CASE u \in Detail!There(older) /\ t < after
    BY <1>2, <2>0, <2>1 DEF NoGap
  <2>2. CASE u \in Detail!There(older) /\ t = after
    <3>1. fetched[t] # "none"
      BY <1>4, <2>2 DEF Detail!There, Detail!In
    <3> QED  BY <1>2, <2>0, <3>1
  <2>3. CASE after < t
    <3>1. v \in Detail!There(fetched)
      BY <1>1, <2>0, <2>3
    <3> QED  BY <1>2, <1>4, <2>0, <2>3, <3>1 DEF Whole, NoGap
  <2>4. CASE u \in Detail!There(fetched)
    <3>1. after < t
      BY <1>4, <2>0, <2>4
    <3> QED  BY <2>3, <3>1
  <2> QED  BY <1>1, <2>0, <2>1, <2>2, <2>3, <2>4
<1>6. Oldest(merged, next)
  <2> SUFFICES ASSUME next # 0, NEW u \in Detail!There(merged)
               PROVE  next \in Detail!There(merged) /\ next <= u
    BY <1>1 DEF Oldest
  <2>1. next \in Detail!There(older) /\ \A x \in Detail!There(older) : next <= x
    BY DEF Oldest
  <2>2. CASE u \in Detail!There(older)
    BY <1>1, <2>1, <2>2
  <2>3. CASE u \in Detail!There(fetched)
    <3>1. next \in Int /\ after \in Int /\ u \in Int
      BY <1>3, <2>1, <2>3
    <3>2. next < after /\ after <= u
      BY <1>4, <2>1, <2>3
    <3> QED  BY <1>1, <2>1, <3>1, <3>2
  <2> QED  BY <1>1, <2>2, <2>3
<1> QED  BY <1>1, <1>5, <1>6 DEF merged

\* The actions that add no request for a page and leave the history alone.
LEMMA SameHistory ==
  ASSUME PageHistoryInv, UNCHANGED <<txs, txHistory, txHistoryNext, loadingMoreTxs, overlapped>>,
         Loads' \subseteq Loads
  PROVE  PageHistoryInv'
<1> DEFINE there == Detail!There(txs)
<1>1. PagesInv(there, txHistory, txHistoryNext, loadingMoreTxs, overlapped, Loads)
  BY DEF PageHistoryInv
<1> HIDE DEF there
<1>2. PagesInv(there, txHistory, txHistoryNext, loadingMoreTxs, overlapped, Loads')
  BY <1>1, FewerCalls
<1> QED  BY <1>2 DEF PageHistoryInv, there

LEMMA ReloadKeepsHistory ==
  ASSUME Detail!TypeOK, PageHistoryInv, NEW q \in pageCalls, Detail!reloadHistory(q), UNCHANGED txs
  PROVE  PageHistoryInv'
<1> DEFINE there == Detail!There(txs)
<1> DEFINE rest == Loads \ {q}
<1>1. PagesInv(there, txHistory, txHistoryNext, loadingMoreTxs, overlapped, Loads)
  BY DEF PageHistoryInv
<1>2. q \in Loads /\ q.kind = "reload"
  BY DEF Detail!reloadHistory, Loads
<1>3. Loads' \subseteq rest
  <2> DEFINE asked == IF q.refresh THEN Detail!BalanceAsked(Detail!Others(q)) ELSE Detail!Others(q)
  <2>1. Detail!Effect(asked)
    BY DEF Detail!reloadHistory
  <2>2. {c \in asked : c.kind \in {"reload", "more"}} \subseteq rest
    <3>1. {c \in Detail!Others(q) : c.kind \in {"reload", "more"}} \subseteq rest
      BY DEF Detail!Others, Loads
    <3> QED  BY <3>1, AskedLoads
  <2> HIDE DEF asked
  <2> QED  BY <2>1, <2>2, EffectLoads
<1>4. PagesInv(there, txHistory, txHistoryNext, loadingMoreTxs, overlapped, Loads')
  BY <1>1, <1>3, FewerCalls
<1>5. loadingMoreTxs' = loadingMoreTxs
  BY DEF Detail!reloadHistory
<1>6. CASE q.status = "ok"
  <2>1. txHistory' = q.got /\ txHistoryNext' = q.next
        /\ (overlapped' <=> \E p \in pageCalls : p.kind = "more")
    BY <1>6 DEF Detail!reloadHistory, Detail!CursorAfter
  <2>2. Answer(there, q)
    BY <1>1, <1>2 DEF PagesInv
  <2>3. overlapped' \/ \A p \in Loads' : p.kind # "more"
    BY <1>3, <2>1 DEF Loads
  <2> HIDE DEF there
  <2>4. PagesInv(there, q.got, q.next, loadingMoreTxs, overlapped', Loads')
    BY <1>4, <1>6, <2>2, <2>3 DEF PagesInv, Answer
  <2> QED  BY <1>5, <2>1, <2>4 DEF PageHistoryInv, there
<1>7. CASE q.status # "ok"
  <2>1. UNCHANGED <<txHistory, txHistoryNext, overlapped>>
    BY <1>7 DEF Detail!reloadHistory
  <2> QED  BY <1>4, <1>5, <2>1 DEF PageHistoryInv
<1> QED  BY <1>6, <1>7

LEMMA MoreKeepsHistory ==
  ASSUME Detail!TypeOK, PageHistoryInv, NEW q \in pageCalls, Detail!loadMoreHistory(q), UNCHANGED txs
  PROVE  PageHistoryInv'
<1> DEFINE there == Detail!There(txs)
<1> DEFINE rest == Loads \ {q}
<1>1. PagesInv(there, txHistory, txHistoryNext, loadingMoreTxs, overlapped, Loads)
  BY DEF PageHistoryInv
<1>2. q \in Loads /\ q.kind = "more"
  BY DEF Detail!loadMoreHistory, Loads
<1>3. Loads' \subseteq rest
  <2>1. Detail!Effect(Detail!Others(q))
    BY DEF Detail!loadMoreHistory
  <2>2. {c \in Detail!Others(q) : c.kind \in {"reload", "more"}} \subseteq rest
    BY DEF Detail!Others, Loads
  <2> QED  BY <2>1, <2>2, EffectLoads
<1>4. overlapped' = overlapped
  BY DEF Detail!loadMoreHistory
<1>5. \A p \in Loads' : p.kind # "more"
  BY <1>1, <1>2, <1>3 DEF PagesInv
<1>6. there \in SUBSET (Detail!Tx)
  BY DEF Detail!There
<1> HIDE DEF there, rest
<1>7. PagesInv(there, txHistory, txHistoryNext, FALSE, overlapped, Loads')
  BY <1>1, <1>3, <1>5 DEF PagesInv, rest
<1>8. loadingMoreTxs' = FALSE
  BY DEF Detail!loadMoreHistory
<1>9. CASE q.status = "ok"
  <2>1. txHistory' = Detail!Merged(txHistory, q.got) /\ txHistoryNext' = q.next
    BY <1>9 DEF Detail!loadMoreHistory
  <2> DEFINE merged == Detail!Merged(txHistory, q.got)
  <2>2. Answer(there, q) /\ q.after \in there
    BY <1>1, <1>2 DEF PagesInv
  <2>3. Detail!There(merged) \subseteq there
    BY <1>1, <1>9, <2>2 DEF PagesInv, Answer, Detail!Merged, Detail!There, Detail!In
  <2>4. ~overlapped => Whole(there, merged) /\ Oldest(merged, q.next)
    <3> SUFFICES ASSUME ~overlapped
                 PROVE  Whole(there, merged) /\ Oldest(merged, q.next)
      OBVIOUS
    <3>1. /\ Whole(there, txHistory) /\ Oldest(txHistory, q.after)
          /\ Detail!There(txHistory) \subseteq there
      BY <1>1, <1>2 DEF PagesInv
    <3>2. /\ Detail!There(q.got) \subseteq there /\ Whole(there, q.got) /\ Oldest(q.got, q.next)
          /\ q.next # 0 => q.next \in there
          /\ \A u \in Detail!There(q.got) : u < q.after /\ NoGap(there, q.got, u, q.after)
      BY <1>2, <1>9, <2>2 DEF Answer
    <3> QED  BY <1>6, <2>2, <3>1, <3>2, OlderAdded
  <2> HIDE DEF merged
  <2>5. PagesInv(there, merged, q.next, FALSE, overlapped, Loads')
    BY <1>5, <1>7, <2>2, <2>3, <2>4 DEF PagesInv, Answer
  <2> QED  BY <1>4, <1>8, <2>1, <2>5 DEF PageHistoryInv, there, merged
<1>10. CASE q.status # "ok"
  <2>1. UNCHANGED <<txHistory, txHistoryNext>>
    BY <1>10 DEF Detail!loadMoreHistory
  <2> QED  BY <1>4, <1>7, <1>8, <2>1 DEF PageHistoryInv, there
<1> QED  BY <1>9, <1>10

LEMMA StepHistory ==
  ASSUME Detail!TypeOK, PageHistoryInv, [Detail!Next]_(Detail!pageVars)
  PROVE  PageHistoryInv'
<1>1. CASE Detail!World
  BY <1>1, WorldKeepsHistory
<1>2. CASE Detail!RetryBalances
  <2>1. Loads' \subseteq Loads
    BY <1>2, AskedLoads DEF Detail!RetryBalances, Loads
  <2> QED  BY <1>2, <2>1, SameHistory DEF Detail!RetryBalances, Detail!server, Detail!view
<1>3. ASSUME NEW t \in Detail!Tx \ First, Detail!TxEvent(t)
      PROVE  PageHistoryInv'
  <2>1. Loads' \subseteq Loads
    BY <1>3, EffectLoads DEF Detail!TxEvent, Loads
  <2> QED  BY <1>3, <2>1, SameHistory DEF Detail!TxEvent, Detail!server, Detail!view
<1>4. ASSUME NEW q \in pageCalls, Detail!ServePage(q)
      PROVE  PageHistoryInv'
  BY <1>4, ServeKeepsHistory
<1>5. ASSUME NEW q \in pageCalls, Detail!Arrives(q)
      PROVE  PageHistoryInv'
  <2>1. UNCHANGED txs
    BY <1>5 DEF Detail!Arrives, Detail!server
  <2>2. CASE Detail!reloadHistory(q)
    BY <2>1, <2>2, ReloadKeepsHistory
  <2>3. CASE Detail!loadMoreHistory(q)
    BY <2>1, <2>3, MoreKeepsHistory
  <2>4. CASE Detail!reloadBalances(q)
    <3>1. Loads' \subseteq Loads
      BY <2>4 DEF Detail!reloadBalances, Detail!Others, Loads
    <3> QED  BY <2>1, <2>4, <3>1, SameHistory DEF Detail!reloadBalances, Detail!view
  <2>5. CASE Detail!fund(q)
    <3>1. Loads' \subseteq Loads
      BY <2>5, AskedLoads DEF Detail!fund, Detail!Others, Loads
    <3> QED  BY <2>1, <2>5, <3>1, SameHistory DEF Detail!fund, Detail!view
  <2>6. CASE Detail!refresh(q)
    <3> DEFINE there == Detail!There(txs)
    <3> DEFINE again == Detail!PageCall("reload", TRUE, 0)
    <3>1. again.kind = "reload" /\ again.after = 0 /\ again.status = "sent" /\ again.next = 0
      BY DEF Detail!PageCall
    <3>2. pageCalls' = Detail!Others(q) \cup {again}
      BY <2>6 DEF Detail!refresh
    <3> HIDE DEF again
    <3>3. Loads' \subseteq Loads \cup {again}
      BY <3>2 DEF Detail!Others, Loads
    <3>4. UNCHANGED <<txHistory, txHistoryNext, loadingMoreTxs>>
          /\ (overlapped' <=> overlapped \/ loadingMoreTxs)
      BY <2>6 DEF Detail!refresh, Detail!view
    <3>5. PagesInv(there, txHistory, txHistoryNext, loadingMoreTxs, overlapped, Loads)
      BY DEF PageHistoryInv
    <3> HIDE DEF there
    <3>6. PagesInv(there, txHistory, txHistoryNext, loadingMoreTxs, overlapped', Loads')
      BY <3>1, <3>3, <3>4, <3>5 DEF PagesInv, Answer
    <3> QED  BY <2>1, <3>4, <3>6 DEF PageHistoryInv, there
  <2> QED  BY <1>5, <2>2, <2>3, <2>4, <2>5, <2>6 DEF Detail!Arrives
<1>6. CASE Detail!ShowMore
  <2> DEFINE there == Detail!There(txs)
  <2> DEFINE more == Detail!PageCall("more", FALSE, txHistoryNext)
  <2>1. more.kind = "more" /\ more.after = txHistoryNext /\ more.status = "sent" /\ more.next = 0
    BY DEF Detail!PageCall
  <2>2. pageCalls' = pageCalls \cup {more}
    BY <1>6 DEF Detail!ShowMore
  <2> HIDE DEF more
  <2>3. Loads' \subseteq Loads \cup {more}
    BY <2>2 DEF Loads
  <2>4. /\ UNCHANGED <<txs, txHistory, txHistoryNext>> /\ txHistoryNext # 0
        /\ ~loadingMoreTxs /\ loadingMoreTxs' = TRUE
        /\ (overlapped' <=> overlapped \/ \E p \in pageCalls : p.kind = "reload")
    BY <1>6 DEF Detail!ShowMore, Detail!Move, Detail!server
  <2>5. PagesInv(there, txHistory, txHistoryNext, loadingMoreTxs, overlapped, Loads)
    BY DEF PageHistoryInv
  <2>6. \A q \in Loads : q.kind # "more" /\ (q.kind = "reload" => overlapped')
    BY <2>4, <2>5 DEF PagesInv, Loads
  <2> HIDE DEF there
  <2>7. PagesInv(there, txHistory, txHistoryNext, TRUE, overlapped', Loads')
    BY <2>1, <2>3, <2>4, <2>5, <2>6 DEF PagesInv, Answer
  <2> QED  BY <2>4, <2>7 DEF PageHistoryInv, there
<1>7. CASE Detail!Refresh \/ Detail!Fund
  <2>1. Loads' \subseteq Loads
    BY <1>7 DEF Detail!Refresh, Detail!Fund, Detail!PageCall, Loads
  <2> QED  BY <1>7, <2>1, SameHistory DEF Detail!Refresh, Detail!Fund, Detail!Move, Detail!server, Detail!view
<1>8. CASE UNCHANGED Detail!pageVars
  <2>1. Loads' \subseteq Loads
    BY <1>8 DEF Detail!pageVars, Loads
  <2> QED  BY <1>8, <2>1, SameHistory DEF Detail!pageVars, Detail!server, Detail!view
<1> QED  BY <1>1, <1>2, <1>3, <1>4, <1>5, <1>6, <1>7, <1>8 DEF Detail!Next

LEMMA InitHistory == Detail!Init => PageHistoryInv
<1> SUFFICES ASSUME Detail!Init PROVE PageHistoryInv
  OBVIOUS
<1>1. Detail!There(txHistory) = {}
  BY DEF Detail!Init, Detail!There, Detail!In, Detail!NoTxs
<1>2. \A q \in Loads : q.kind = "reload" /\ q.after = 0 /\ q.status = "sent" /\ q.next = 0
  BY DEF Detail!Init, Loads, Detail!PageCall
<1>3. txHistoryNext = 0
  BY DEF Detail!Init
<1> QED  BY <1>1, <1>2, <1>3 DEF PageHistoryInv, PagesInv, Answer, Whole, Oldest
------------------------------------------------------------------------------
(* The balances of the wallet.                                              *)

\* Once the timer has fired after the last confirmation that was seen, Horizon accounts for
\* it, and so does every reading that counts and the balances that are shown.
BalanceInv ==
  /\ reread => lastBalanceTrigger # Detail!Null
  /\ reread /\ ~retry =>
       /\ indexed >= lastBalanceTrigger
       /\ \A q \in pageCalls : q.kind = "balance" => q.read >= lastBalanceTrigger
       /\ \/ assets = Detail!Null \/ assets >= lastBalanceTrigger
          \/ \E q \in pageCalls : q.kind = "balance"

\* Of the requests for balances the last one counts, and it reads what is indexed when it is
\* answered, or later.
LEMMA AskedBalances ==
  ASSUME NEW requests
  PROVE  /\ \A q \in Detail!BalanceAsked(requests) : q.kind = "balance" => q.read = indexed
         /\ \E q \in Detail!BalanceAsked(requests) : q.kind = "balance"
<1> DEFINE asked == Detail!PageCall("balance", FALSE, 0)
<1>1. asked.kind = "balance" /\ asked.read = indexed
  BY DEF Detail!PageCall
<1>2. Detail!BalanceAsked(requests) = {q \in requests : q.kind # "balance"} \cup {asked}
  BY DEF Detail!BalanceAsked
<1> HIDE DEF asked
<1> QED  BY <1>1, <1>2

\* The actions that ask for the balances or leave them alone.
LEMMA BalancesKept ==
  ASSUME Detail!TypeOK, BalanceInv, UNCHANGED <<assets, lastBalanceTrigger, retry, reread, indexed>>,
         \/ {q \in pageCalls' : q.kind = "balance"} = {q \in pageCalls : q.kind = "balance"}
         \/ \E requests : pageCalls' = Detail!BalanceAsked(requests)
  PROVE  BalanceInv'
<1>1. CASE {q \in pageCalls' : q.kind = "balance"} = {q \in pageCalls : q.kind = "balance"}
  BY <1>1 DEF BalanceInv
<1>2. ASSUME NEW requests, pageCalls' = Detail!BalanceAsked(requests)
      PROVE  BalanceInv'
  <2>1. /\ \A q \in pageCalls' : q.kind = "balance" => q.read = indexed
        /\ \E q \in pageCalls' : q.kind = "balance"
    BY <1>2, AskedBalances
  <2> QED  BY <2>1 DEF BalanceInv
<1> QED  BY <1>1, <1>2

LEMMA EffectKeepsBalances ==
  ASSUME Detail!TypeOK, BalanceInv, NEW requests, Detail!Effect(requests), UNCHANGED <<assets, indexed>>,
         \/ {q \in requests : q.kind = "balance"} = {q \in pageCalls : q.kind = "balance"}
         \/ \E others : requests = Detail!BalanceAsked(others)
  PROVE  BalanceInv'
<1> DEFINE count == Detail!Confirmed(Detail!Merged(txHistory', liveTxns'))
<1>1. count \in 0 .. Txs /\ count # Detail!Null
  BY Counts DEF Detail!Null
<1>2. CASE txHistoryLoaded' /\ lastBalanceTrigger \notin {Detail!Null, count}
  BY <1>1, <1>2 DEF Detail!Effect, Detail!RetryAfter, BalanceInv
<1>3. CASE ~(txHistoryLoaded' /\ lastBalanceTrigger \notin {Detail!Null, count})
  <2>1. pageCalls' = requests /\ UNCHANGED <<retry, reread>>
        /\ (lastBalanceTrigger' = lastBalanceTrigger \/ lastBalanceTrigger = Detail!Null)
    BY <1>3 DEF Detail!Effect
  <2>2. CASE lastBalanceTrigger' = lastBalanceTrigger
    BY <2>1, <2>2, BalancesKept
  <2>3. CASE lastBalanceTrigger = Detail!Null
    BY <2>1, <2>3 DEF BalanceInv
  <2> QED  BY <2>1, <2>2, <2>3
<1> QED  BY <1>2, <1>3

LEMMA StepBalances ==
  ASSUME Detail!TypeOK, BalanceInv, [Detail!Next]_(Detail!pageVars)
  PROVE  BalanceInv'
<1>1. CASE Detail!World
  <2>1. indexed' \in Int /\ indexed \in Int /\ indexed' >= indexed
    <3>1. Detail!Confirmed(txs) \in Int
      BY Counts
    <3> QED  BY <1>1, <3>1 DEF Detail!World, Detail!Indexes, Detail!Recorded, Detail!Confirms, Detail!TypeOK
  <2>2. UNCHANGED <<pageCalls, assets, lastBalanceTrigger, retry, reread>>
    BY <1>1 DEF Detail!World, Detail!money, Detail!reading
  <2>3. lastBalanceTrigger \in Int
    BY DEF Detail!TypeOK, Detail!Null
  <2> QED  BY <2>1, <2>2, <2>3 DEF BalanceInv
<1>2. CASE Detail!RetryBalances
  <2>1. /\ \A q \in pageCalls' : q.kind = "balance" => q.read = indexed
        /\ \E q \in pageCalls' : q.kind = "balance"
    BY <1>2, AskedBalances DEF Detail!RetryBalances
  <2> QED  BY <1>2, <2>1 DEF Detail!RetryBalances, Detail!server, BalanceInv
<1>3. ASSUME NEW t \in Detail!Tx \ First, Detail!TxEvent(t)
      PROVE  BalanceInv'
  BY <1>3, EffectKeepsBalances DEF Detail!TxEvent, Detail!server
<1>4. ASSUME NEW q \in pageCalls, Detail!ServePage(q)
      PROVE  BalanceInv'
  <2> DEFINE r == [q EXCEPT !.status = "ok", !.next = Detail!NextCursor(q.after),
                            !.got = [t \in Detail!Tx |-> IF t \in Detail!Page(q.after) THEN txs[t] ELSE "none"]]
  <2>1. r.kind = q.kind /\ q.kind # "balance"
    BY <1>4 DEF Detail!ServePage, Detail!TypeOK, Detail!PageCalls
  <2>2. pageCalls' = (pageCalls \ {q}) \cup {r}
    BY <1>4 DEF Detail!ServePage
  <2> HIDE DEF r
  <2> QED  BY <1>4, <2>1, <2>2, BalancesKept DEF Detail!ServePage, Detail!server, Detail!money, Detail!reading
<1>5. ASSUME NEW q \in pageCalls, Detail!Arrives(q)
      PROVE  BalanceInv'
  <2>1. UNCHANGED indexed
    BY <1>5 DEF Detail!Arrives, Detail!server
  <2>2. q.kind # "balance" =>
          {c \in Detail!Others(q) : c.kind = "balance"} = {c \in pageCalls : c.kind = "balance"}
    BY DEF Detail!Others
  <2>3. CASE Detail!reloadHistory(q)
    <3> DEFINE asked == IF q.refresh THEN Detail!BalanceAsked(Detail!Others(q)) ELSE Detail!Others(q)
    <3>1. \/ {c \in asked : c.kind = "balance"} = {c \in pageCalls : c.kind = "balance"}
          \/ \E others : asked = Detail!BalanceAsked(others)
      BY <2>2, <2>3 DEF Detail!reloadHistory
    <3>2. Detail!Effect(asked) /\ UNCHANGED assets
      BY <2>3 DEF Detail!reloadHistory
    <3> HIDE DEF asked
    <3> QED  BY <2>1, <3>1, <3>2, EffectKeepsBalances
  <2>4. CASE Detail!loadMoreHistory(q)
    BY <2>1, <2>2, <2>4, EffectKeepsBalances DEF Detail!loadMoreHistory
  <2>5. CASE Detail!reloadBalances(q)
    <3>1. q.read \in Int /\ indexed \in Int /\ lastBalanceTrigger \in Int
      BY DEF Detail!TypeOK, Detail!PageCalls, Detail!Null
    <3>2. assets' = Detail!Null \/ (assets' \in Int /\ assets' >= q.read)
      BY <2>5, <3>1 DEF Detail!reloadBalances
    <3>3. /\ pageCalls' \subseteq pageCalls /\ q.kind = "balance"
          /\ UNCHANGED <<lastBalanceTrigger, retry, reread>>
      BY <2>5 DEF Detail!reloadBalances, Detail!Others, Detail!reading
    <3> QED  BY <2>1, <3>1, <3>2, <3>3 DEF BalanceInv
  <2>6. CASE Detail!refresh(q)
    <3> DEFINE again == Detail!PageCall("reload", TRUE, 0)
    <3>1. again.kind = "reload"
      BY DEF Detail!PageCall
    <3>2. pageCalls' = Detail!Others(q) \cup {again} /\ q.kind # "balance"
      BY <2>6 DEF Detail!refresh
    <3> HIDE DEF again
    <3>3. {c \in pageCalls' : c.kind = "balance"} = {c \in pageCalls : c.kind = "balance"}
      BY <2>2, <3>1, <3>2
    <3> QED  BY <2>1, <2>6, <3>3, BalancesKept DEF Detail!refresh, Detail!money, Detail!reading
  <2>7. CASE Detail!fund(q)
    <3>1. \/ {c \in pageCalls' : c.kind = "balance"} = {c \in pageCalls : c.kind = "balance"}
          \/ \E others : pageCalls' = Detail!BalanceAsked(others)
      BY <2>2, <2>7 DEF Detail!fund
    <3> QED  BY <2>1, <2>7, <3>1, BalancesKept DEF Detail!fund, Detail!money, Detail!reading
  <2> QED  BY <1>5, <2>3, <2>4, <2>5, <2>6, <2>7 DEF Detail!Arrives
<1>6. ASSUME NEW call, call.kind # "balance", pageCalls' = pageCalls \cup {call},
             UNCHANGED <<assets, lastBalanceTrigger, retry, reread, indexed>>
      PROVE  BalanceInv'
  <2>1. {c \in pageCalls' : c.kind = "balance"} = {c \in pageCalls : c.kind = "balance"}
    BY <1>6
  <2> QED  BY <1>6, <2>1, BalancesKept
<1>7. CASE Detail!ShowMore
  <2>1. Detail!PageCall("more", FALSE, txHistoryNext).kind # "balance"
    BY DEF Detail!PageCall
  <2> QED  BY <1>6, <1>7, <2>1 DEF Detail!ShowMore, Detail!Move, Detail!server, Detail!money, Detail!reading
<1>8. CASE Detail!Refresh
  <2>1. Detail!PageCall("sync", TRUE, 0).kind # "balance"
    BY DEF Detail!PageCall
  <2> QED  BY <1>6, <1>8, <2>1 DEF Detail!Refresh, Detail!Move, Detail!server, Detail!money, Detail!reading
<1>9. CASE Detail!Fund
  <2>1. Detail!PageCall("fund", FALSE, 0).kind # "balance"
    BY DEF Detail!PageCall
  <2> QED  BY <1>6, <1>9, <2>1 DEF Detail!Fund, Detail!Move, Detail!server, Detail!money, Detail!reading
<1>10. CASE UNCHANGED Detail!pageVars
  BY <1>10 DEF Detail!pageVars, Detail!server, Detail!money, Detail!reading, BalanceInv
<1> QED  BY <1>1, <1>2, <1>3, <1>4, <1>5, <1>7, <1>8, <1>9, <1>10 DEF Detail!Next

LEMMA PageInductive == Detail!Spec => [](Detail!TypeOK /\ PageHistoryInv /\ BalanceInv)
<1>1. Detail!Init => Detail!TypeOK /\ PageHistoryInv /\ BalanceInv
  <2>1. Detail!Init => BalanceInv
    BY DEF Detail!Init, BalanceInv
  <2> QED  BY <2>1, InitPageTyped, InitHistory
<1>2. ASSUME Detail!TypeOK /\ PageHistoryInv /\ BalanceInv, [Detail!Next]_(Detail!pageVars)
      PROVE  (Detail!TypeOK /\ PageHistoryInv /\ BalanceInv)'
  BY <1>2, StepPageTyped, StepHistory, StepBalances
<1> QED  BY <1>1, <1>2, PTL DEF Detail!Spec

\* In the interface as a whole the page of a wallet moves by the steps of WalletPage, or not at all.
LEMMA InterfacePage == InterfaceSpec => Detail!Spec
<1>1. InterfaceInit => Detail!Init
  BY DEF InterfaceInit
<1>2. [InterfaceNext]_interfaceVars => [Detail!Next]_(Detail!pageVars)
  BY DEF InterfaceNext, interfaceVars, detailVars, Detail!pageVars, Detail!server, Detail!view,
         Detail!money, Detail!reading, Detail!buttons
<1> QED
  BY <1>1, <1>2, PTL DEF InterfaceSpec, Detail!Spec

\* For any number of transactions, pages of any size, refreshes and payments that come in
\* meanwhile, the fetched history has no gap.
THEOREM NoGapInHistory == InterfaceSpec => []HistoryWithoutGap
<1>1. PageHistoryInv => HistoryWithoutGap
  BY DEF PageHistoryInv, PagesInv, Whole, NoGap, HistoryWithoutGap, Detail!HistoryWithoutGap
<1> QED
  BY InterfacePage, PageInductive, <1>1, PTL

\* However many readings of the balances are answered in whatever order, those that are shown
\* at the end account for every confirmation that the page saw.
THEOREM BalancesCatchUp == InterfaceSpec => []QuietBalancesAreCurrent
<1>1. BalanceInv => QuietBalancesAreCurrent
  BY DEF BalanceInv, QuietBalancesAreCurrent, Detail!QuietBalancesAreCurrent
<1> QED
  BY InterfacePage, PageInductive, <1>1, PTL
------------------------------------------------------------------------------
(* The forms.                                                               *)

\* What a request names.
NamedBy(requests) ==
  \A q \in requests : /\ q.kind = "held" => q.for \in Wallet
                      /\ q.kind = "query" => q.for \in Pay!Query

\* The answer that counts is an answer to what the form asks for.
Current(requests, f) == \A q \in requests : q.kind = "query" /\ q.latest => q.for = Pay!Asks(f)

FormTypeInv == Pay!TypeOK /\ NamedBy(formCalls)

AnswerInv ==
  /\ query.data # None => query.data = Pay!Asks(form)
  /\ Current(formCalls, form)

\* The asset on the dialog is one that is held, unless the assets or the wallet were read anew;
\* the dialog of the send form keeps its recipient, and so its answer.
DialogInv ==
  form.page = "send" /\ form.confirming =>
    /\ form.asset \in Pay!assets \cup {Native} \/ changedUnderDialog
    /\ form.to # None /\ query.data # None

FormInv == FormTypeInv /\ AnswerInv /\ DialogInv

LEMMA AsksTyped ==
  ASSUME NEW f \in Pay!Forms
  PROVE  Pay!Asks(f) \in Pay!Query
<1>1. f.to \in Recipient \cup {None} /\ f.from \in Wallet \cup {None} /\ f.asset \in Asset
      /\ f.receive \in Asset \cup {None} /\ f.amount \in Pay!Amount
  BY DEF Pay!Forms
<1> QED  BY <1>1 DEF Pay!Asks, Pay!quoteReady, Pay!Query, Pay!Quote

\* The receive asset that the swap form takes is another one than it pays.
LEMMA ReceivedTyped ==
  ASSUME NEW f \in Pay!Forms, NEW options \in BOOLEAN
  PROVE  Pay!Received(f, options) \in Asset \cup {None}
<1>1. Native \in Asset /\ (CHOOSE x \in Asset \ {Native} : TRUE) \in Asset
  BY PartsAssumption DEF Pay!FormsAssumption
<1>2. f.receive \in Asset \cup {None}
  BY DEF Pay!Forms
<1> QED  BY <1>1, <1>2 DEF Pay!Received

\* Requests that a later one supersedes are as they were, but for that.
LEMMA SupersededTyped ==
  ASSUME NEW requests \in SUBSET (Pay!FormCalls), NEW kind
  PROVE  /\ Pay!Superseded(kind, requests) \in SUBSET (Pay!FormCalls)
         /\ \A c \in Pay!Superseded(kind, requests) :
              \E q \in requests : /\ c.kind = q.kind /\ c.for = q.for
                                  /\ c.latest <=> q.latest /\ q.kind # kind
<1>1. \A c \in Pay!Superseded(kind, requests) : \E q \in requests :
        c = [q EXCEPT !.latest = q.latest /\ q.kind # kind]
  BY DEF Pay!Superseded
<1>2. ASSUME NEW q \in requests, NEW m \in BOOLEAN
      PROVE  /\ [q EXCEPT !.latest = m] \in Pay!FormCalls
             /\ [q EXCEPT !.latest = m].kind = q.kind
             /\ [q EXCEPT !.latest = m].for = q.for
             /\ [q EXCEPT !.latest = m].latest = m
  BY DEF Pay!FormCalls
<1>3. ASSUME NEW q \in requests, NEW c, c = [q EXCEPT !.latest = q.latest /\ q.kind # kind]
      PROVE  /\ c \in Pay!FormCalls /\ c.kind = q.kind /\ c.for = q.for
             /\ c.latest <=> q.latest /\ q.kind # kind
  <2> DEFINE m == q.latest /\ q.kind # kind
  <2>1. m \in BOOLEAN
    OBVIOUS
  <2>2. c = [q EXCEPT !.latest = m]
    BY <1>3
  <2>3. c \in Pay!FormCalls /\ c.kind = q.kind /\ c.for = q.for /\ c.latest = m
    BY <1>2, <2>1, <2>2
  <2> QED  BY <2>3
<1> QED  BY <1>1, <1>3

\* Asking for the assets of a wallet supersedes no question about the payment.
LEMMA HeldTyped ==
  ASSUME NEW requests \in SUBSET (Pay!FormCalls), NamedBy(requests), NEW w \in Wallet \cup {None}
  PROVE  LET asked == Pay!HeldAsked(w, requests)
         IN  /\ asked \in SUBSET (Pay!FormCalls) /\ NamedBy(asked)
             /\ \A f : Current(requests, f) => Current(asked, f)
<1> DEFINE call == Pay!Call("held", w)
<1> DEFINE others == Pay!Superseded("held", requests)
<1>1. CASE w = None
  BY <1>1 DEF Pay!HeldAsked
<1>2. CASE w # None
  <2>1. call \in Pay!FormCalls /\ call.kind = "held" /\ call.for \in Wallet
    BY <1>2 DEF Pay!Call, Pay!FormCalls
  <2>2. Pay!HeldAsked(w, requests) = others \cup {call}
    BY <1>2 DEF Pay!HeldAsked
  <2> HIDE DEF call
  <2>3. /\ others \in SUBSET (Pay!FormCalls)
        /\ \A c \in others : \E q \in requests : /\ c.kind = q.kind /\ c.for = q.for
                                                 /\ c.latest <=> q.latest /\ q.kind # "held"
    BY SupersededTyped
  <2> HIDE DEF others
  <2> QED  BY <2>1, <2>2, <2>3 DEF NamedBy, Current
<1> QED  BY <1>1, <1>2

\* A change of the form keeps its answer only if it asks for the same.
LEMMA BecomesTyped ==
  ASSUME FormTypeInv, NEW f \in Pay!Forms, f.page = form.page, NEW options \in BOOLEAN,
         NEW requests \in SUBSET (Pay!FormCalls), NamedBy(requests),
         Pay!Becomes(f, options, requests)
  PROVE  /\ form' \in Pay!Forms /\ query' \in Pay!Queries
         /\ formCalls' \in SUBSET (Pay!FormCalls) /\ NamedBy(formCalls')
         /\ form'.page = f.page /\ form'.confirming = f.confirming /\ form'.asset = f.asset
         /\ form'.to = f.to /\ (f.page = "send" /\ f.to = form.to => query' = query)
         /\ AnswerInv /\ Current(requests, form) => AnswerInv'
<1> DEFINE others == Pay!Superseded("query", requests)
<1>1. Pay!Received(f, options) \in Asset \cup {None}
  BY ReceivedTyped
<1>2. /\ form' \in Pay!Forms /\ form'.page = f.page /\ form'.confirming = f.confirming
      /\ form'.asset = f.asset /\ form'.to = f.to
  BY <1>1 DEF Pay!Becomes, Pay!Forms
<1>5. ASSUME f.page = "send", f.to = form.to
      PROVE  Pay!Deps(form') = Pay!Deps(form)
  BY <1>2, <1>5 DEF Pay!Deps
<1>3. CASE Pay!Deps(form') = Pay!Deps(form)
  <2>1. query' = query /\ formCalls' = requests
    BY <1>3 DEF Pay!Becomes
  <2>2. Pay!Asks(form') = Pay!Asks(form)
    BY <1>2, <1>3 DEF Pay!Deps, Pay!Asks, Pay!quoteReady
  <2> QED  BY <1>2, <2>1, <2>2 DEF FormTypeInv, Pay!TypeOK, AnswerInv, Current
<1>4. CASE Pay!Deps(form') # Pay!Deps(form)
  <2> DEFINE ready == Pay!Asks(form') # None
  <2>1. query' = [Pay!NoQuery EXCEPT !.loading = ready, !.timer = ready] /\ formCalls' = others
    BY <1>4 DEF Pay!Becomes
  <2>2. query' \in Pay!Queries /\ query'.data = None
    <3>1. ready \in BOOLEAN
      OBVIOUS
    <3> HIDE DEF ready
    <3> QED  BY <2>1, <3>1 DEF Pay!NoQuery, Pay!Queries, Pay!Query
  <2>3. /\ others \in SUBSET (Pay!FormCalls)
        /\ \A c \in others : \E q \in requests : /\ c.kind = q.kind /\ c.for = q.for
                                                 /\ c.latest <=> q.latest /\ q.kind # "query"
    BY SupersededTyped
  <2> HIDE DEF others
  <2>4. NamedBy(formCalls') /\ Current(formCalls', form')
    BY <2>1, <2>3 DEF NamedBy, Current
  <2> QED  BY <1>2, <1>4, <1>5, <2>1, <2>2, <2>3, <2>4 DEF AnswerInv
<1> QED  BY <1>3, <1>4

\* What the form asks for does not depend on its memo or its dialog.
LEMMA AsksSame ==
  ASSUME NEW f \in Pay!Forms
  PROVE  /\ \A m : Pay!Asks([f EXCEPT !.memo = m]) = Pay!Asks(f)
         /\ \A c : Pay!Asks([f EXCEPT !.confirming = c]) = Pay!Asks(f)
         /\ \A s : Pay!Asks([f EXCEPT !.submitting = s]) = Pay!Asks(f)
BY DEF Pay!Forms, Pay!Asks, Pay!quoteReady

\* What is held is of the wallets that hold it.
LEMMA AssetsHeld == ASSUME FormTypeInv PROVE Pay!assets \subseteq Asset
BY PartsAssumption DEF FormTypeInv, Pay!TypeOK, Pay!assets, Pay!FormsAssumption

\* What a change of the form leaves true, if the dialog was not open or opens on an asset that
\* is held.
LEMMA ChangeKeeps ==
  ASSUME FormInv, NEW f \in Pay!Forms, f.page = form.page, Pay!Change(f),
         f.confirming /\ f.page = "send"
           => f.asset \in Pay!assets /\ f.to = form.to /\ f.to # None /\ query.data # None
  PROVE  FormInv'
<1>0. Pay!Move /\ UNCHANGED <<offered, changedUnderDialog, submitted>>
  BY DEF Pay!Change, Pay!OnForm
<1>1. /\ Pay!Becomes(f, held # None, formCalls) /\ UNCHANGED held
      /\ (held # None) \in BOOLEAN /\ formCalls \in SUBSET (Pay!FormCalls) /\ NamedBy(formCalls)
  BY DEF Pay!Change, FormInv, FormTypeInv, Pay!TypeOK
<1>2. /\ form' \in Pay!Forms /\ query' \in Pay!Queries
      /\ formCalls' \in SUBSET (Pay!FormCalls) /\ NamedBy(formCalls')
      /\ form'.page = f.page /\ form'.confirming = f.confirming /\ form'.asset = f.asset
      /\ form'.to = f.to /\ (f.page = "send" /\ f.to = form.to => query' = query)
      /\ AnswerInv /\ Current(formCalls, form) => AnswerInv'
  BY <1>1, BecomesTyped DEF FormInv
<1>3. formMoves' \in 0 .. FormMoves
  BY <1>0, PartsAssumption DEF FormInv, FormTypeInv, Pay!TypeOK, Pay!Move
<1>4. AnswerInv'
  BY <1>2 DEF FormInv, AnswerInv
<1>5. DialogInv'
  BY <1>0, <1>1, <1>2 DEF DialogInv, Pay!assets
<1> QED  BY <1>0, <1>1, <1>2, <1>3, <1>4, <1>5 DEF FormInv, FormTypeInv, Pay!TypeOK

\* Another wallet is chosen; under the dialog that is remembered.
LEMMA SenderKeeps ==
  ASSUME FormInv, NEW w \in Wallet, Pay!Sender(w), Pay!Move, offered' \subseteq Wallet,
         changedUnderDialog' \in BOOLEAN,
         form.page = "send" /\ form.confirming => changedUnderDialog', UNCHANGED submitted
  PROVE  FormInv'
<1> DEFINE f == [form EXCEPT !.from = w]
<1> DEFINE asked == Pay!HeldAsked(w, formCalls)
<1>1. f \in Pay!Forms /\ f.page = form.page /\ f.confirming = form.confirming /\ f.to = form.to
  BY DEF FormInv, FormTypeInv, Pay!TypeOK, Pay!Forms
<1>2. /\ asked \in SUBSET (Pay!FormCalls) /\ NamedBy(asked)
      /\ \A g : Current(formCalls, g) => Current(asked, g)
  BY HeldTyped DEF FormInv, FormTypeInv, Pay!TypeOK
<1>3. Pay!Becomes(f, held # None, asked) /\ (held # None) \in BOOLEAN
  BY DEF Pay!Sender
<1> HIDE DEF f, asked
<1>4. /\ form' \in Pay!Forms /\ query' \in Pay!Queries
      /\ formCalls' \in SUBSET (Pay!FormCalls) /\ NamedBy(formCalls')
      /\ form'.page = f.page /\ form'.confirming = f.confirming
      /\ form'.to = f.to /\ (f.page = "send" /\ f.to = form.to => query' = query)
      /\ AnswerInv /\ Current(asked, form) => AnswerInv'
  BY <1>1, <1>2, <1>3, BecomesTyped DEF FormInv
<1>5. AnswerInv'
  BY <1>2, <1>4 DEF FormInv, AnswerInv
<1>6. DialogInv'
  BY <1>1, <1>4 DEF FormInv, DialogInv
<1>7. held' \in Wallet \cup {None} /\ formMoves' \in 0 .. FormMoves
  BY PartsAssumption DEF FormInv, FormTypeInv, Pay!TypeOK, Pay!Sender, Pay!Move
<1> QED  BY <1>4, <1>5, <1>6, <1>7 DEF FormInv, FormTypeInv, Pay!TypeOK

\* The assets that are held arrive, and the first of them is chosen.
LEMMA HoldingsKeep ==
  ASSUME FormInv, NEW q \in formCalls, Pay!holdings(q), UNCHANGED <<offered, changedUnderDialog, formMoves>>
  PROVE  FormInv'
<1> DEFINE rest == Pay!Rest(q)
<1> DEFINE f == [form EXCEPT !.asset = Native]
<1>1. /\ rest \in SUBSET (Pay!FormCalls) /\ NamedBy(rest) /\ Current(rest, form) /\ q.for \in Wallet
  BY DEF Pay!Rest, Pay!holdings, FormInv, FormTypeInv, Pay!TypeOK, AnswerInv, NamedBy, Current
<1>2. f \in Pay!Forms /\ f.page = form.page /\ f.asset = Native /\ f.to = form.to
      /\ f.confirming = form.confirming
  BY PartsAssumption DEF FormInv, FormTypeInv, Pay!TypeOK, Pay!Forms, Pay!FormsAssumption
<1>3. CASE q.latest
  <2>1. held' = q.for /\ Pay!Becomes(f, TRUE, rest) /\ UNCHANGED submitted
    BY <1>3 DEF Pay!holdings
  <2> HIDE DEF f, rest
  <2>2. /\ form' \in Pay!Forms /\ query' \in Pay!Queries
        /\ formCalls' \in SUBSET (Pay!FormCalls) /\ NamedBy(formCalls')
        /\ form'.asset = f.asset /\ form'.page = f.page /\ form'.confirming = f.confirming
        /\ form'.to = f.to /\ (f.page = "send" /\ f.to = form.to => query' = query)
        /\ AnswerInv /\ Current(rest, form) => AnswerInv'
    BY <1>1, <1>2, <2>1, BecomesTyped DEF FormInv
  <2>3. AnswerInv' /\ DialogInv'
    BY <1>1, <1>2, <2>2 DEF FormInv, DialogInv
  <2> QED  BY <1>1, <2>1, <2>2, <2>3 DEF FormInv, FormTypeInv, Pay!TypeOK
<1>4. CASE ~q.latest
  <2>1. formCalls' = rest /\ UNCHANGED <<held, form, query, submitted>>
    BY <1>4 DEF Pay!holdings
  <2> HIDE DEF rest
  <2> QED  BY <1>1, <2>1 DEF FormInv, FormTypeInv, Pay!TypeOK, AnswerInv, DialogInv, Pay!assets
<1> QED  BY <1>3, <1>4

LEMMA FormArrivalKeeps ==
  ASSUME FormInv, NEW q \in formCalls, Pay!Arrives(q)
  PROVE  FormInv'
<1>0. UNCHANGED <<offered, changedUnderDialog, formMoves>>
  BY DEF Pay!Arrives
<1>1. /\ Pay!Rest(q) \in SUBSET (Pay!FormCalls) /\ NamedBy(Pay!Rest(q)) /\ Current(Pay!Rest(q), form)
      /\ form \in Pay!Forms /\ query \in Pay!Queries
  BY DEF Pay!Rest, FormInv, FormTypeInv, Pay!TypeOK, AnswerInv, NamedBy, Current
<1>2. CASE Pay!holdings(q)
  BY <1>0, <1>2, HoldingsKeep
<1>3. CASE Pay!answered(q)
  <2>1. /\ formCalls' = Pay!Rest(q) /\ UNCHANGED <<held, submitted>>
        /\ q.kind = "query" /\ q.for \in Pay!Query
    BY <1>3 DEF Pay!answered, FormInv, FormTypeInv, NamedBy
  <2>2. /\ form' \in Pay!Forms /\ Pay!Asks(form') = Pay!Asks(form)
        /\ form'.page = form.page /\ form'.confirming = form.confirming /\ form'.asset = form.asset
        /\ form'.to = form.to
    <3>1. BringsMemo \subseteq Recipient
      BY PartsAssumption DEF Pay!FormsAssumption
    <3>2. CASE form' = form
      BY <1>1, <3>2
    <3>3. CASE q.for \in BringsMemo /\ form' = [form EXCEPT !.memo = q.for]
      <4>1. form' \in Pay!Forms
        BY <1>1, <3>1, <3>3 DEF Pay!Forms
      <4>2. Pay!Asks(form') = Pay!Asks(form)
        BY <1>1, <3>3, AsksSame
      <4> QED  BY <1>1, <3>3, <4>1, <4>2 DEF Pay!Forms
    <3> QED  BY <1>3, <3>2, <3>3 DEF Pay!answered
  <2>3. /\ query' \in Pay!Queries /\ (query'.data # None => query'.data = Pay!Asks(form))
        /\ query'.data \in {query.data, Pay!Asks(form)}
    <3>1. CASE q.latest
      <4>1. q.for = Pay!Asks(form)
        BY <2>1, <3>1 DEF FormInv, AnswerInv, Current
      <4>2. query' = [query EXCEPT !.data = q.for, !.loading = FALSE]
        BY <1>3, <3>1 DEF Pay!answered, Pay!latestRun
      <4> QED  BY <1>1, <2>1, <4>1, <4>2 DEF Pay!Queries
    <3>2. CASE ~q.latest
      BY <1>1, <1>3, <3>2 DEF Pay!answered, Pay!latestRun, FormInv, AnswerInv
    <3> QED  BY <3>1, <3>2
  <2>4. AnswerInv'
    BY <1>1, <2>1, <2>2, <2>3 DEF AnswerInv, Current
  <2>5. DialogInv'
    BY <1>0, <2>1, <2>2, <2>3 DEF FormInv, DialogInv, Pay!assets, Pay!Asks
  <2> QED  BY <1>0, <1>1, <2>1, <2>2, <2>3, <2>4, <2>5 DEF FormInv, FormTypeInv, Pay!TypeOK
<1>4. CASE Pay!accepted(q)
  <2>1. form' \in Pay!Forms /\ form'.confirming = FALSE
    BY <1>1, <1>4 DEF Pay!accepted, Pay!Forms
  <2>2. query' \in Pay!Queries /\ query'.data = None /\ formCalls' = {}
    BY <1>4 DEF Pay!accepted, Pay!NoQuery, Pay!Queries, Pay!Query
  <2>3. UNCHANGED <<held, submitted>>
    BY <1>4 DEF Pay!accepted
  <2> QED  BY <1>0, <2>1, <2>2, <2>3 DEF FormInv, FormTypeInv, Pay!TypeOK, NamedBy, AnswerInv, Current, DialogInv
<1>5. CASE Pay!Fails(q)
  <2>1. formCalls' = Pay!Rest(q) /\ UNCHANGED <<held, submitted>>
    BY <1>5 DEF Pay!Fails
  <2>2. query' \in Pay!Queries /\ query'.data = query.data
    BY <1>1, <1>5 DEF Pay!Fails, Pay!Queries
  <2>3. /\ form' \in Pay!Forms /\ Pay!Asks(form') = Pay!Asks(form)
        /\ form'.confirming => form' = form
    <3>1. CASE form' = form
      BY <1>1, <3>1
    <3>2. CASE form' = [form EXCEPT !.confirming = FALSE, !.submitting = FALSE]
      <4>1. form' \in Pay!Forms /\ form'.confirming = FALSE
        BY <1>1, <3>2 DEF Pay!Forms
      <4>2. Pay!Asks(form') = Pay!Asks(form)
        BY <1>1, <3>2 DEF Pay!Forms, Pay!Asks, Pay!quoteReady
      <4> QED  BY <4>1, <4>2
    <3> QED  BY <1>5, <3>1, <3>2 DEF Pay!Fails
  <2>4. AnswerInv'
    BY <1>1, <2>1, <2>2, <2>3 DEF FormInv, AnswerInv, Current
  <2>5. DialogInv'
    BY <1>0, <2>1, <2>2, <2>3 DEF FormInv, DialogInv, Pay!assets
  <2> QED  BY <1>0, <1>1, <2>1, <2>2, <2>3, <2>4, <2>5 DEF FormInv, FormTypeInv, Pay!TypeOK
<1> QED  BY <1>2, <1>3, <1>4, <1>5 DEF Pay!Arrives

\* The person fills the form while no dialog covers it.
LEMMA FillKeeps ==
  ASSUME FormInv, Pay!Fill
  PROVE  FormInv'
<1>1. /\ form \in Pay!Forms /\ Pay!assets \subseteq Asset
      /\ form.receive \in Asset \cup {None} /\ form.asset \in Asset
  BY AssetsHeld DEF FormInv, FormTypeInv, Pay!TypeOK, Pay!Forms
<1>2. ASSUME NEW f \in Pay!Forms, f.page = form.page, f.confirming = form.confirming, Pay!Change(f)
      PROVE  FormInv'
  <2>1. form.page = "send" => ~form.confirming
    BY <1>2 DEF Pay!Change, Pay!OnForm, Pay!dialogShown, FormInv, DialogInv
  <2> QED  BY <1>2, <2>1, ChangeKeeps
<1>3. ASSUME NEW r \in Recipient \cup {None}, Pay!Change([form EXCEPT !.to = r])
      PROVE  FormInv'
  <2> DEFINE f == [form EXCEPT !.to = r]
  <2>1. f \in Pay!Forms /\ f.page = form.page /\ f.confirming = form.confirming
    BY <1>1 DEF Pay!Forms
  <2> HIDE DEF f
  <2> QED  BY <1>2, <1>3, <2>1 DEF f
<1>4. ASSUME NEW n \in Pay!Amount, Pay!Change([form EXCEPT !.amount = n])
      PROVE  FormInv'
  <2> DEFINE f == [form EXCEPT !.amount = n]
  <2>1. f \in Pay!Forms /\ f.page = form.page /\ f.confirming = form.confirming
    BY <1>1 DEF Pay!Forms
  <2> HIDE DEF f
  <2> QED  BY <1>2, <1>4, <2>1 DEF f
<1>5. ASSUME NEW x \in Pay!assets, Pay!Change([form EXCEPT !.asset = x])
      PROVE  FormInv'
  <2> DEFINE f == [form EXCEPT !.asset = x]
  <2>1. f \in Pay!Forms /\ f.page = form.page /\ f.confirming = form.confirming
    BY <1>1 DEF Pay!Forms
  <2> HIDE DEF f
  <2> QED  BY <1>2, <1>5, <2>1 DEF f
<1>6. ASSUME Pay!Change([form EXCEPT !.memo = "typed", !.memoTouched = TRUE])
      PROVE  FormInv'
  <2> DEFINE f == [form EXCEPT !.memo = "typed", !.memoTouched = TRUE]
  <2>1. f \in Pay!Forms /\ f.page = form.page /\ f.confirming = form.confirming
    BY <1>1 DEF Pay!Forms
  <2> HIDE DEF f
  <2> QED  BY <1>2, <1>6, <2>1 DEF f
<1>7. ASSUME NEW x \in Asset, Pay!Change([form EXCEPT !.receive = x])
      PROVE  FormInv'
  <2> DEFINE f == [form EXCEPT !.receive = x]
  <2>1. f \in Pay!Forms /\ f.page = form.page /\ f.confirming = form.confirming
    BY <1>1 DEF Pay!Forms
  <2> HIDE DEF f
  <2> QED  BY <1>2, <1>7, <2>1 DEF f
<1> QED  BY <1>3, <1>4, <1>5, <1>6, <1>7 DEF Pay!Fill

LEMMA FlipKeeps ==
  ASSUME FormInv, Pay!flip
  PROVE  FormInv'
<1> DEFINE f == [form EXCEPT !.asset = form.receive, !.receive = form.asset, !.amount = 0]
<1>1. form \in Pay!Forms /\ form.receive \in Asset
  BY AssetsHeld DEF FormInv, FormTypeInv, Pay!TypeOK, Pay!flip, Pay!canFlip
<1>2. form.page = "swap" /\ 0 \in Pay!Amount
  BY DEF Pay!flip, Pay!Amount
<1>4. f \in Pay!Forms /\ f.page = "swap"
  BY <1>1, <1>2 DEF Pay!Forms
<1>3. Pay!Change(f)
  BY DEF Pay!flip
<1> HIDE DEF f
<1> QED  BY <1>2, <1>3, <1>4, ChangeKeeps

\* The dialog opens on an asset that is held: of others there is nothing to send.
LEMMA ReviewKeeps ==
  ASSUME FormInv, Pay!review
  PROVE  FormInv'
<1> DEFINE f == [form EXCEPT !.confirming = TRUE]
<1>1. form \in Pay!Forms /\ form.amount \in Int
  <2>1. form \in Pay!Forms
    BY DEF FormInv, FormTypeInv, Pay!TypeOK
  <2>2. form.amount \in Pay!Amount
    BY <2>1 DEF Pay!Forms
  <2> QED  BY <2>1, <2>2 DEF Pay!Amount
<1>2. f \in Pay!Forms /\ f.page = form.page /\ f.asset = form.asset /\ f.to = form.to
  BY <1>1 DEF Pay!Forms
<1>3. Pay!Change(f)
  BY DEF Pay!review
<1>4. form.page = "send" => form.asset \in Pay!assets /\ form.to # None /\ query.data # None
  BY <1>1 DEF Pay!review, Pay!canSubmit, Pay!overBalance, Pay!selectedAsset, FormInv, AnswerInv, Pay!Asks
<1> HIDE DEF f
<1> QED  BY <1>2, <1>3, <1>4, ChangeKeeps

LEMMA StepForm ==
  ASSUME FormInv, [Pay!Next]_(Pay!formVars)
  PROVE  FormInv'
<1>0. form \in Pay!Forms /\ query \in Pay!Queries /\ formCalls \in SUBSET (Pay!FormCalls)
  BY DEF FormInv, FormTypeInv, Pay!TypeOK
<1>1. ASSUME NEW ws \in SUBSET Wallet, Pay!WalletsChange(ws)
      PROVE  FormInv'
  <2>0. Pay!Move /\ offered' = ws /\ UNCHANGED submitted
    BY <1>1 DEF Pay!WalletsChange
  <2>1. CASE form.page = "send" /\ ws # {} /\ form.from \notin ws
    <3>1. PICK w \in ws : Pay!Sender(w)
      BY <1>1, <2>1 DEF Pay!WalletsChange
    <3>2. changedUnderDialog' = form.confirming /\ form.confirming \in BOOLEAN
      BY <1>0, <1>1, <2>1 DEF Pay!WalletsChange, Pay!Forms
    <3> QED  BY <2>0, <3>1, <3>2, SenderKeeps
  <2>2. CASE ~(form.page = "send" /\ ws # {} /\ form.from \notin ws)
    <3> DEFINE asked == Pay!HeldAsked(form.from, formCalls)
    <3>1. formCalls' \in {formCalls, asked} /\ UNCHANGED <<form, held, query, changedUnderDialog>>
      BY <1>1, <2>2 DEF Pay!WalletsChange
    <3>2. formMoves' \in 0 .. FormMoves
      BY <2>0, PartsAssumption DEF FormInv, FormTypeInv, Pay!TypeOK, Pay!Move
    <3>3. form.from \in Wallet \cup {None}
      BY <1>0 DEF Pay!Forms
    <3>4. /\ asked \in SUBSET (Pay!FormCalls) /\ NamedBy(asked)
          /\ \A f : Current(formCalls, f) => Current(asked, f)
      BY <1>0, <3>3, HeldTyped DEF FormInv, FormTypeInv
    <3> HIDE DEF asked
    <3> QED  BY <2>0, <3>1, <3>2, <3>4 DEF FormInv, FormTypeInv, Pay!TypeOK, AnswerInv, DialogInv, Pay!assets
  <2> QED  BY <2>1, <2>2
<1>2. ASSUME NEW w \in Wallet, Pay!ChooseWallet(w)
      PROVE  FormInv'
  <2>1. /\ Pay!Move /\ UNCHANGED <<offered, changedUnderDialog, submitted>>
        /\ form.page = "send" => ~form.confirming
        /\ Pay!Sender(w)
    BY <1>2 DEF Pay!ChooseWallet, Pay!OnForm, Pay!dialogShown, FormInv, DialogInv
  <2> QED  BY <2>1, SenderKeeps DEF FormInv, FormTypeInv, Pay!TypeOK
<1>3. CASE Pay!cancelReview
  <2>1. Pay!Move /\ UNCHANGED <<offered, held, query, formCalls, submitted>> /\ changedUnderDialog' = FALSE
    BY <1>3 DEF Pay!cancelReview, Pay!Dialog
  <2>2. form' \in Pay!Forms /\ form'.confirming = FALSE
    BY <1>0, <1>3 DEF Pay!cancelReview, Pay!Forms
  <2>3. Pay!Asks(form') = Pay!Asks(form)
    BY <1>0, <1>3, AsksSame DEF Pay!cancelReview
  <2>4. formMoves' \in 0 .. FormMoves
    BY <2>1, PartsAssumption DEF FormInv, FormTypeInv, Pay!TypeOK, Pay!Move
  <2> QED  BY <2>1, <2>2, <2>3, <2>4 DEF FormInv, FormTypeInv, Pay!TypeOK, AnswerInv, Current, DialogInv
<1>4. CASE Pay!confirm
  <2> DEFINE submit == Pay!Call("submit", None)
  <2>1. /\ Pay!Move /\ UNCHANGED <<offered, held, query>> /\ changedUnderDialog' = FALSE
        /\ formCalls' = formCalls \cup {submit}
    BY <1>4 DEF Pay!confirm, Pay!Dialog
  <2>2. submit \in Pay!FormCalls /\ submit.kind = "submit"
    BY DEF Pay!Call, Pay!FormCalls, Pay!Query
  <2> HIDE DEF submit
  <2>5. /\ form' \in Pay!Forms /\ Pay!Asks(form') = Pay!Asks(form)
        /\ form'.page = "send" => form'.confirming = FALSE
    <3>1. CASE form.page = "send"
      <4>1. form' = [form EXCEPT !.confirming = FALSE]
        BY <1>4, <3>1 DEF Pay!confirm
      <4>2. form' \in Pay!Forms /\ form'.confirming = FALSE
        BY <1>0, <4>1 DEF Pay!Forms
      <4>3. Pay!Asks(form') = Pay!Asks(form)
        BY <1>0, <4>1, AsksSame
      <4> QED  BY <4>2, <4>3
    <3>2. CASE form.page # "send"
      <4>1. form' = [form EXCEPT !.submitting = TRUE]
        BY <1>4, <3>2 DEF Pay!confirm
      <4>2. form' \in Pay!Forms /\ form'.page = form.page
        BY <1>0, <4>1 DEF Pay!Forms
      <4>3. Pay!Asks(form') = Pay!Asks(form)
        BY <1>0, <4>1, AsksSame
      <4> QED  BY <3>2, <4>2, <4>3
    <3> QED  BY <3>1, <3>2
  <2>6. submitted' \in Pay!Payments
    <3>1. /\ form.from \in Wallet \cup {None} /\ form.amount \in Pay!Amount
          /\ form.asset \in Asset /\ Native \in Asset /\ query.data \in Pay!Query
      BY <1>0, PartsAssumption DEF Pay!Forms, Pay!Queries, Pay!FormsAssumption
    <3> QED  BY <1>4, <3>1 DEF Pay!confirm, Pay!Payments
  <2>7. formMoves' \in 0 .. FormMoves
    BY <2>1, PartsAssumption DEF FormInv, FormTypeInv, Pay!TypeOK, Pay!Move
  <2>8. NamedBy(formCalls') /\ Current(formCalls', form')
    BY <2>1, <2>2, <2>5 DEF FormInv, FormTypeInv, NamedBy, AnswerInv, Current
  <2> QED  BY <2>1, <2>2, <2>5, <2>6, <2>7, <2>8 DEF FormInv, FormTypeInv, Pay!TypeOK, AnswerInv, DialogInv
<1>5. CASE Pay!TimerFires
  <2> DEFINE ask == Pay!Call("query", Pay!Asks(form))
  <2>1. ask \in Pay!FormCalls /\ ask.kind = "query" /\ ask.for = Pay!Asks(form) /\ ask.for \in Pay!Query
    BY <1>0, AsksTyped DEF Pay!Call, Pay!FormCalls
  <2>2. /\ formCalls' = formCalls \cup {ask} /\ query' = [query EXCEPT !.timer = FALSE]
        /\ UNCHANGED <<offered, form, held, changedUnderDialog, submitted, formMoves>>
    BY <1>5 DEF Pay!TimerFires
  <2> HIDE DEF ask
  <2>3. query' \in Pay!Queries /\ query'.data = query.data
    BY <1>0, <2>2 DEF Pay!Queries
  <2> QED  BY <2>1, <2>2, <2>3 DEF FormInv, FormTypeInv, Pay!TypeOK, NamedBy, AnswerInv, Current, DialogInv, Pay!assets
<1>6. CASE Pay!TrustlineReady
  <2> DEFINE asked == Pay!HeldAsked(form.from, formCalls)
  <2>1. form.from \in Wallet \cup {None}
    BY <1>0 DEF Pay!Forms
  <2>2. /\ asked \in SUBSET (Pay!FormCalls) /\ NamedBy(asked)
        /\ \A f : Current(formCalls, f) => Current(asked, f)
    BY <1>0, <2>1, HeldTyped DEF FormInv, FormTypeInv
  <2>3. formCalls' = asked /\ Pay!Move /\ UNCHANGED <<offered, form, held, query, changedUnderDialog, submitted>>
    BY <1>6 DEF Pay!TrustlineReady
  <2> HIDE DEF asked
  <2>4. formMoves' \in 0 .. FormMoves
    BY <2>3, PartsAssumption DEF FormInv, FormTypeInv, Pay!TypeOK, Pay!Move
  <2> QED  BY <2>2, <2>3, <2>4 DEF FormInv, FormTypeInv, Pay!TypeOK, AnswerInv, DialogInv, Pay!assets
<1>7. CASE UNCHANGED Pay!formVars
  BY <1>7 DEF Pay!formVars, FormInv, FormTypeInv, Pay!TypeOK, AnswerInv, Current, DialogInv, Pay!assets
<1>8. ASSUME NEW q \in formCalls, Pay!Arrives(q)
      PROVE  FormInv'
  BY <1>8, FormArrivalKeeps
<1> QED  BY <1>1, <1>2, <1>3, <1>4, <1>5, <1>6, <1>7, <1>8, FillKeeps, FlipKeeps, ReviewKeeps DEF Pay!Next

LEMMA InitForm == Pay!Init => FormInv
<1> SUFFICES ASSUME Pay!Init PROVE FormInv
  OBVIOUS
<1>1. PICK name \in {"send", "swap"}, w \in IF offered = {} THEN {None} ELSE Wallet :
        /\ form = [page |-> name, from |-> w, to |-> None, memo |-> "", memoTouched |-> FALSE,
                   amount |-> 0, asset |-> Native, receive |-> None, confirming |-> FALSE,
                   submitting |-> FALSE]
        /\ formCalls = Pay!HeldAsked(w, {})
  BY DEF Pay!Init
<1>2. w \in Wallet \cup {None} /\ offered \subseteq Wallet
  BY DEF Pay!Init
<1>3. form \in Pay!Forms /\ form.confirming = FALSE
  <2>1. 0 \in Pay!Amount /\ Native \in Asset
    BY PartsAssumption DEF Pay!Amount, Pay!FormsAssumption
  <2> QED  BY <1>1, <1>2, <2>1 DEF Pay!Forms
<1>4. formCalls \in SUBSET (Pay!FormCalls) /\ NamedBy(formCalls) /\ Current(formCalls, form)
  <2>1. NamedBy({}) /\ Current({}, form)
    BY DEF NamedBy, Current
  <2> QED  BY <1>1, <1>2, <2>1, HeldTyped
<1>5. query \in Pay!Queries /\ query.data = None
  BY DEF Pay!Init, Pay!NoQuery, Pay!Queries, Pay!Query
<1>6. formMoves \in 0 .. FormMoves
  <2>1. formMoves = 0
    BY DEF Pay!Init
  <2> QED  BY <2>1, PartsAssumption
<1> QED  BY <1>2, <1>3, <1>4, <1>5, <1>6 DEF Pay!Init, FormInv, FormTypeInv, Pay!TypeOK, AnswerInv, DialogInv

LEMMA FormInductive == Pay!Spec => []FormInv
BY InitForm, StepForm, PTL DEF Pay!Spec

\* In the interface as a whole the forms move by the steps of PaymentForms, or not at all.
LEMMA InterfaceForms == InterfaceSpec => Pay!Spec
<1>1. InterfaceInit => Pay!Init
  BY DEF InterfaceInit
<1>2. [InterfaceNext]_interfaceVars => [Pay!Next]_(Pay!formVars)
  BY DEF InterfaceNext, interfaceVars, formVars, Pay!formVars
<1> QED
  BY <1>1, <1>2, PTL DEF InterfaceSpec, Pay!Spec

\* Only confirm submits, and it submits the answer and the asset on the dialog.
LEMMA OnlyConfirmSubmits ==
  ASSUME FormInv, [Pay!Next]_(Pay!formVars), submitted' # submitted
  PROVE  submitted'.for = Pay!Asks(form) /\ (submitted'.asset = form.asset \/ changedUnderDialog)
<1>1. Pay!confirm
  BY DEF Pay!Next, Pay!formVars, Pay!WalletsChange, Pay!ChooseWallet, Pay!OnForm, Pay!Fill, Pay!flip,
         Pay!review, Pay!Change, Pay!cancelReview, Pay!TimerFires, Pay!TrustlineReady, Pay!Arrives,
         Pay!holdings, Pay!answered, Pay!accepted, Pay!Fails
<1>2. query.data # None /\ form.confirming /\ form.page \in {"send", "swap"}
  BY <1>1 DEF Pay!confirm, Pay!Dialog, Pay!dialogShown, Pay!Move, FormInv, FormTypeInv, Pay!TypeOK, Pay!Forms
<1>3. submitted'.for = query.data
      /\ submitted'.asset = IF form.page = "swap" \/ Pay!selectedAsset THEN form.asset ELSE Native
  BY <1>1 DEF Pay!confirm
<1> QED  BY <1>2, <1>3 DEF FormInv, AnswerInv, DialogInv, Pay!selectedAsset

\* What is submitted is what the dialog names, for any recipients, wallets and assets, and
\* whatever questions are still under way.
THEOREM SubmitsShown == InterfaceSpec => SubmitsWhatIsShown
<1>1. ASSUME FormInv, [Pay!Next]_(Pay!formVars)
      PROVE  [submitted' # submitted =>
                /\ submitted'.for = Pay!Asks(form)
                /\ submitted'.asset = form.asset \/ changedUnderDialog]_(Pay!formVars)
  BY <1>1, OnlyConfirmSubmits
<1> QED
  BY <1>1, InterfaceForms, FormInductive, PTL DEF SubmitsWhatIsShown, Pay!SubmitsWhatIsShown, Pay!Spec
------------------------------------------------------------------------------
(* The whole interface.                                                     *)

LEMMA InterfaceWallets == InterfaceSpec => Spec
<1>1. InterfaceInit => Init
  BY DEF InterfaceInit
<1>2. [InterfaceNext]_interfaceVars => [Next]_walletVars
  BY DEF InterfaceNext, interfaceVars, walletVars
<1> QED
  BY <1>1, <1>2, PTL DEF InterfaceSpec, Spec

LEMMA InterfaceTrustlines == InterfaceSpec => TrustlineSpec
<1>1. InterfaceInit => TrustlineInit
  BY DEF InterfaceInit
<1>2. [InterfaceNext]_interfaceVars => [TrustlineNext]_trustlineVars
  BY DEF InterfaceNext, interfaceVars, trustlineVars
<1> QED
  BY <1>1, <1>2, PTL DEF InterfaceSpec, TrustlineSpec

\* Whatever answers come late, every part of the interface keeps its type.
THEOREM InterfaceTypeCorrect == InterfaceSpec => []InterfaceTypeOK
<1>1. Lists!ListsAssumption /\ Lists!Spec => []Lists!TypeOK
  BY Lists!ListsTypeCorrect, InterfaceAssumption, PartsAssumption
<1>2. InterfaceSpec => [](part \in Parts)
  <2>1. InterfaceInit => part \in Parts
    BY DEF InterfaceInit
  <2>2. part \in Parts /\ [InterfaceNext]_interfaceVars => (part \in Parts)'
    BY DEF InterfaceNext, interfaceVars
  <2> QED  BY <2>1, <2>2, PTL DEF InterfaceSpec
<1>3. part \in Parts /\ Lists!TypeOK /\ TypeOK /\ Detail!TypeOK /\ Pay!TypeOK /\ TrustlineTypeOK /\ TeamTypeOK
      => InterfaceTypeOK
  BY PartsAssumption DEF InterfaceTypeOK
<1>4. FormInv => Pay!TypeOK
  BY DEF FormInv, FormTypeInv
<1> QED
  BY <1>1, <1>2, <1>3, <1>4, InterfaceLists, InterfaceWallets, InterfacePage, InterfaceForms, InterfaceTrustlines,
     InterfaceTeam, WalletsTypeCorrect, PageInductive, FormInductive, TrustlinesTypeCorrect,
     TeamTypeCorrect, PTL
==============================================================================
