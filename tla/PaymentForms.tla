----------------------------- MODULE PaymentForms -----------------------------
(***************************************************************************)
(* The forms that send a payment and swap assets (useSendForm, useSwapForm, *)
(* useDebouncedQuery, useBalances, useSwapAssets and their pages).         *)
(*                                                                         *)
(* A recipient is known by its text, a quote by what was asked for; a text *)
(* that cannot be resolved counts as none.  Every asset that is held has a *)
(* balance that sends an amount of 1 and not of 2.  Effects run to their   *)
(* end before the person does anything else.  The dialog covers the form,   *)
(* while there is an answer to show in it.                                  *)
(***************************************************************************)
EXTENDS WebInterface

CONSTANTS Asset, Native,   \* the first of the assets that are held
          Holds,           \* the assets of each wallet
          Recipient,
          BringsMemo,      \* recipients that resolve to an address with a memo
          NeedsMemo        \* recipients that ask for a memo

FormsAssumption ==
  /\ Holds \in [Wallet -> SUBSET Asset]
  /\ Native \in Asset /\ Asset # {Native}
  /\ BringsMemo \subseteq Recipient
  /\ None \notin Recipient

VARIABLES
  offered,    \* the ready wallets of the list
  form,
  held,       \* the wallet whose assets are held, None for none
  query,      \* what useDebouncedQuery returns, and its timer
  formCalls,
  changedUnderDialog,  \* ghost: the wallet left the list while the dialog was open
  submitted,  \* ghost: the payment that was submitted last
  formMoves

formVars == <<offered, form, held, query, formCalls, changedUnderDialog, submitted, formMoves>>

Amount == 0 .. 2
Quote == Wallet \X Asset \X Asset \X Amount
Query == Recipient \cup Quote \cup {None}

Forms == [page : {"send", "swap", "left"}, from : Wallet \cup {None}, to : Recipient \cup {None},
          memo : Recipient \cup {"", "typed"}, memoTouched : BOOLEAN, amount : Amount, asset : Asset,
          receive : Asset \cup {None}, confirming : BOOLEAN, submitting : BOOLEAN]
Queries == [data : Query, error : BOOLEAN, loading : BOOLEAN, timer : BOOLEAN]

\* latest: it was not superseded by a later request of its kind.
FormCalls == [kind : {"held", "query", "submit"}, for : Query \cup Wallet, latest : BOOLEAN]
Payments == [wallet : Wallet \cup {None}, asset : Asset, for : Query, amount : Amount]

TypeOK ==
  /\ offered \subseteq Wallet
  /\ form \in Forms
  /\ held \in Wallet \cup {None}
  /\ query \in Queries
  /\ formCalls \subseteq FormCalls
  /\ changedUnderDialog \in BOOLEAN
  /\ submitted \in Payments \cup {None}
  /\ formMoves \in 0 .. MaxMoves

Call(kind, for) == [kind |-> kind, for |-> for, latest |-> TRUE]
Superseded(kind, requests) == {[q EXCEPT !.latest = @ /\ q.kind # kind] : q \in requests}

\* reload of useBalances and of useSwapAssets, for the wallet that is chosen.
HeldAsked(w, requests) ==
  IF w = None THEN requests ELSE Superseded("held", requests) \cup {Call("held", w)}

NoQuery == [data |-> None, error |-> FALSE, loading |-> FALSE, timer |-> FALSE]

Init ==
  /\ offered \in {{}, Wallet}
  /\ \E page \in {"send", "swap"}, w \in IF offered = {} THEN {None} ELSE Wallet :
       /\ form = [page |-> page, from |-> w, to |-> None, memo |-> "", memoTouched |-> FALSE,
                  amount |-> 0, asset |-> Native, receive |-> None, confirming |-> FALSE,
                  submitting |-> FALSE]
       /\ formCalls = HeldAsked(w, {})
  /\ held = None /\ query = NoQuery /\ changedUnderDialog = FALSE /\ submitted = None
  /\ formMoves = 0

assets == IF held = None THEN {} ELSE Holds[held]
selectedAsset == form.asset \in assets

quoteReady(f) == f.from # None /\ f.receive # None /\ f.asset # f.receive /\ f.amount > 0

\* What the form asks for, None if there is nothing to ask, and what it depends on.
Asks(f) == IF f.page = "send" THEN f.to
           ELSE IF quoteReady(f) THEN <<f.from, f.asset, f.receive, f.amount>> ELSE None
Deps(f) == IF f.page = "send" THEN f.to ELSE <<f.from, f.asset, f.receive, f.amount>>

overBalance == form.amount > (IF selectedAsset THEN 1 ELSE 0)
memoMissing == query.data \in NeedsMemo /\ form.memo = ""
needsTrustline == form.receive \notin assets \cup {Native, None}
canFlip == form.receive \in assets

canSubmit ==
  /\ query.data # None /\ ~overBalance
  /\ IF form.page = "send" THEN form.from # None /\ form.amount > 0 /\ ~memoMissing
     ELSE quoteReady(form) /\ ~needsTrustline /\ ~form.submitting
------------------------------------------------------------------------------
(* The effects of a change of the form.                                     *)

\* The receive asset that is left when the pay asset or the options change; the options are
\* there with the first holdings, XLM first.
Received(f, known) ==
  IF f.page = "send" \/ f.receive \notin {None, f.asset} THEN f.receive
  ELSE IF ~known THEN None
  ELSE IF f.asset # Native THEN Native ELSE CHOOSE a \in Asset \ {Native} : TRUE

\* A change of what is asked for clears the answer and starts the timer again.
Becomes(f, known, requests) ==
  LET g == [f EXCEPT !.receive = Received(f, known)]
      ready == Asks(g) # None
  IN  /\ form' = g
      /\ IF Deps(g) = Deps(form) THEN query' = query /\ formCalls' = requests
         ELSE /\ query' = [NoQuery EXCEPT !.loading = ready, !.timer = ready]
              /\ formCalls' = Superseded("query", requests)

\* The send form drops the old wallet's assets, the swap form keeps them until the answer.
Sender(w) ==
  /\ held' = IF form.page = "send" THEN None ELSE held
  /\ Becomes([form EXCEPT !.from = w], held # None, HeldAsked(w, formCalls))
------------------------------------------------------------------------------
(* Answers, the timer and the list of wallets.                              *)

Rest(q) == formCalls \ {q}

\* The assets of the wallet; the first of them is chosen.
holdings(q) ==
  /\ q.kind = "held"
  /\ IF q.latest THEN held' = q.for /\ Becomes([form EXCEPT !.asset = Native], TRUE, Rest(q))
     ELSE formCalls' = Rest(q) /\ UNCHANGED <<held, form, query>>
  /\ UNCHANGED submitted

\* Mutation: responses from superseded runs are not dropped.
latestRunAlways(q) == TRUE

latestRun(q) == q.latest

\* A memo that comes with the recipient is taken, unless one was typed; it stays for the
\* next recipient.
answered(q) ==
  /\ q.kind = "query"
  /\ formCalls' = Rest(q)
  /\ IF latestRun(q)
     THEN /\ query' = [query EXCEPT !.data = q.for, !.loading = FALSE]
          /\ form' = IF q.for \in BringsMemo /\ ~form.memoTouched THEN [form EXCEPT !.memo = q.for] ELSE form
     ELSE UNCHANGED <<query, form>>
  /\ UNCHANGED <<held, submitted>>

\* showSubmitted and openRequest leave the page.
accepted(q) ==
  /\ q.kind = "submit"
  /\ form' = [form EXCEPT !.page = "left", !.confirming = FALSE, !.submitting = FALSE]
  /\ formCalls' = {} /\ query' = NoQuery
  /\ UNCHANGED <<held, submitted>>

\* A send that fails leaves the form, which was never disabled; a swap that fails closes the
\* dialog; the swap form keeps the assets it has when they cannot be loaded.
Fails(q) ==
  /\ formCalls' = Rest(q)
  /\ query' = IF q.kind = "query" /\ latestRun(q) THEN [query EXCEPT !.error = TRUE, !.loading = FALSE]
              ELSE query
  /\ form' = IF q.kind = "submit" /\ form.submitting
             THEN [form EXCEPT !.confirming = FALSE, !.submitting = FALSE] ELSE form
  /\ UNCHANGED <<held, submitted>>

Arrives(q) ==
  /\ holdings(q) \/ answered(q) \/ accepted(q) \/ Fails(q)
  /\ UNCHANGED <<offered, changedUnderDialog, formMoves>>

TimerFires ==
  /\ query.timer
  /\ query' = [query EXCEPT !.timer = FALSE]
  /\ formCalls' = formCalls \cup {Call("query", Asks(form))}
  /\ UNCHANGED <<offered, form, held, changedUnderDialog, submitted, formMoves>>

Move == formMoves < MaxMoves /\ formMoves' = formMoves + 1 /\ form.page # "left"

\* A wallet is deleted, becomes ready, or the list of another workspace comes late: the send
\* form takes another wallet, in its dialog too; the swap form keeps the one that is gone,
\* or none, and loads its assets again when its workspace is no longer known, or is again.
WalletsChange(ws) ==
  /\ Move
  /\ ws # offered
  /\ offered' = ws
  /\ IF form.page = "send" /\ ws # {} /\ form.from \notin ws
     THEN (\E w \in ws : Sender(w)) /\ changedUnderDialog' = form.confirming
     ELSE /\ formCalls' = IF form.page = "swap" /\ (form.from \in offered) # (form.from \in ws)
                          THEN HeldAsked(form.from, formCalls) ELSE formCalls
          /\ UNCHANGED <<form, held, query, changedUnderDialog>>
  /\ UNCHANGED submitted

\* The trustline was added: the assets are loaded again, in the dialog too.
TrustlineReady ==
  /\ Move
  /\ form.page = "swap" /\ form.from # None
  /\ formCalls' = HeldAsked(form.from, formCalls)
  /\ UNCHANGED <<offered, form, held, query, changedUnderDialog, submitted>>
------------------------------------------------------------------------------
(* The person.                                                              *)

\* A quote that is cleared takes the dialog away, and the form can be changed.
dialogShown == form.confirming /\ query.data # None

OnForm == Move /\ offered # {} /\ ~dialogShown /\ UNCHANGED <<offered, changedUnderDialog, submitted>>

ChooseWallet(w) == OnForm /\ w \in offered \ {form.from} /\ Sender(w)

Change(f) == OnForm /\ Becomes(f, held # None, formCalls) /\ UNCHANGED held

Fill ==
  \/ \E r \in Recipient \cup {None} : form.page = "send" /\ Change([form EXCEPT !.to = r])
  \/ \E n \in Amount : Change([form EXCEPT !.amount = n])
  \/ \E a \in assets : Change([form EXCEPT !.asset = a])
  \/ form.page = "send" /\ Change([form EXCEPT !.memo = "typed", !.memoTouched = TRUE])
  \/ \E a \in Asset \ {form.asset} :
       form.page = "swap" /\ held # None /\ Change([form EXCEPT !.receive = a])

flip ==
  /\ form.page = "swap" /\ canFlip
  /\ Change([form EXCEPT !.asset = form.receive, !.receive = form.asset, !.amount = 0])

review == canSubmit /\ Change([form EXCEPT !.confirming = TRUE])

Dialog == Move /\ offered # {} /\ dialogShown

cancelReview ==
  /\ Dialog /\ ~form.submitting
  /\ form' = [form EXCEPT !.confirming = FALSE]
  /\ changedUnderDialog' = FALSE
  /\ UNCHANGED <<offered, held, query, formCalls, submitted>>

\* Without a selected asset the payment is one of the native asset.
confirm ==
  /\ Dialog /\ ~form.submitting
  /\ submitted' = [wallet |-> form.from, for |-> query.data, amount |-> form.amount,
                   asset |-> IF form.page = "swap" \/ selectedAsset THEN form.asset ELSE Native]
  /\ form' = IF form.page = "send" THEN [form EXCEPT !.confirming = FALSE]
             ELSE [form EXCEPT !.submitting = TRUE]
  /\ formCalls' = formCalls \cup {Call("submit", None)}
  /\ changedUnderDialog' = FALSE
  /\ UNCHANGED <<offered, held, query>>

Next ==
  \/ \E ws \in SUBSET Wallet : WalletsChange(ws)
  \/ \E w \in Wallet : ChooseWallet(w)
  \/ Fill \/ flip \/ review \/ cancelReview \/ confirm
  \/ TimerFires \/ TrustlineReady
  \/ \E q \in formCalls : Arrives(q)

Spec == Init /\ [][Next]_formVars
------------------------------------------------------------------------------
\* What is submitted is what the dialog names: the address or the quote is the answer to what
\* the form asks for now, whatever was typed, chosen and answered before in whatever order;
\* the asset is the one on the dialog, unless the wallet left the list under it: then the
\* payment is one of the native asset of another wallet.
SubmitsWhatIsShown ==
  [][submitted' # submitted =>
       /\ submitted'.for = Asks(form)
       /\ submitted'.asset = form.asset \/ changedUnderDialog]_formVars
==============================================================================
