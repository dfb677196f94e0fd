# Verification of the Stellar wallet

TLA+ models of the wallet's backend (`src/backend`) and web interface (`src/ui`), model-checked with
TLC and proved with TLAPS. The wallet keeps no private key: an MPC cluster (mpcium, 2 of 3 nodes,
over NATS) generates keys and signs; the backend decides *what* is signed, *when*, and *what it tells
its users about it*; the web interface decides what a user believes they are looking at when they
confirm or vote. The backend models are about queues, asynchronous results, timers, restarts, votes
of several people, and rows that are read in one SQL statement and changed in another. The interface
models are about answers and events that arrive late, in any order or not at all, while the user has
moved on.

Backend files below are relative to `src/backend/internal/`, interface files to `src/ui/src/`.

## The system: inventory

| Component | State it keeps | Operations | Hard behaviour | Module |
|---|---|---|---|---|
| Dispatch queue `service/dispatch_queue.go` | pending ids, ids in flight | `push`, `done`, `drain` | called by requests, MPC results, timers, errors; late and repeated calls | `DispatchQueue` |
| Transaction signing `service/transaction.go`, `sign_queue.go`, `repository/sqlite/transactions.go` | rows (`signing → broadcast → confirmed/failed`), jobs, timers | create, dispatch, `OnSign`, timeout, reconcile | duplicate and late results, timeout against result, crash between claim and outcome, deletion of the wallet in flight | `Signing`, `TransactionLifecycle` |
| Wallets and keygen `service/wallet.go`, `keygen_queue.go`, `mpc_policy.go`, `repository/sqlite/store.go` | rows (`generating → ready/failed`), timers | create, `OnKeygen`, timeout, reconcile, delete | unconditional UPDATEs, check-then-act, deletion in line | `Keygen` |
| Payment requests `service/payment_request.go`, `repository/sqlite/payment_requests.go` | request rows, votes | `hold`, approve, reject, cancel, `execute`, `settle`, reconcile | votes on stale looks and clocks, two last approvals, change of members, crash between claim and send | `Approvals`, `PaymentRequest` |
| Members and approval policy `service/workspace.go`, `approval_policy.go` and their repositories | roles, policy | remove, change role, join, set and delete policy | concurrent removals, policy counted and saved apart | `Members` |
| Invites and the team card `service/workspace_invite.go`, `components/workspace/WorkspaceMembers.tsx` | invites, members; the card's lists, its link, its buttons | invite, replace, revoke, accept, decline, expire; load, `run` | look and change are two statements; accept against revoke, replacement, decline and expiry | `Team` |
| Sign-in, workspaces and links `hooks/useAuth.ts`, `useWorkspaces.ts`, `useRoute.ts`, `components/AppShell.tsx`, `pages/Login.tsx`, `components/workspace/*` | the session, the user shown, the workspaces, the address, the links that wait | restore, sign in and out, sign out everywhere, switch, create, join, be removed, open a link | answers of an earlier session, two switches, a link that waits for sign-in | `Session` |
| Approval lists `hooks/useApprovals.ts`, `pages/Approvals.tsx`, `components/approvals/*` | pending list, history pages, policy, open request | load, load more, vote, save, open an approval link, live events, expiry | reloads, events, votes, links and switches that overlap; an end that no event tells | `ApprovalLists` |
| Wallet list `hooks/useWallets.ts`, `pages/Wallets.tsx`, `components/CreateWalletModal.tsx` | the list and the workspace it is for, dialog, open wallet | load, create, delete, open | the list of a workspace that was left arrives late | `WalletList` |
| Wallet page `hooks/useWalletDetail.ts`, `useBalances.ts`, `service/page.go` | history, cursor, live copies, balances | refresh, load more, fund, live events | refresh against load more; Horizon is behind | `WalletPage` |
| Payment forms `hooks/useSendForm.ts`, `useSwapForm.ts`, `useDebouncedQuery.ts`, `pages/Send.tsx`, `Swap.tsx` | fields, queries, the open dialog | edit, query, review, confirm | answers to superseded queries, wallets that vanish | `PaymentForms` |
| Trustline requests `hooks/useTrustlineRequest.ts`, `components/wallet/AddAssetChips.tsx` | pending assets, intervals | add, poll, finish | requests of another wallet come back | `Trustlines` |
| Event hub `realtime/hub.go`, `service/notify.go` | subscribers' buffers | subscribe, publish | lost and reordered events | as the lists see it |
| Accounts and login flows `service/auth.go`, `auth/`, `handler/auth_limit.go` | users, identities, OAuth flows, counters | register, log in, link | several statements for one registration, single-use flows | sessions only, in `Session` |
| Swaps, assets, incoming payments `service/swap.go`, `workspace_asset.go`, `wallet.go` (`SyncIncoming`) | rows, registry | swap, sync, register assets | check, then insert | incoming payments, in `WalletPage` |
| Stellar client `chain/`, cluster health `cluster/` | none / node list | build, submit, resolve | external I/O | nondeterministic steps |
| HTTP layer, configuration, e-mail, rendering | none of their own | | | not modelled |

How they interact. An HTTP handler calls one service method; services share the SQLite
database, whose pool has one connection (`repository/sqlite/database.go`, `SetMaxOpenConns(1)`),
so **each SQL statement or SQL transaction is atomic, and everything between two of them
interleaves**. The MPC client calls `OnKeygen` and `OnSign` from its own goroutines, from before
`Start` on (`app/server.go`). Timers (`time.AfterFunc`) run in goroutines of their own.
`TransactionService` reports every end of a transaction to `PaymentRequestService.settle`; `execute`
of a claimed request calls back into `TransactionService.sendPayment`. Deleting a wallet removes its
transactions; payment requests have no foreign key to either. Queues, jobs and timers live in memory
and die with the process; the rows, the cluster and the ledger do not.

The web interface is one JavaScript thread: **everything between two `await`s is atomic, and every
answer finds whatever the tab has become by then**. A handler keeps the values of the render it was
made in (its closure), a ref keeps the current one, and a setter of an unmounted component does
nothing; which of the three a line uses decides what a late answer does. Events come over one
connection, after the commit they tell of, and are dropped when the subscriber is slow.

What makes each component correct, and what could go wrong at which line, is the list of `hazards` in
`PROJECT.json`.

## Backend modules

### `DispatchQueue`, `DispatchQueueClients`
`push`, `done` and `drain` hold the mutex for their whole body, so each is one operator from a queue
`[pending, inflight]` to the new queue and the ids to dispatch. `drain`'s loop is written in closed
form: the first `Slots` ids leave the line. `DispatchQueueClients` lets any number of goroutines push
their own fresh id and finish any id at any moment, also one that never held a slot.

### `TransactionLifecycle` and `Signing`
`TransactionLifecycle` is the promise: a status moves `signing → broadcast → confirmed` (or
`failed`), final rows stay, a transaction reaches the ledger only after its signature was claimed and is
confirmed only if it did. `Signing` is the code. `tasks` is the set of pairs `<<transaction, step>>`
of goroutines between two statements; each step below is one action:

| Code | Steps |
|---|---|
| `Create`, `dispatch` | `Create` → `CreateTransaction` → `enqueueSign` (add the job, push, dispatch what was handed out) |
| `dispatchSign` | `dispatchSign`, or `dispatchSignError` (the request may have reached the cluster nevertheless) → `failSigning` → `signFinished` |
| `OnSign` | `OnSignFailed`, or `ClaimSignature` → `WalletLookup` → `Submit` → `ConfirmTransaction` / `FailTransaction` → `signFinished` |
| `WatchSignTimeout` | `SignTimeout` |
| `ReconcilePending` | `Restart` reads the rows, `ReconcilePending` handles one |
| `Store.DeleteWallet` | `DeleteWallet`: the rows become `gone` |

`asked` (the cluster may answer at any later time, again and again, with either result), `ledger` and
`Submit` (applied or not; the answer may get lost) are the outside world. Quorum checks are
nondeterministic. `DbError` fails the UPDATEs of `FailSigning`, `ClaimSignature`,
`ConfirmTransaction` and `FailTransaction`, whose errors the code only logs.

### `Keygen`
The same structure for wallets, with what is different in the code: `SetWalletStatus` and
`CompleteWalletKeygen` name the row only, the timeout looks at the wallet in one statement and fails it
in another, `dispatchKeygen` re-reads the row, and a restart that is below quorum fails wallets without
touching the queue. The cluster's result for one wallet never changes, however often it is delivered.

### `Members`
Removal and change of role with the checks of their SQL transaction, joining (`AddMember`, the effect
of an accepted invite), and the policy: `SetApprovalPolicy` counts in one statement
(`CheckApprovalPolicy`) and saves in another (`SaveApprovalPolicy`). Who calls is left out: a team
always has an owner (`AlwaysAnOwner`), so the owner check does not restrict when a change may happen.

### `PaymentRequest` and `Approvals`
`PaymentRequest` is the promise to the team, without statements, goroutines, stale looks, transaction rows or
restarts: a request is held with the number of approvals it requires, collects approvals of people other than its initiator
while it is open, begins to execute when they are enough, is sent once and only while it executes, is executed only if it
was paid, and stays closed. `Approvals` is the code; it EXTENDS `Members` and composes it with the requests: every step of `hold`, `votableRequest` and
`RecordApproval`/`RecordRejection` as two statements with anything in between, `Cancel`, expiry,
`execute` one statement after the other, and the transaction of the request with the statements of `Signing` that matter
here: the signature that arrives, the claim, and each end, which is reported by `settle`; `execute` learns of a dispatch error only
if its own goroutine dispatched. Crash and restart run `ReconcileExecuting`. The code implements `PaymentRequest`
(`ImplementsRequest`), and its transactions take the path of the same `TransactionLifecycle` that `Signing` implements
(`ImplementsLifecycle`), so the two models of a transaction agree on what it may do.

The clock is read before the SQL transaction waits for its connection (`payment_request.go:161`, `:177`, `:192`), and `insertVote`
and `CancelPaymentRequest` compare `expires_at` with that reading. So a handler reads it in the step that looks
(`votableRequest`, `Cancel`), and nothing judges it again (`Recordable`, `CancelPaymentRequest`): a request that the lists already show as
expired may still be approved, sent, rejected or cancelled by a handler that was under way at its end. `PaymentRequest` says so of
whoever decided before the end (`approving`, `stopping`), and `StoppedNeverSent` takes the end to stop a request unless such an approval is
under way. No document promises more to the second.

## Interface modules

In all of them a request is a record in a set: `Serve` or `Handle` is the server's step, `Arrives` or
`Deliver` the step in which its answer, or its failure, reaches the tab. A request may fail before
the server saw it or after it acted. `MaxMoves` and its like bound only what the person does.

### `Session`
One tab from page load to sign-out and the next sign-in: `account` and `auth` (useAuth), `hash` (the
address), `shell` (AppShell, useWorkspaces, reset when it mounts), `login`, the links in session
storage, and on the server the session of the cookie, the memberships and the invites. `App` and
`Shell` are operators that say which screen the state renders, and only the actions of that screen
are enabled. A request is `mine` while the component that sent it is mounted. The session may be
revoked at any time (`Revoke`); then the next request is answered with 401 and ends it in the tab
(`endSession`). `openLink` is the effect that opens an approval link in the workspace of its request.

Owners elsewhere end memberships (`RemoveMember`), and the tab is not told: it goes on listing the workspace until it
loads the list again, while the server refuses what it asks. `held` remembers who was ever a member, and `ListIsOfTheUser` says
that what is shown is a workspace the user belongs or belonged to. A page load keeps the address. If the session turns out to be over by
then, the sign-in page leaves the address alone, and whoever signs in next starts there, at an approval request of
the person before if that was the page (it is stored like a link). `asked` collects these addresses, and `StartsAtHome` excepts them; it
says of every other end of a session that its page is forgotten. No document promises otherwise of a page load.

Simpler than the code: the two requests of a reload are answered in one step, although the one for the invitations may fail alone
(`OnlyInvitations`); the settings page does not keep
which of its buttons waits, since it may be left and opened anew at any time; two sign-outs overlap only through the one that
`InviteAccept` offers to a wrong account.

### `ApprovalLists`
`version` is the server's truth of a request, the number of answers it had and `Closed` at the end; a
copy in `pending`, `history` or `updates` is a version. `IsCurrent` is the ref that drops loads of a
workspace that was left; `applyUpdate` merges the newest version by the number of its answers.
`late` collects what the answers to the person's own actions brought after a switch, `behind` the
requests whose events were lost or reordered: the two ghosts that the exceptions of the properties
name.

A pending request whose end passes is closed for the server from then on, and no event says so (`Expires`); the tab shows it
as pending until it loads again, which puts it into `behind`. A vote whose handler read the clock in time counts as coming before the end.
The tab may open with an approval link (`Openings`), the effect of `AppShell.tsx:86-101`: `linked` compares with the workspace that was active
when it asked and applies the request to its lists, as a vote does, or else switches (`Follow`) and opens the request
there (`arrived`). What it applies after a switch of the person is in `late`. A link that is asked for while the workspace is still to be picked
is in `Session` only, since no lists are shown then.

### `WalletList`, `WalletPage`, `PaymentForms`, `Trustlines`, `Team`
`WalletList`: `rows` with `rowsFor`, the workspace they were loaded for; `then` in a request is the
continuation that awaits it (the ceremony of a new wallet, the close of a deleted one).
`WalletPage`: transactions are numbered by creation time, a page is what the keyset cursor of
`service/page.go` returns, balances are the number of confirmed transactions that Horizon had indexed.
`PaymentForms`: the send and the swap form with one debounced query each (a timer, then a request;
`latestRun` is the counter that drops superseded answers), the dialog, which covers the form while there is an answer to show in it
(`dialogShown`), and what is submitted. `SubmitsWhatIsShown` compares the answer and the asset. It does not compare the wallet, because the code does
not keep it: when the wallet of the send form leaves the list under the open dialog, another one takes its place, and what is confirmed is a payment of the
native asset of that one. `changedUnderDialog` excepts this case from the asset; the address and the amount are as shown even then.
`Trustlines`: `polls` and `intervals` as in the hook; an interval that was replaced in the map goes on.
`Team`: the card over the server's invites, where other owners and the people invited act too; a
request is `checked` between its look, with which it reads the clock (`workspace_invite.go:277`), and its change, which compares with that reading
(`workspace_invites.go:163-167`). An invite that expires between the two is still accepted; `InviteWorksOnce` counts it as open (`StillOpen`)
until no such request is left.

`MCInterface` gives these five and `ApprovalLists` small instances. It extends `WalletList`,
`Trustlines` and `Team` and instantiates the others (`ApprovalLists` with its theorems). They share no
state but the route, so `part` chooses one of them to move in each behaviour, and the others keep one
initial state. What is proved of a part holds of it however the others move.

## Runs

| Run | Instance | Shows |
|---|---|---|
| `queue` | 4 ids, 2 slots, fairness | the limit, first in first out, no starvation |
| `signing` | 2 transactions of one wallet, 1 slot, 1 crash, 1 failing UPDATE, fairness | types, no leaked slot, no lost job, at most one submission, refinement of `TransactionLifecycle`; `SigningEnds`: nothing waits for its signature for ever; `ClaimedEnds`: a claimed transaction ends unless the process dies |
| `signing_stuck` (violation) | 1 transaction, 1 crash, fairness | `BroadcastEnds` fails: nobody looks at a `broadcast` row after a restart |
| `keygen` | 2 wallets, 1 slot, 1 crash, 1 failing UPDATE, fairness | one key at a time, no leaked slot, a ready wallet has a key, no wallet generates for ever |
| `keygen_timeout` (violation) | 1 wallet | the timeout fails a wallet that was completed after the look |
| `approvals` | 3 users, 1 request, 2 votes or cancellations handled at once, 2 events (changes of members or policy, of them 1 may be a crash), symmetric | refinement of `PaymentRequest` (with it: closed stays closed) and, for its transactions, of `TransactionLifecycle`; enough approvals of others, claimed by current approvers only, sent at most once, never sent once stopped or ended with no approval under way, executed means on the ledger; always an owner, changes of members keep the policy satisfiable |
| `approvals_live` | 2 users, 1 request, 2 votes at once, 1 change, fairness | an executing request closes |
| `approvals_restart` (violation) | 3 users, 2 votes at once, 1 crash | a restart reports a payment on the ledger as not sent, after its wallet was deleted |
| `session` | 2 users, 5 workspaces, 2 invites, 1 approval link, 1 removal, 2 visits, 2 other choices, 1 request of the person at a time | the workspaces on the screen are the user's, or were; no one starts where an earlier session ended, unless the page was loaded there; a link opens in its workspace, no spinner without a request |
| `interface` | 2 workspaces, 2 wallets; 2 requests, with and without an approval link; 3 transactions in pages of 1; 2 assets and recipients; 2 invites to one address; 2 to 5 moves | loads stay in their workspace, quiet lists and balances are current, no gap in the history, no spinner, no waiting button and no pending trustline without something under way, what is submitted is what was shown, an invite works once |
| `stale_answer` (violation) | `interface`, approval lists only | the answer to a vote that comes after a switch puts a request of the old workspace into the list of the new one |
| `wallets_late` (violation) | `interface`, wallet list only | a late list of the old workspace makes the page go back to loading, with nothing under way |

**Why the bounds are enough.** Slots only matter when one id has to wait for another: two ids and one slot
show it, four ids and two slots show a hand-over of several; the theorems below lift the queue,
the signing service and key generation to every number of ids, slots, wallets, crashes and errors. One crash is enough to
meet every line with lost memory, and it may happen during reconciliation too (then the next restart is
beyond the bound and the process stays down). With three users a request
can need two approvals of others, which is what concurrent last votes, demotions and removals need. Two events
demote and promote again, change policy and members, or change one of them around a crash; two votes at once are the two last approvals, or an
approval and what stops it. Requests do not interact except through members, so one request suffices.
In the interface two workspaces or wallets are left and come back to, which takes two switches, with an action before, between
or after them; a page size of 1 makes three transactions three pages, so that a refresh can come between the second and the third.
In the approval lists the person acts while at most one request is on its way (`MaxInflight`), which leaves two that overlap, an old load of A
with a new one of A included. Two polls are one that is not the last. Two invites to one address are a replacement. Two visits are a sign-out, or a reload, and what is
left of the session before it. One removal makes a list on the screen stale. An approval link counts as two moves (`LinkMoves`), so that a switch may still follow it.
Every bound (`MaxCalls`, `MaxEvents`, `MaxCrashes`, `MaxDbErrors`, `MaxRemovals`, `MaxVisits`, `MaxClicks`, `MaxInflight`,
`MaxMoves` and the `...Moves` that stand for it, the finite sets of ids) limits what people do or what fails, never the order of the answers. `Openings` lists what the tab may be opened with.
Ids are fresh UUIDs that are used once and people stop, so the systems may come to rest and these runs do not check deadlock; `queue` does.

**Fairness.** Every goroutine that has a next step takes it (Go's scheduler), an armed timer fires, a
process that died is started again and its start-up runs to its end. Nothing obliges a user to act, the cluster to answer, the
process to crash or a statement to fail. Fairness is stated per step, not per transaction: that two
goroutines of one transaction both go on is Go's promise. A failing UPDATE may leave a row behind until the next
restart, so `SigningEnds`, `ClaimedEnds` and `GeneratingEnds` except it. In `Approvals`, `Abandon` is fair because `Signing`
shows that a transaction leaves `signing` (`SigningEnds`), by its timer if by nothing else. The interface modules
have no fairness: a request may be unanswered for as long as the tab is open, so their spinners are stated as invariants
(whoever waits has something under way), which hold without any.

## What the violations say

1. *A crash between claim and outcome is for ever* (`signing_stuck`). `PendingTransactions` reads `signing` rows only, so a
   row in `broadcast` stays there, its payment request stays `executing`, and the user does not learn whether the
   payment is on the ledger.
2. *A timeout can fail a ready wallet* (`keygen_timeout`). Unlike `FailSigning`, `SetWalletStatus` is unconditional.
3. *A missing row is not a payment that was not sent* (`approvals_restart`). `DeleteWallet` takes the rows of payments in
   flight with it, and `ReconcileExecuting` then invites the user to start the payment again.
4. *The answer to a vote belongs to the workspace it was cast in* (`stale_answer`). `applyUpdate` compares with the workspace of its
   own closure, `setPolicy` with nothing; the loads next to them use the ref. What a payment is answered with when it was held, and the request of an
   approval link (`AppShell.tsx:95`), go the same way. `LoadsStayInTheirWorkspace` holds of everything but these four: votes, payments, saved policies
   and approval links.
5. *A late list takes the place of the newer one* (`wallets_late`). `useWallets.reload` keeps whatever comes last. What is shown as loaded is
   still the right workspace's (`LoadedListIsOfTheWorkspace`), but the page may load for ever.

Met while modelling, and promised otherwise by no document: a vote or an invite may come in after its end, when its
handler read the clock before; a request that expires stays on the screen until the lists are loaded again; a removed member's tab
goes on listing the workspace; a page load whose session is over leaves its address to the next user; after a restart the transactions that `ReconcilePending` re-arms hold no slot of the new
queue, so the cluster may work on more of them than the limit (`OneKeygenAtATime` is stated for one process life); a policy can be saved that
nobody can meet, when members leave between its check and its save; `load` of the team card and `applyUpdate` of the wallet
list let an older answer win; the refresh and the `Show more` of a history may overlap and leave a gap, which
`HistoryWithoutGap` excepts by name.

Met while proving:

- *A closed request can drop out of the approval history* (`hooks/useApprovals.ts`, `loadHistory` and `loadMoreHistory`; the comment at
  line 15 says that the history "stays current from live updates"). A request closes while an older page is on its way that was read
  before it closed; its event puts it into the history; a second load of the first page, which it is too old for, takes it
  out again; and the older page does not bring it. No list shows it until the next reload. It takes four moves of the person,
  one more than the run `interface` gives, so the proof of `QuietListsAreCurrent` met it first. The property excepts the requests of
  `behind`, which counts these since then (`Missed`); with four moves TLC agrees.
- *Numbers that are never recorded are not a gap.* `HistoryWithoutGap` once asked for every number between two fetched
  transactions, which is false of a history in which one was never recorded; three transactions were too few to show it. It now asks for every
  transaction that is there.

## Proofs

`DispatchQueueLemmas` proves what `drain`, `push` and `done` do to any queue, for any set of ids and any limit: the closed
form takes the first ids, keeps the order, never exceeds the limit, and stops only when nobody waits or no slot is free.
`DispatchQueueProofs`, `SigningProofs` and `KeygenProofs` rest on it.

| Theorem | Statement | Inductive invariant |
|---|---|---|
| `DispatchQueueProofs!TypeCorrect`, `NeverFlooded`, `InOrder`, `NeverIdle` | types, limit, first in first out, no idle slot | what was handed out, followed by what waits, is what was pushed; no id waits twice or while in flight |
| `SigningProofs!TypeCorrect`, `NeverFlooded` | types; the limit of the sign queue | `TypeInv`: the queue is one that `DispatchQueueLemmas` speaks of |
| `SigningProofs!SlotsComeBack` | `NoSlotLeak` | `SlotInv`: the releasing step is one that comes after the id joined the queue; otherwise the step `create` or `enqueue` of the same id could count as the one that frees its slot |
| `SigningProofs!NeverSubmittedTwice` | `SubmittedAtMostOnce` | `ClaimInv`: one goroutine at most is past the claim, on a row that had been signed and never will be again, and it has not submitted before |
| `SigningProofs!Refinement` | `Signing` implements `TransactionLifecycle` | the same; it makes the steps after the claim the abstract ones |
| `KeygenProofs!TypeCorrect`, `SlotsComeBack`, `ReadyWalletHasKey`, `OneAtATime` | types, no leaked slot, no ready wallet without a key, one key at a time | `SlotInv` as above; `KeyInv`: the completion starts only after a success; `HeldInv`: before a crash or database error, a generating wallet that left the line holds its slot and nobody is about to release it |
| `SigningProofs!JobsAreKept` | `QueuedHasJob` | `JobInv`: no id waits twice, and an id that is not yet in line is neither waiting, in flight nor about to be dispatched; without it a second entry of an id could outlive the job of the first |
| `ApprovalsProofs!MembersTypeCorrect`, `AlwaysAnOwner`, `ApproversKept` | types, an owner, no change of members breaks the policy | `HasOwner` with the types |
| `ApprovalsProofs!TypeCorrect`, `TeamHasOwner`, `TeamKeepsApprovers` | types; what `Members` promises, with crashes and payments in between | the steps on the team are those of `MembersSpec`, or a restart that drops what had been looked up |
| `ApprovalsProofs!NeverSentTwice`, `SentOnEnoughApprovals`, `StoppedForGood`, `CurrentApproversClaim` | `SentAtMostOnce`, `EnoughApprovers`, `StoppedNeverSent`, `ClaimedByCurrentApprovers` | `ProcessInv`: nobody votes, holds or sends before the start-up is over; `VoteInv`: no vote is the initiator's, a rejection has stopped the request, whatever was claimed had enough approvals; `ClaimInv`: one goroutine at a time is between the claim and the row, on an executing request without a row |
| `ApprovalsProofs!ExecutedWasPaid`, `ClosedForGood` | `ExecutedIsOnLedger`, `ClosedStaysClosed` | `TransactionInv`: one goroutine is past the claim of the row, and every step that reports success finds the payment on the ledger |
| `ApprovalsProofs!Refinement`, `TransactionsRefine` | `Approvals` implements `PaymentRequest`; its transactions implement `TransactionLifecycle` | all four parts together |
| `SessionProofs!Inductive`, `TypeCorrect` | the inductive invariant; types | `TypeInv`: a request names what it is about, and the switch of an approval link is to the workspace of its request |
| `SessionProofs!ShowsOwnWorkspaces`, `SpinnersHaveARequest` | `ListIsOfTheUser`, `LoadingIsUnderWay` | `TabInv`: which requests can be on their way on which screen (`Fits`), at most one of them a sign-in, and the cookie's session is the shown user's or over; this is what makes an answer of an earlier session harmless, because it is no longer `mine`; and every list, held or on its way, is of workspaces its user belongs or belonged to |
| `SessionProofs!SessionsStartAtHome`, `LinksOpenInTheirWorkspace` | `StartsAtHome`, `LinkOpensInItsWorkspace` | `AddressInv`: the address of a signed-out tab is the first page, that of a page load since the last sign-in or a link opened while nobody was signed in, and the link that waits is one of the latter two |
| `InterfaceProofs!TeamTypeCorrect`, `WorksOnce` | types; `InviteWorksOnce` | `FreshInv`: the id of an invite that is still to be made is new and no other request makes it; `OneOpenInvite` |
| `InterfaceProofs!NothingPendsForgotten` | `PendingIsUnderWay` | `IdInv`: the number of a request is its own until its interval takes it; `PollInv`: what the map of polls says of any asset is so, for the wallet that is shown |
| `InterfaceProofs!WalletsTypeCorrect`, `ShownListIsOwn` | types; `LoadedListIsOfTheWorkspace` | `OwnLists`: a list that was answered holds wallets of the workspace it was asked for, the list that is held those of `rowsFor` |
| `InterfaceProofs!BusyCardWaits` | `BusyIsUnderWay` | `BusyInv`: a busy card waits for exactly one request, an idle one for none, and a card that was left has no request of its own |
| `ApprovalListsProofs!ListsTypeCorrect` | types of the approval lists | `TypeInv`: a request of the tab names what it is about, and the lists it brings are of the workspace it asked for (`Fits`) |
| `ApprovalListsProofs!LoadsStay`, `SpinnersHaveARequest` | `LoadsStayInTheirWorkspace`, `SpinnerIsUnderWay` | `TypeInv`; `Spinning`, which says that every answer that is not the one waited for leaves that one on its way (`KeepsAll`) |
| `ApprovalListsProofs!QuietIsCurrent` | `QuietListsAreCurrent` | `CurrentInv`: nothing is ahead of the server (`NotAhead`); a list that was answered is the server's but for what is known or announced since (`Recalls`); so is the list that is shown (`PendingInv`), up to the requests that expired, whose events were lost or came out of order (`behind`); a closed request is in the history, announced, or known and left to the older pages (`HistoryInv`) |
| `InterfaceProofs!LoadsStay`, `QuietLists`, `Spinners` | the same for the web interface, with the team card | each part takes its own steps or none, so `InterfaceSpec` implies the `Spec` of the part |
| `InterfaceProofs!NoGapInHistory` | `HistoryWithoutGap` | `PageHistoryInv`: an answered page has no gap, and one for `Show more` none up to its cursor (`Answer`); the cursor is the oldest transaction fetched (`Oldest`); one older page at a time, and unless a refresh overlapped it its cursor is the history's |
| `InterfaceProofs!BalancesCatchUp` | `QuietBalancesAreCurrent` | `BalanceInv`: once the timer has fired after the last confirmation, Horizon accounts for it, and so does every reading that counts |
| `InterfaceProofs!SubmitsShown` | `SubmitsWhatIsShown` | `AnswerInv`: the answer that is held, and the one that will count, answer what the form asks for; `DialogInv`: while a send is confirmed its asset is held or the native one, unless the wallet left the list under the dialog |
| `InterfaceProofs!TrustlinesTypeCorrect`, `InterfaceTypeCorrect` | types of every part | the invariants of the parts |

The assumptions are the ASSUMEs of the modules: limits are integers (a limit below one counts as one), bounds are naturals,
the set of users is finite and not empty, each wallet has a workspace, each invite an address and a workspace, each approval link a
request of one workspace, and the address of a request is the address of no other page (`AddressAssumption`). For the interface they are
`PartsAssumption`, which gathers those of its parts: each request has a workspace, and is held with at least one answer to come before it closes
(`ListsAssumption`); transactions and page sizes are naturals (`PageAssumption`); each wallet holds assets, and the native one is not the only one
there is (`FormsAssumption`). None bounds a set, and TLC evaluates all of them.

That the page of `service/page.go` ends at the oldest transaction it brings needs a least element of a finite set of numbers. The induction
theorems of the library take an operator, which no installed prover can instantiate; `LeastMember` in `InterfaceProofs`
takes the way of well-foundedness instead (a finite set is well-founded under strict inclusion, so one of its sets of smaller elements is
minimal).

Every invariant and every safety property of the passing runs is stated by one of these theorems. Only model-checked is
liveness, since TLAPS has neither fairness nor ENABLED: `EventuallyDispatched`, `SigningEnds`, `ClaimedEnds`, `GeneratingEnds` and
`ExecutingCloses`. (`ImplementsRequest` and `ImplementsLifecycle` are refinements of safety and are proved.) The violations are
TLC's, each on a small instance, which is enough to refute a claim.

## Not modelled

- Amounts, memos, addresses, assets and envelopes are model values (a payment is its id; `needsApproval` is the choice whether to
  hold), and so are their parsing and formatting; the sequence numbers of accounts (Horizon accepts or refuses any envelope), prices, quorums
  (nondeterministic), e-mails, database errors in `Approvals`, and a database that loses committed data.
- Accounts, linked identities, OAuth flows and the login limiter: short handlers over single rows; `Session` has what a tab can see of them.
- The asset registry of the settings page (`pages/Settings.tsx`, `service/workspace_asset.go`): its answers carry the whole list, the last one wins.
- A second tab that shares the cookie: `Session` is one tab. The buffers of the event hub: events come in any order or not at all.
- Rendering: layout, animations (`KeygenMesh`), icons, the details of a transaction, clipboard and toasts.
- The HTTP layer, configuration and e-mail: wiring without state.

## What could come next

A second tab in `Session`, which shares the cookie and the storage of the first; database errors in
`Approvals`, as `Signing` has them; the sequence numbers of accounts, with the second payment of a wallet that
Horizon refuses; the single use of OAuth states and the windows of the login limiter.
